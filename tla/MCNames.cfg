CONSTANTS
  Arenas = {strings, ast}
  strings = strings
  ast = ast
  StrArena = strings
  AddrSpace = 80
  ARENA_BLOCK_SIZE = 24
  Chars = {"h", "i", "d", "x"}
  Strings <- MCStrings
  Sizes <- MCSizes
  BOOT <- MCBoot
  KEYWORDS <- MCKeywordList
  Decls = {d1, d2}
  nullptr = nullptr
  Refused = Refused
SPECIFICATION NamesSpec
INVARIANTS KeywordsTypeOK KeywordsExact InternsCanonical SearchExact SymbolsTypeOK SymbolsAreNames
PROPERTIES InternsStable ImplementsTable ImplementsSymbols
CHECK_DEADLOCK FALSE
