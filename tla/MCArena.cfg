CONSTANTS
  Arenas = {strings, ast}
  strings = strings
  ast = ast
  AddrSpace = 64
  ARENA_BLOCK_SIZE = 12
  Sizes <- MCSizes
SPECIFICATION ArenaSpec
INVARIANTS ArenaTypeOK AllocsApart TailFree AllocsMapped FreeAllLeaksNothing
PROPERTIES AssertsOnlyOnWrap ImplementsPool
CHECK_DEADLOCK FALSE
