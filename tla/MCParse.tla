------------------------------- MODULE MCParse -------------------------------
(* The parser and the printer on all short texts over alphabets that each  *)
(* belong to one part of the language, and on the texts of parse_test.     *)
EXTENDS ParseRef, Printer, TLC

Alphabet(kinds, start, maxTokens, maxOpen) ==
  [kinds |-> kinds, start |-> start, maxTokens |-> maxTokens, maxOpen |-> maxOpen]

(* Expressions: any two binary operators, or one and a unary one; three    *)
(* with one for each level, or two and a unary one; a conditional within a *)
(* conditional; parentheses, calls, subscripts and fields under operators. *)
MCConst == <<"const", "NAME", "ASSIGN">>
MCOperators == Alphabet({"NAME"} \union UNION Range(Levels), MCConst \o <<"NAME">>, 8, 9)
MCLevels == Alphabet({"NAME", "OR_OR", "AND_AND", "LT", "SUB", "DIV"}, MCConst, 10, 9)
MCConditionals == Alphabet({"NAME", "QUESTION", "COLON", "OR_OR"}, MCConst, 13, 9)
MCParens ==
  Alphabet({"NAME", "SUB", "MUL", "LPAREN", "RPAREN"}, MCConst \o <<"LPAREN", "NAME", "SUB">>, 12, 2)
MCPostfix ==
  Alphabet({"NAME", "SUB", "LPAREN", "RPAREN", "LBRACKET", "RBRACKET", "DOT"}, MCConst, 10, 2)

(* Types; compound literals and sizeof. *)
MCTypes ==
  Alphabet({"NAME", "INT", "COLON", "COMMA", "func", "MUL", "LPAREN", "RPAREN", "LBRACKET",
            "RBRACKET"}, <<"typedef", "NAME", "ASSIGN">>, 9, 9)
MCLiterals ==
  Alphabet({"NAME", "INT", "COLON", "COMMA", "sizeof", "MUL", "LPAREN", "RPAREN", "LBRACE",
            "RBRACE"}, <<"var", "NAME", "ASSIGN">>, 8, 9)

(* Declarations with lists. *)
MCLists ==
  Alphabet({"enum", "struct", "func", "NAME", "INT", "ASSIGN", "COLON", "COMMA", "SEMICOLON",
            "LPAREN", "RPAREN", "LBRACE", "RBRACE"}, << >>, 10, 9)

(* Variables with a type, and with or without a value. *)
MCVars ==
  Alphabet({"NAME", "func", "COLON", "ASSIGN", "LPAREN", "RPAREN", "LBRACKET", "RBRACKET"},
           <<"var", "NAME", "COLON">>, 9, 9)

(* Statements, in the body of a function. *)
MCBody == <<"func", "NAME", "LPAREN", "RPAREN", "LBRACE">>
MCSimple ==
  Alphabet({"NAME", "COLON_ASSIGN", "ASSIGN", "INC", "SEMICOLON", "return", "break", "var", "MUL",
            "LPAREN", "RPAREN", "LBRACE", "RBRACE"}, MCBody, 10, 3)
MCBranches ==
  Alphabet({"NAME", "if", "else", "LPAREN", "RPAREN", "LBRACE", "RBRACE"}, MCBody, 19, 2)
MCLoops ==
  Alphabet({"NAME", "SEMICOLON", "while", "do", "LPAREN", "RPAREN", "LBRACE", "RBRACE"},
           MCBody, 14, 2)
MCFors ==
  Alphabet({"NAME", "COLON_ASSIGN", "ASSIGN", "INC", "SEMICOLON", "RPAREN", "LBRACE", "RBRACE"},
           MCBody \o <<"for", "LPAREN">>, 18, 2)
MCSwitches ==
  Alphabet({"NAME", "SEMICOLON", "COLON", "case", "default", "LBRACE", "RBRACE"},
           MCBody \o <<"switch", "LPAREN", "NAME", "RPAREN", "LBRACE">>, 18, 2)

(* The texts of parse_test, token by token. *)
MCTests == {
  <<"const", "NAME", "ASSIGN", "sizeof", "LPAREN", "COLON", "NAME", "MUL", "LBRACKET", "INT",
    "RBRACKET", "RPAREN">>,
  <<"const", "NAME", "ASSIGN", "sizeof", "LPAREN", "INT", "ADD", "INT", "RPAREN">>,
  <<"var", "NAME", "ASSIGN", "NAME", "EQ", "INT", "QUESTION", "INT", "ADD", "INT", "COLON",
    "INT", "SUB", "INT">>,
  <<"func", "NAME", "LPAREN", "NAME", "COLON", "NAME", "RPAREN", "COLON", "NAME", "LBRACE",
    "NAME", "LPAREN", "STR", "RPAREN", "SEMICOLON", "if", "LPAREN", "NAME", "EQ", "INT", "RPAREN",
    "LBRACE", "return", "INT", "SEMICOLON", "RBRACE", "else", "LBRACE", "return", "NAME", "MUL",
    "NAME", "LPAREN", "NAME", "SUB", "INT", "RPAREN", "SEMICOLON", "RBRACE", "RBRACE">>,
  <<"func", "NAME", "LPAREN", "NAME", "COLON", "NAME", "RPAREN", "COLON", "NAME", "LBRACE",
    "NAME", "COLON_ASSIGN", "INT", "SEMICOLON", "for", "LPAREN", "NAME", "COLON_ASSIGN", "INT",
    "SEMICOLON", "NAME", "LTEQ", "NAME", "SEMICOLON", "NAME", "INC", "RPAREN", "LBRACE", "NAME",
    "MUL_ASSIGN", "NAME", "SEMICOLON", "RBRACE", "return", "NAME", "SEMICOLON", "RBRACE">>,
  <<"var", "NAME", "ASSIGN", "NAME", "QUESTION", "NAME", "AND", "NAME", "ADD", "NAME", "LSHIFT",
    "NAME", "ADD", "NAME", "MUL", "NAME", "EQ", "ADD", "NAME", "SUB", "NAME", "SUB", "NAME",
    "ADD", "MUL", "NAME", "DIV", "NAME", "LPAREN", "NAME", "COMMA", "NAME", "RPAREN", "ADD",
    "SUB", "NAME", "MOD", "NAME", "LBRACKET", "NAME", "RBRACKET", "AND_AND", "NAME", "LTEQ",
    "NAME", "MUL", "LPAREN", "NAME", "ADD", "NAME", "RPAREN", "DIV", "NAME", "COLON", "INT">>,
  <<"func", "NAME", "LPAREN", "NAME", "COLON", "NAME", "RPAREN", "COLON", "NAME", "LBRACE",
    "switch", "LPAREN", "NAME", "RPAREN", "LBRACE", "case", "INT", "COLON", "case", "INT",
    "COLON", "return", "NAME", "SEMICOLON", "case", "INT", "COLON", "default", "COLON", "return",
    "NAME", "SEMICOLON", "RBRACE", "RBRACE">>,
  <<"enum", "NAME", "LBRACE", "NAME", "ASSIGN", "INT", "COMMA", "NAME", "COMMA", "NAME",
    "ASSIGN", "INT", "RBRACE">>,
  <<"const", "NAME", "ASSIGN", "FLOAT">>,
  <<"struct", "NAME", "LBRACE", "NAME", "COMMA", "NAME", "COLON", "NAME", "SEMICOLON",
    "RBRACE">>,
  <<"var", "NAME", "ASSIGN", "NAME", "LBRACE", "FLOAT", "COMMA", "SUB", "FLOAT", "RBRACE">>,
  <<"var", "NAME", "COLON", "NAME", "ASSIGN", "LBRACE", "FLOAT", "COMMA", "SUB", "FLOAT",
    "RBRACE">>,
  <<"union", "NAME", "LBRACE", "NAME", "COLON", "NAME", "SEMICOLON", "NAME", "COLON", "NAME",
    "SEMICOLON", "RBRACE">>,
  <<"typedef", "NAME", "ASSIGN", "NAME", "LBRACKET", "INT", "ADD", "INT", "RBRACKET">>,
  <<"func", "NAME", "LPAREN", "RPAREN", "LBRACE", "do", "LBRACE", "NAME", "LPAREN", "INT",
    "RPAREN", "SEMICOLON", "RBRACE", "while", "LPAREN", "INT", "RPAREN", "SEMICOLON", "RBRACE">>,
  <<"typedef", "NAME", "ASSIGN", "LPAREN", "func", "LPAREN", "NAME", "RPAREN", "COLON", "NAME",
    "RPAREN", "LBRACKET", "INT", "RBRACKET">>,
  <<"func", "NAME", "LPAREN", "RPAREN", "LBRACE", "enum", "NAME", "LBRACE", "NAME", "COMMA",
    "NAME", "COMMA", "NAME", "RBRACE", "return", "SEMICOLON", "RBRACE">>,
  <<"func", "NAME", "LPAREN", "RPAREN", "LBRACE", "if", "LPAREN", "INT", "RPAREN", "LBRACE",
    "return", "INT", "SEMICOLON", "RBRACE", "else", "if", "LPAREN", "INT", "RPAREN", "LBRACE",
    "return", "INT", "SEMICOLON", "RBRACE", "else", "LBRACE", "return", "INT", "SEMICOLON",
    "RBRACE", "RBRACE">>}

(* The alphabets of each run; the start of a test is all of it. *)
MCAlphabets ==
  {MCOperators, MCLevels, MCConditionals, MCParens, MCPostfix, MCTypes, MCLiterals, MCLists,
   MCVars, MCSimple, MCBranches, MCLoops, MCFors, MCSwitches}
    \union {Alphabet({}, t, Len(t), 9) : t \in MCTests}
MCPrintNull    == {MCVars}
MCReadmeEnum   == {MCLists}
MCReadmeSwitch == {MCSwitches}

(* A case of a switch, with a statement that is a name. *)
MCPrintSExpr ==
  {[MCSwitches EXCEPT !.start = @ \o <<"case", "NAME", "COLON", "NAME">>]}
=============================================================================
