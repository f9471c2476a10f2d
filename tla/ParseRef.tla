------------------------------ MODULE ParseRef ------------------------------
(***************************************************************************)
(* What the parser of src/src/Parse.cpp is to compute, said without its    *)
(* procedures: the language, as the EBNF of src/README.md, and the trees   *)
(* of expressions, as precedence and associativity.                        *)
(***************************************************************************)
EXTENDS Parse, SequencesExt

CONSTANT AsREADME  \* whether two rules are README's or the code's, which differ

ASSUME ParseRefAssumption == AsREADME \in BOOLEAN

-----------------------------------------------------------------------------
(* EBNF: a token t, a rule, a sequence es, one of es, none or one e, none  *)
(* or more e, and e where it does not start with t.                        *)
T(t)     == <<"token", t>>
R(rule)  == <<"rule", rule>>
S(es)    == <<"seq", es>>
One(es)  == <<"one", es>>
Opt(e)   == <<"opt", e>>
Star(e)  == <<"star", e>>
But(t, e) == <<"but", t, e>>
Commas(e) == S(<<e, Star(S(<<T("COMMA"), e>>))>>)
Plus(e)  == S(<<e, Star(e)>>)
AnyOf(kinds) == One({T(k) : k \in kinds})

(* The operators, loosest first, as the rules of README group them.  Its   *)
(* list of tokens (README.md:81) has the shifts among those of add_op.     *)
or_op  == {"OR_OR"}
and_op == {"AND_AND"}
cmp_op == {"LT", "GT", "EQ", "NOTEQ", "LTEQ", "GTEQ"}
add_op == {"ADD", "SUB", "OR", "XOR"}
mul_op == {"MUL", "DIV", "MOD", "AND", "LSHIFT", "RSHIFT"}
unary_op == {"ADD", "SUB", "AND", "MUL"}
assign_op == {"ASSIGN", "ADD_ASSIGN", "SUB_ASSIGN", "OR_ASSIGN", "AND_ASSIGN", "XOR_ASSIGN",
              "LSHIFT_ASSIGN", "RSHIFT_ASSIGN", "MUL_ASSIGN", "DIV_ASSIGN", "MOD_ASSIGN"}

(* README's rules where they are complete. Where the code knows more       *)
(* than README or README leaves a rule out, the rule is that of the        *)
(* code: sizeof, the compound literals, declarations among the             *)
(* statements, the semicolon after a simple statement, a return without    *)
(* value, the clauses of for, one statement each, that may be missing.     *)
(* README lets an enum end in a comma and asks for one label in every      *)
(* switch case; the code asks for an item after each comma, for no label   *)
(* in the first case and for no colon between two labels: AsREADME says    *)
(* which rule is taken. The casts of README, ( : type ) before an          *)
(* operand and CAST (212, 221), are not in the code, nor here. The code    *)
(* takes no statement that starts with a compound literal without a        *)
(* type, and has := assign to names only.                                  *)
Grammar(rule) ==
  CASE rule = "type" -> S(<<R("base_type"),
         Star(One({S(<<T("LBRACKET"), Opt(R("expr")), T("RBRACKET")>>), T("MUL")}))>>)
    [] rule = "base_type" -> One({T("NAME"),
         S(<<T("func"), T("LPAREN"), Opt(Commas(R("type"))), T("RPAREN"), R("return_type")>>),
         S(<<T("LPAREN"), R("type"), T("RPAREN")>>)})
    [] rule = "return_type" -> Opt(S(<<T("COLON"), R("type")>>))
    [] rule = "compound" -> S(<<T("LBRACE"), Opt(Commas(R("expr"))), T("RBRACE")>>)
    [] rule = "operand_expr" -> One({T("INT"), T("FLOAT"), T("STR"), R("compound"),
         S(<<T("NAME"), Opt(R("compound"))>>),
         S(<<T("LPAREN"), T("COLON"), R("type"), T("RPAREN"), R("compound")>>),
         S(<<T("LPAREN"), R("expr"), T("RPAREN")>>),
         S(<<T("sizeof"), T("LPAREN"), T("COLON"), R("type"), T("RPAREN")>>),
         S(<<T("sizeof"), T("LPAREN"), R("expr"), T("RPAREN")>>)})
    [] rule = "base_expr" -> S(<<R("operand_expr"), Star(One({
         S(<<T("LPAREN"), Opt(Commas(R("expr"))), T("RPAREN")>>),
         S(<<T("LBRACKET"), R("expr"), T("RBRACKET")>>),
         S(<<T("DOT"), T("NAME")>>)}))>>)
    [] rule = "unary_expr" -> S(<<Star(AnyOf(unary_op)), R("base_expr")>>)
    [] rule = "mul_expr" -> S(<<R("unary_expr"), Star(S(<<AnyOf(mul_op), R("unary_expr")>>))>>)
    [] rule = "add_expr" -> S(<<R("mul_expr"), Star(S(<<AnyOf(add_op), R("mul_expr")>>))>>)
    [] rule = "cmp_expr" -> S(<<R("add_expr"), Star(S(<<AnyOf(cmp_op), R("add_expr")>>))>>)
    [] rule = "and_expr" -> S(<<R("cmp_expr"), Star(S(<<AnyOf(and_op), R("cmp_expr")>>))>>)
    [] rule = "or_expr" -> S(<<R("and_expr"), Star(S(<<AnyOf(or_op), R("and_expr")>>))>>)
    [] rule = "expr" -> S(<<R("or_expr"),
         Opt(S(<<T("QUESTION"), R("expr"), T("COLON"), R("expr")>>))>>)
    [] rule = "enum_item" -> S(<<T("NAME"), Opt(S(<<T("ASSIGN"), R("expr")>>))>>)
    [] rule = "enum_items" -> S(<<R("enum_item"), Opt(S(<<T("COMMA"),
         IF AsREADME THEN Opt(R("enum_items")) ELSE R("enum_items")>>))>>)
    [] rule = "aggregate_field" ->
         S(<<Commas(T("NAME")), T("COLON"), R("type"), T("SEMICOLON")>>)
    [] rule = "func_param" -> S(<<T("NAME"), T("COLON"), R("type")>>)
    [] rule = "decl" -> One({
         S(<<T("enum"), T("NAME"), T("LBRACE"), Opt(R("enum_items")), T("RBRACE")>>),
         S(<<AnyOf({"struct", "union"}), T("NAME"), T("LBRACE"), Star(R("aggregate_field")),
             T("RBRACE")>>),
         S(<<T("var"), T("NAME"), T("ASSIGN"), R("expr")>>),
         S(<<T("var"), T("NAME"), T("COLON"), R("type"), Opt(S(<<T("ASSIGN"), R("expr")>>))>>),
         S(<<T("const"), T("NAME"), T("ASSIGN"), R("expr")>>),
         S(<<T("typedef"), T("NAME"), T("ASSIGN"), R("type")>>),
         S(<<T("func"), T("NAME"), T("LPAREN"), Opt(Commas(R("func_param"))), T("RPAREN"),
             R("return_type"), R("stmt_block")>>)})
    [] rule = "stmt_block" -> S(<<T("LBRACE"), Star(R("stmt")), T("RBRACE")>>)
    [] rule = "paren_expr" -> S(<<T("LPAREN"), R("expr"), T("RPAREN")>>)
    [] rule = "case_body" -> S(<<T("COLON"), Star(R("stmt"))>>)
    [] rule = "label" -> One({S(<<T("case"), R("expr")>>), T("default")})
    [] rule = "switch_case" ->
         S(<<IF AsREADME THEN R("label") ELSE Plus(R("label")), R("case_body")>>)
    [] rule = "switch_block" -> S(<<T("LBRACE"),
         IF AsREADME THEN S(<< >>) ELSE Opt(R("case_body")), Star(R("switch_case")), T("RBRACE")>>)
    [] rule = "name" -> One({T("NAME"), S(<<T("LPAREN"), R("name"), T("RPAREN")>>)})
    [] rule = "simple_stmt" -> One({
         S(<<R("name"), T("COLON_ASSIGN"), R("expr")>>),
         S(<<R("expr"), Opt(One({T("INC"), T("DEC"), S(<<AnyOf(assign_op), R("expr")>>)}))>>)})
    [] rule = "if" -> S(<<T("if"), R("paren_expr"), R("stmt_block"),
         Opt(S(<<T("else"), One({R("if"), R("stmt_block")})>>))>>)
    [] rule = "stmt" -> One({R("decl"), R("stmt_block"),
         S(<<T("return"), Opt(R("expr")), T("SEMICOLON")>>),
         S(<<AnyOf({"break", "continue"}), T("SEMICOLON")>>),
         R("if"),
         S(<<T("while"), R("paren_expr"), R("stmt_block")>>),
         S(<<T("for"), T("LPAREN"), Opt(R("simple_stmt")), T("SEMICOLON"), Opt(R("expr")),
             T("SEMICOLON"), R("simple_stmt"), T("RPAREN"), R("stmt_block")>>),
         S(<<T("do"), R("stmt_block"), T("while"), R("paren_expr"), T("SEMICOLON")>>),
         S(<<T("switch"), R("paren_expr"), R("switch_block")>>),
         But("LBRACE", S(<<R("simple_stmt"), T("SEMICOLON")>>))})

(* A form is a sequence of EBNF expressions still to be derived.  Reads(f) *)
(* are the pairs of a token that a text derived from f can start with and  *)
(* a form for what follows it.  The rules are ambiguous where a            *)
(* declaration without a semicolon comes before a statement; an optional   *)
(* or repeated part is taken whenever it can be (Longest).                 *)
Longest(first, other) == first \union {r \in other : \A s \in first : s[1] # r[1]}

RECURSIVE Reads(_)
Reads(f) ==
  IF f = << >> THEN {}
  ELSE LET e == Head(f)
           rest == Tail(f)
       IN  CASE e[1] = "token" -> {<<e[2], rest>>}
             [] e[1] = "rule"  -> Reads(<<Grammar(e[2])>> \o rest)
             [] e[1] = "seq"   -> Reads(e[2] \o rest)
             [] e[1] = "one"   -> UNION {Reads(<<d>> \o rest) : d \in e[2]}
             [] e[1] = "but"   -> {r \in Reads(<<e[3]>> \o rest) : r[1] # e[2]}
             [] e[1] = "opt"   -> Longest(Reads(<<e[2]>> \o rest), Reads(rest))
             [] e[1] = "star"  -> Longest(Reads(<<e[2], e>> \o rest), Reads(rest))

(* The forms that are left of those in fs once t has been read. *)
After(fs, t) == {r[2] : r \in {r \in UNION {Reads(f) : f \in fs} : r[1] = t}}

(* The forms left of a declaration after the tokens the parser has taken. *)
Left == FoldLeft(After, {<<R("decl")>>}, Front(input))

(* A form derives the empty text if all its parts do; a rule never does,   *)
(* but for return_type.                                                    *)
IsFinished(f) == \A i \in DOMAIN f : f[i][1] \in {"opt", "star"} \/ f[i] = R("return_type")

(* What the parser has taken when parse_decl returns is a declaration.     *)
AcceptsOnlyDecls == status = "done" => \E f \in Left : IsFinished(f)

(* The parser exits only at a token that continues no declaration: with    *)
(* one token of lookahead it never takes a turn it has to take back.       *)
RefusesNoDecl == status = "exit" => After(Left, token) = {}

-----------------------------------------------------------------------------
Opens == {"LPAREN", "LBRACKET"}
Closes == {"RPAREN", "RBRACKET"}

(* How many parentheses, opened at i or later, token k is inside of. *)
Depth(i, k) ==
  Quantify(i .. k - 1, LAMBDA n : input[n] \in Opens)
    - Quantify(i .. k - 1, LAMBDA n : input[n] \in Closes)

(* From the loosest to the tightest. *)
Levels == <<or_op, and_op, cmp_op, add_op, mul_op>>

(* The tree of the expression from token i to token j, made of names,      *)
(* integers, operators and parentheses: split at the first question mark,  *)
(* or else at the last of the loosest binary operators, those that have an *)
(* operand before them.                                                    *)
RECURSIVE Tree(_, _)
Tree(i, j) ==
  LET outer     == {k \in i .. j : Depth(i, k) = 0}
      Of(kinds) == {k \in outer : input[k] \in kinds}
      binary    == {k \in outer \ {i} : input[k - 1] \in {"NAME", "INT"} \union Closes}
      loose     == {n \in DOMAIN Levels : Of(Levels[n]) \intersect binary # {}}
  IN  IF Of({"QUESTION"}) # {}
      THEN LET q == Min(Of({"QUESTION"}))
               c == Min({c \in Of({"COLON"}) :
                           Cardinality({k \in Of({"QUESTION"}) : k < c}) =
                             Cardinality({k \in Of({"COLON"}) : k <= c})})
           IN  <<"expr_ternary", Tree(i, q - 1), Tree(q + 1, c - 1), Tree(c + 1, j)>>
      ELSE IF loose # {}
      THEN LET k == Max(Of(Levels[Min(loose)]) \intersect binary)
           IN  <<"expr_binary", Tree(i, k - 1), <<"tok", k>>, Tree(k + 1, j)>>
      ELSE IF input[i] \in unary_op THEN <<"expr_unary", <<"tok", i>>, Tree(i + 1, j)>>
      ELSE IF i = j THEN <<IF input[i] = "INT" THEN "expr_int" ELSE "expr_name", <<"tok", i>>>>
      ELSE IF input[j] = "NAME" THEN <<"expr_field", Tree(i, j - 2), <<"tok", j>>>>
      ELSE LET m == Max(Of(Opens))
           IN  IF m = i THEN Tree(i + 1, j - 1)
               ELSE IF input[m] = "LBRACKET"
               THEN <<"expr_index", Tree(i, m - 1), Tree(m + 1, j - 1)>>
               ELSE <<"expr_call", Tree(i, m - 1),
                      IF m + 1 = j THEN <<"array">> ELSE <<"array", Tree(m + 1, j - 1)>>>>

Plain ==
  {"NAME", "INT", "DOT", "QUESTION", "COLON"} \union Opens \union Closes \union UNION Range(Levels)

(* The value of a const declaration, made of these, is that tree: each     *)
(* operator binds as README's rules have it and to the left, ?: binds      *)
(* loosest and to the right.                                               *)
PrecedenceExact ==
  status = "done" /\ vals[1][1] = "decl_const" =>
    LET last == Len(input) - 1
    IN  Range(SubSeq(input, 4, last)) \subseteq Plain => vals[1][3] = Tree(4, last)
=============================================================================
