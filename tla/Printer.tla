------------------------------- MODULE Printer -------------------------------
(***************************************************************************)
(* The printer of src/src/Print.cpp, over the trees that Parse builds: its *)
(* print_ functions as operators from a node to what is printed for it,    *)
(* piece by piece.  A piece is a parenthesis, a space, a newline, a word,  *)
(* or what a token of the text carries; in between stand the changes of    *)
(* the global indent and, where the code follows a pointer that the parser *)
(* left null, Crash.                                                       *)
(***************************************************************************)
EXTENDS Parse, SequencesExt

OpenParen  == <<"(">>
CloseParen == <<")">>
Space      == <<" ">>
Word(w)    == <<"word", w>>
print_newline == <<"newline">>
Indent     == <<"indent++">>
Outdent    == <<"indent--">>
Crash      == <<"crash">>

(* "(head part ... part)", each part a sequence of pieces. *)
Spaced(parts) == FlattenSeq([i \in DOMAIN parts |-> <<Space>> \o parts[i]])
Form(head, parts) == <<OpenParen>> \o head \o Spaced(parts) \o <<CloseParen>>

-----------------------------------------------------------------------------
RECURSIVE print_typespec(_), print_expr(_), print_stmt(_), print_decl(_)

(* The pieces for each element of an array. *)
Typespecs(array) == [i \in 1 .. Len(array) - 1 |-> print_typespec(array[i + 1])]
Exprs(array)     == [i \in 1 .. Len(array) - 1 |-> print_expr(array[i + 1])]
Stmts(array)     == [i \in 1 .. Len(array) - 1 |-> print_stmt(array[i + 1])]

(* Slip: no test whether there is a type.                                  *)
TypeOrNil_always(t) == print_typespec(t)

TypeOrNil(t) == IF t # Null THEN print_typespec(t) ELSE <<Word("nil")>>

print_typespec(t) ==
  CASE t = Null -> <<Crash>>
    [] t[1] = "typespec_name"  -> <<t[2]>>
    [] t[1] = "typespec_func"  -> Form(<<Word("func")>>,
         <<<<OpenParen>> \o Spaced(Typespecs(t[2])) \o <<Space, CloseParen>>,
           print_typespec(t[3])>>)
    [] t[1] = "typespec_array" ->
         Form(<<Word("array")>>, <<print_typespec(t[2]), print_expr(t[3])>>)
    [] t[1] = "typespec_ptr"   -> Form(<<Word("ptr")>>, <<print_typespec(t[2])>>)

(* No tree of the parser has a cast. *)
print_expr(e) ==
  CASE e = Null -> <<Crash>>
    [] e[1] \in {"expr_int", "expr_float", "expr_str", "expr_name"} -> <<e[2]>>
    [] e[1] = "expr_call"   -> Form(print_expr(e[2]), Exprs(e[3]))
    [] e[1] = "expr_index"  -> Form(<<Word("index")>>, <<print_expr(e[2]), print_expr(e[3])>>)
    [] e[1] = "expr_field"  -> Form(<<Word("field")>>, <<print_expr(e[2]), <<e[3]>>>>)
    [] e[1] = "expr_compound" -> Form(<<Word("compound")>>, <<TypeOrNil(e[2])>> \o Exprs(e[3]))
    [] e[1] = "expr_unary"  -> Form(<<e[2]>>, <<print_expr(e[3])>>)
    [] e[1] = "expr_binary" -> Form(<<e[3]>>, <<print_expr(e[2]), print_expr(e[4])>>)
    [] e[1] = "expr_ternary" ->
         Form(<<Word("?")>>, <<print_expr(e[2]), print_expr(e[3]), print_expr(e[4])>>)
    [] e[1] = "expr_sizeof_expr" -> Form(<<Word("sizeof-expr")>>, <<print_expr(e[2])>>)
    [] e[1] = "expr_sizeof_type" -> Form(<<Word("sizeof-type")>>, <<print_typespec(e[2])>>)

-----------------------------------------------------------------------------
print_stmt_block(block) ==
  <<OpenParen, Word("block"), Indent>> \o FlattenSeq(Stmts(block)) \o <<Outdent, CloseParen>>

(* A block on a line of its own, further to the right. *)
Body(block) == <<Indent, print_newline>> \o print_stmt_block(block) \o <<Outdent>>

(* it is an ElseIf: a condition and a block; *)
print_elseif(it) ==
  <<print_newline, Word("elseif"), Space>> \o print_expr(it[2])
    \o <<print_newline>> \o print_stmt_block(it[3])

(* Slip: a case that leaves its indentation.                               *)
print_case_deeper(it) ==
  <<print_newline, OpenParen, Word("case"), Space, OpenParen>>
    \o (IF it[2] = <<"true">> THEN <<Space, Word("default")>> ELSE << >>)
    \o Spaced(Exprs(it[3])) \o <<CloseParen, Space, Indent, print_newline>>
    \o print_stmt_block(it[4])

(* or a SwitchCase: is_default, exprs and a block.  Only the inner of its  *)
(* two parentheses is closed.                                              *)
print_case(it) ==
  <<print_newline, OpenParen, Word("case"), Space, OpenParen>>
    \o (IF it[2] = <<"true">> THEN <<Space, Word("default")>> ELSE << >>)
    \o Spaced(Exprs(it[3])) \o <<CloseParen, Space>> \o Body(it[4])

print_stmt(s) ==
  CASE s = Null -> <<Crash>>
    [] s[1] = "stmt_decl"     -> print_decl(s[2])
    [] s[1] = "stmt_return"   ->
         Form(<<Word("return")>>, IF s[2] # Null THEN <<print_expr(s[2])>> ELSE << >>)
    [] s[1] \in {"stmt_break", "stmt_continue"} -> Form(<<Word(s[1])>>, << >>)
    [] s[1] = "stmt_block"    -> print_stmt_block(s[2])
    [] s[1] = "stmt_if"       ->
         <<OpenParen, Word("if"), Space>> \o print_expr(s[2])
           \o <<Indent, print_newline>> \o print_stmt_block(s[3])
           \o FlattenSeq([i \in 1 .. Len(s[4]) - 1 |-> print_elseif(s[4][i + 1])])
           \o (IF s[5] # EmptyBlock
               THEN <<print_newline, Word("else"), Space, print_newline>> \o print_stmt_block(s[5])
               ELSE << >>)
           \o <<Outdent, CloseParen>>
    [] s[1] = "stmt_while"    ->
         <<OpenParen, Word("while"), Space>> \o print_expr(s[2]) \o Body(s[3]) \o <<CloseParen>>
    [] s[1] = "stmt_do_while" ->
         <<OpenParen, Word("do-while"), Space>> \o print_expr(s[3]) \o Body(s[2]) \o <<CloseParen>>
    [] s[1] = "stmt_for"      ->
         <<OpenParen, Word("for"), Space>> \o print_stmt(s[2]) \o print_expr(s[3])
           \o print_stmt(s[4]) \o Body(s[5]) \o <<CloseParen>>
    [] s[1] = "stmt_switch"   ->
         <<OpenParen, Word("switch"), Space>> \o print_expr(s[2]) \o <<Indent>>
           \o FlattenSeq([i \in 1 .. Len(s[3]) - 1 |-> print_case(s[3][i + 1])])
           \o <<Outdent, CloseParen>>
    [] s[1] = "stmt_assign"   ->
         Form(<<s[3]>>, <<print_expr(s[2])>> \o (IF s[4] # Null THEN <<print_expr(s[4])>> ELSE << >>))
    [] s[1] = "stmt_init"     -> Form(<<Word(":=")>>, <<<<s[2]>>, print_expr(s[3])>>)
    [] s[1] = "stmt_expr"     -> print_expr(s[2])

-----------------------------------------------------------------------------
print_enum_item(it) ==
  <<print_newline>> \o
    Form(<<it[2]>>, <<IF it[3] # Null THEN print_expr(it[3]) ELSE <<Word("nil")>>>>)

(* Slip: the first of the names alone.                                     *)
print_aggregate_item_first(it) == <<print_newline>> \o Form(print_typespec(it[3]), <<<<it[2][2]>>>>)

(* The type, then the names. *)
print_aggregate_item(it) ==
  <<print_newline>> \o
    Form(print_typespec(it[3]), [i \in 1 .. Len(it[2]) - 1 |-> <<it[2][i + 1]>>])

print_func_param(it) == <<Space, it[2], Space>> \o print_typespec(it[3])

print_decl(d) ==
  CASE d[1] = "decl_enum" ->
         <<OpenParen, Word("enum"), Space, d[2], Indent>>
           \o FlattenSeq([i \in 1 .. Len(d[3]) - 1 |-> print_enum_item(d[3][i + 1])])
           \o <<Outdent, CloseParen>>
    [] d[1] \in {"struct", "union"} ->
         <<OpenParen, Word(d[1]), Space, d[2], Indent>>
           \o FlattenSeq([i \in 1 .. Len(d[3]) - 1 |-> print_aggregate_item(d[3][i + 1])])
           \o <<Outdent, CloseParen>>
    [] d[1] = "decl_var"     ->
         Form(<<Word("var")>>, <<<<d[2]>>, TypeOrNil(d[3]), print_expr(d[4])>>)
    [] d[1] = "decl_const"   -> Form(<<Word("const")>>, <<<<d[2]>>, print_expr(d[3])>>)
    [] d[1] = "decl_typedef" -> Form(<<Word("typedef")>>, <<<<d[2]>>, print_typespec(d[3])>>)
    [] d[1] = "decl_func"    ->
         <<OpenParen, Word("func"), Space, d[2], Space, OpenParen>>
           \o FlattenSeq([i \in 1 .. Len(d[3]) - 1 |-> print_func_param(d[3][i + 1])])
           \o <<Space, CloseParen, Space>> \o TypeOrNil(d[4]) \o Body(d[5]) \o <<CloseParen>>

(* parse_and_print_decl prints what parse_decl returns. *)
Printed == print_decl(vals[1])

-----------------------------------------------------------------------------
(* The nodes of a tree, itself included; a token is a leaf. *)
RECURSIVE Nodes(_)
Nodes(v) == {v} \union (IF v[1] = "tok" THEN {} ELSE UNION {Nodes(v[i]) : i \in 2 .. Len(v)})

(* A part that the grammar lets the text leave out and that the printer    *)
(* takes to be there: the type a function type returns, the size of an     *)
(* array type, the value of a variable, the first two clauses of a for.    *)
Incomplete(v) ==
  \/ v[1] = "typespec_func" /\ v[3] = Null
  \/ v[1] = "typespec_array" /\ v[3] = Null
  \/ v[1] = "decl_var" /\ v[4] = Null
  \/ v[1] = "stmt_for" /\ Null \in {v[2], v[3]}

Crashes == Crash \in Range(Printed)

(* A declaration that parses is printed to its end unless it lacks one of  *)
(* those parts, wherever in the tree: everything else that may be null is  *)
(* tested before it is followed.                                           *)
CrashesOnlyIncomplete ==
  status = "done" => (Crashes <=> \E v \in Nodes(vals[1]) : Incomplete(v))

(* Each token kept in the tree, names, values and operators, is printed    *)
(* exactly once, whatever the order the parts of a node are printed in.    *)
PrintsEveryLeaf ==
  status = "done" /\ ~Crashes =>
    LET printed == SelectSeq(Printed, LAMBDA p : p[1] = "tok")
    IN  /\ Range(printed) = {v \in Nodes(vals[1]) : v[1] = "tok"}
        /\ IsInjective(printed)

(* Each up in s counts one, each down one less; the sum after each piece.  *)
Nesting(s, up, down) ==
  LET level[n \in 0 .. Len(s)] ==
        IF n = 0 THEN 0
        ELSE level[n - 1] + (IF s[n] = up THEN 1 ELSE 0) - (IF s[n] = down THEN 1 ELSE 0)
  IN  level

(* Whatever was printed, indent is again what it was, so that the next     *)
(* declaration starts at the margin, and was never less, so that the width *)
(* print_newline computes from it is no negative one.                      *)
IndentGivenBack ==
  status = "done" /\ ~Crashes =>
    LET level == Nesting(Printed, Indent, Outdent)
    IN  level[Len(Printed)] = 0 /\ \A n \in DOMAIN level : level[n] >= 0

(* Every declaration that parses can be printed: parse_and_print_decl      *)
(* hands what parse_decl returns to print_decl as it is.                   *)
PrintsWhatParses == status = "done" => ~Crashes

(* What is printed is an S-expression: its parentheses match, and no word, *)
(* name, value or operator is printed right after another.                 *)
PrintsSExpression ==
  status = "done" /\ ~Crashes =>
    LET text  == SelectSeq(Printed, LAMBDA p : p \notin {Indent, Outdent})
        atoms == {i \in DOMAIN text : text[i][1] \in {"word", "tok"}}
    IN  /\ Nesting(text, OpenParen, CloseParen)[Len(text)] = 0
        /\ \A i \in atoms : i - 1 \notin atoms
=============================================================================
