-------------------------------- MODULE Parse --------------------------------
(***************************************************************************)
(* The recursive-descent parser of src/src/Parse.cpp, with the tree        *)
(* constructors of src/src/Ast.cpp that it calls.                          *)
(*                                                                         *)
(* There is one action for each function of the parser.  The call stack is *)
(* todo, the sequence of what is left to do, next item first: an item is   *)
(* <<f, "begin">> for a call of f, <<f, label>> for the rest of a call     *)
(* that is under way, or one of the idioms below.  The values of calls     *)
(* that have returned, and the locals that later items need, are on vals,  *)
(* last one on top.  A value is a sequence that starts with a tag: a tree  *)
(* node <<constructor, arguments in source order>>, <<"tok", k>> for what  *)
(* the k-th token carries, <<"list", ...>> for a vector, <<"array", ...>>  *)
(* for its copy in ast_arena, <<"null">>, <<"true">> and <<"false">>.      *)
(*                                                                         *)
(* Which token next_token returns is left open, so that the parser is run  *)
(* on every text over one of the Alphabets within the bounds.              *)
(***************************************************************************)
EXTENDS Integers, Sequences, FiniteSets

CONSTANT
  Alphabets  \* records: kinds of tokens, keywords by name; the tokens that a text over
             \* them starts with; and bounds, on its length and on the brackets open at once

ASSUME ParseAssumption ==
  \A A \in Alphabets :
    /\ "EOF" \notin A.kinds
    /\ A.start \in Seq(STRING) /\ A.maxTokens \in Nat \ {0} /\ A.maxOpen \in Nat

VARIABLES
  alphabet, \* that of the text
  input,   \* the tokens next_token has returned; the last is Global::token
  todo,
  vals,
  errors,  \* what syntax_error has reported
  status   \* "run", "done" (parse_decl has returned) or "exit" (fatal)

parseVars == <<alphabet, input, todo, vals, errors, status>>

(* Kinds from FIRST_MUL to LAST_MUL and so on. *)
MulOps    == {"MUL", "DIV", "MOD", "AND", "LSHIFT", "RSHIFT"}
AddOps    == {"ADD", "SUB", "XOR", "OR"}
CmpOps    == {"EQ", "NOTEQ", "LT", "GT", "LTEQ", "GTEQ"}
UnaryOps  == {"ADD", "SUB", "MUL", "AND"}
AssignOps == {"ASSIGN", "ADD_ASSIGN", "SUB_ASSIGN", "OR_ASSIGN", "AND_ASSIGN", "XOR_ASSIGN",
              "LSHIFT_ASSIGN", "RSHIFT_ASSIGN", "MUL_ASSIGN", "DIV_ASSIGN", "MOD_ASSIGN"}
DeclKeywords == {"enum", "struct", "union", "var", "const", "typedef", "func"}

token == input[Len(input)]
top   == vals[Len(vals)]

Null  == <<"null">>
Empty == <<"list">>
EmptyBlock == <<"array">>

(* The items of todo. *)
Call(f)           == <<f, "begin">>
Expect(kind)      == <<"Expect", kind>>          \* expect_token(kind);
Make(node, n)     == <<"Make", node, n>>         \* node(the n values on top)
Push(v)           == <<"Push", v>>               \* a local gets the value v
PushBack          == <<"PushBack">>          \* v.push_back(the value on top)
Dup(n)            == <<"ast_dup", n>>            \* ast_dup of the vector below the n on top
Unless(kind, f)   == <<"Unless", kind, f>>       \* if (!is_token(kind)) x = f();
IfMatch(kind, f)  == <<"IfMatch", kind, f>>      \* if (match_token(kind)) x = f();
List(f, stop)     == <<"List", f, stop>>         \* a vector of f(), commas between, unless
                                                 \* it starts with stop
More(f)           == <<"More", f>>               \* push_back; then as often as there is a comma
Each(f, stops)    == <<"Each", f, stops>>        \* push_back(f()) until EOF or one of stops
fatal             == Call("fatal")

-----------------------------------------------------------------------------
(* What can come after n tokens. *)
NextTokens(n) ==
  IF n < Len(alphabet.start) THEN {alphabet.start[n + 1]} ELSE alphabet.kinds \union {"EOF"}

ParseInit ==
  /\ alphabet \in Alphabets
  /\ \E t \in NextTokens(0) : input = <<t>>
  /\ todo = <<Call("parse_decl")>>
  /\ vals = << >>
  /\ errors = {}
  /\ status = "run"

ExpectsOf(items, kinds) == {i \in DOMAIN items : items[i] \in {Expect(k) : k \in kinds}}

(* How many of the brackets that are still to be closed have been opened.  *)
Open(items) ==
  Cardinality(ExpectsOf(items, {"RPAREN", "RBRACKET", "RBRACE"}))
    - Cardinality(ExpectsOf(items, {"LPAREN", "LBRACE"}))

(* A caller of next_token says first what is to be done after it. *)
next_token ==
  /\ \E t \in NextTokens(Len(input)) :
       /\ t # "EOF" => Len(input) < alphabet.maxTokens /\ Open(todo') <= alphabet.maxOpen
       /\ input' = Append(input, t)
  /\ UNCHANGED alphabet

At(f, label) == status = "run" /\ todo # << >> /\ Head(todo) = <<f, label>>
Idiom(name)  == status = "run" /\ todo # << >> /\ Head(todo)[1] = name

(* Go on with items in place of the one at the head of todo, *)
Goto(items) ==
  /\ todo' = items \o Tail(todo)
  /\ UNCHANGED <<alphabet, input, vals, errors, status>>

(* having taken the token at hand, *)
Eat(items) ==
  /\ todo' = items \o Tail(todo)
  /\ next_token
  /\ UNCHANGED <<vals, errors, status>>

(* and kept what it carries, *)
Keep(items) ==
  /\ todo' = items \o Tail(todo)
  /\ next_token
  /\ vals' = Append(vals, <<"tok", Len(input)>>)
  /\ UNCHANGED <<errors, status>>

(* or having computed a value; *)
Value(v, items) ==
  /\ vals' = Append(vals, v)
  /\ todo' = items \o Tail(todo)
  /\ UNCHANGED <<alphabet, input, errors, status>>

(* or not at all. *)
Exit ==
  /\ status' = "exit"
  /\ UNCHANGED <<alphabet, input, todo, vals, errors>>

expect_token ==
  /\ Idiom("Expect")
  /\ \/ token = Head(todo)[2] /\ Eat(<< >>)
     \/ token # Head(todo)[2] /\ Exit

(* ast_dup copies a vector into the tree, which outlives it. *)
Copied(v) == IF v[1] = "list" THEN <<"array">> \o Tail(v) ELSE v

ast_dup ==
  /\ Idiom("ast_dup")
  /\ vals' = [vals EXCEPT ![Len(vals) - Head(todo)[2]] = Copied(@)]
  /\ todo' = Tail(todo)
  /\ UNCHANGED <<alphabet, input, errors, status>>

(* Which argument a constructor copies, if any; not the statements of a    *)
(* block, which the caller is to have copied.                              *)
Dups == [typespec_func |-> 1, expr_compound |-> 2, expr_call |-> 2, stmt_if |-> 3, stmt_switch |-> 2,
         decl_enum |-> 2, struct |-> 2, union |-> 2, decl_func |-> 2]

MakeNode ==
  /\ Idiom("Make")
  /\ LET node == Head(todo)[2]
         kept == Len(vals) - Head(todo)[3]
         args == SubSeq(vals, kept + 1, Len(vals))
     IN  vals' = Append(SubSeq(vals, 1, kept),
                        <<node>> \o [i \in DOMAIN args |->
                          IF node \in DOMAIN Dups /\ i = Dups[node] THEN Copied(args[i]) ELSE args[i]])
  /\ todo' = Tail(todo)
  /\ UNCHANGED <<alphabet, input, errors, status>>

(* Slips, each in place of one definition: a vector with its last element  *)
(* first;                                                                  *)
PushedBack_front ==
  Append(SubSeq(vals, 1, Len(vals) - 2), <<"list", top>> \o Tail(vals[Len(vals) - 1]))

(* vals with its top value appended to the vector below it. *)
PushedBack == Append(SubSeq(vals, 1, Len(vals) - 2), Append(vals[Len(vals) - 1], top))

Locals ==
  \/ Idiom("Push") /\ Value(Head(todo)[2], << >>)
  \/ /\ Idiom("PushBack")
     /\ vals' = PushedBack
     /\ todo' = Tail(todo)
     /\ UNCHANGED <<alphabet, input, errors, status>>

Optional ==
  \/ /\ Idiom("Unless")
     /\ \/ token # Head(todo)[2] /\ Goto(<<Call(Head(todo)[3])>>)
        \/ token = Head(todo)[2] /\ Value(Null, << >>)
  \/ /\ Idiom("IfMatch")
     /\ \/ token = Head(todo)[2] /\ Eat(<<Call(Head(todo)[3])>>)
        \/ token # Head(todo)[2] /\ Value(Null, << >>)

CommaList ==
  \/ /\ Idiom("List")
     /\ \/ token = Head(todo)[3] /\ Value(Empty, << >>)
        \/ /\ token # Head(todo)[3]
           /\ Value(Empty, <<Call(Head(todo)[2]), More(Head(todo)[2])>>)
  \/ /\ Idiom("More")
     /\ vals' = PushedBack
     /\ \/ /\ token = "COMMA"
           /\ todo' = <<Call(Head(todo)[2])>> \o todo
           /\ next_token
        \/ /\ token # "COMMA"
           /\ todo' = Tail(todo) /\ UNCHANGED <<alphabet, input>>
     /\ UNCHANGED <<errors, status>>

(* a block that only a brace ends;                                         *)
EachUntil_brace ==
  /\ Idiom("Each")
  /\ \/ /\ token \notin {"RBRACE", "EOF"}
        /\ Goto(<<Call(Head(todo)[2]), PushBack, Head(todo)>>)
     \/ token \in {"RBRACE", "EOF"} /\ Goto(<< >>)

EachUntil ==
  /\ Idiom("Each")
  /\ \/ /\ token \notin Head(todo)[3] \union {"EOF"}
        /\ Goto(<<Call(Head(todo)[2]), PushBack, Head(todo)>>)
     \/ token \in Head(todo)[3] \union {"EOF"} /\ Goto(<< >>)

-----------------------------------------------------------------------------
parse_type_func ==
  /\ At("parse_type_func", "begin")
  /\ Goto(<<Expect("LPAREN"), List("parse_type", "RPAREN"), Expect("RPAREN"),
            IfMatch("COLON", "parse_type"), Make("typespec_func", 2)>>)

parse_type_base ==
  /\ At("parse_type_base", "begin")
  /\ \/ token = "NAME" /\ Keep(<<Make("typespec_name", 1)>>)
     \/ token = "func" /\ Eat(<<Call("parse_type_func")>>)
     \/ token = "LPAREN" /\ Eat(<<Call("parse_type"), Expect("RPAREN")>>)
     \/ token \notin {"NAME", "func", "LPAREN"} /\ Exit

(* the size of an array not closed;                                        *)
parse_type_open ==
  LET loop == <<"parse_type", "loop">>
  IN  \/ At("parse_type", "begin") /\ Goto(<<Call("parse_type_base"), loop>>)
      \/ /\ At("parse_type", "loop")
         /\ \/ /\ token = "LBRACKET"
               /\ Eat(<<Unless("RBRACKET", "parse_expr"), Make("typespec_array", 2), loop>>)
            \/ token = "MUL" /\ Eat(<<Make("typespec_ptr", 1), loop>>)
            \/ token \notin {"LBRACKET", "MUL"} /\ Goto(<< >>)

parse_type ==
  LET loop == <<"parse_type", "loop">>
  IN  \/ At("parse_type", "begin") /\ Goto(<<Call("parse_type_base"), loop>>)
      \/ /\ At("parse_type", "loop")
         /\ \/ /\ token = "LBRACKET"
               /\ Eat(<<Unless("RBRACKET", "parse_expr"), Expect("RBRACKET"),
                        Make("typespec_array", 2), loop>>)
            \/ token = "MUL" /\ Eat(<<Make("typespec_ptr", 1), loop>>)
            \/ token \notin {"LBRACKET", "MUL"} /\ Goto(<< >>)

(* The type is on vals. *)
parse_expr_compound ==
  /\ At("parse_expr_compound", "begin")
  /\ Goto(<<Expect("LBRACE"), List("parse_expr", "RBRACE"), Expect("RBRACE"),
            Make("expr_compound", 2)>>)

parse_expr_operand ==
  \/ /\ At("parse_expr_operand", "begin")
     /\ \/ token = "INT" /\ Keep(<<Make("expr_int", 1)>>)
        \/ token = "FLOAT" /\ Keep(<<Make("expr_float", 1)>>)
        \/ token = "STR" /\ Keep(<<Make("expr_str", 1)>>)
        \/ token = "NAME" /\ Keep(<<<<"parse_expr_operand", "name">>>>)
        \/ token = "sizeof" /\ Eat(<<Expect("LPAREN"), <<"parse_expr_operand", "sizeof">>>>)
        \/ token = "LBRACE" /\ Goto(<<Push(Null), Call("parse_expr_compound")>>)
        \/ token = "LPAREN" /\ Eat(<<<<"parse_expr_operand", "paren">>>>)
        \/ /\ token \notin {"INT", "FLOAT", "STR", "NAME", "sizeof", "LBRACE", "LPAREN"}
           /\ Exit
  \/ /\ At("parse_expr_operand", "name")
     /\ \/ /\ token = "LBRACE"
           /\ Goto(<<Make("typespec_name", 1), Call("parse_expr_compound")>>)
        \/ token # "LBRACE" /\ Goto(<<Make("expr_name", 1)>>)
  \/ /\ At("parse_expr_operand", "sizeof")
     /\ \/ /\ token = "COLON"
           /\ Eat(<<Call("parse_type"), Expect("RPAREN"), Make("expr_sizeof_type", 1)>>)
        \/ /\ token # "COLON"
           /\ Goto(<<Call("parse_expr"), Expect("RPAREN"), Make("expr_sizeof_expr", 1)>>)
  \/ /\ At("parse_expr_operand", "paren")
     /\ \/ /\ token = "COLON"
           /\ Eat(<<Call("parse_type"), Expect("RPAREN"), Call("parse_expr_compound")>>)
        \/ token # "COLON" /\ Goto(<<Call("parse_expr"), Expect("RPAREN")>>)

(* what follows a dot taken without a look;                                *)
parse_expr_base_unchecked ==
  LET loop == <<"parse_expr_base", "loop">>
  IN  \/ At("parse_expr_base", "begin") /\ Goto(<<Call("parse_expr_operand"), loop>>)
      \/ /\ At("parse_expr_base", "loop")
         /\ \/ /\ token = "LPAREN"
               /\ Eat(<<List("parse_expr", "RPAREN"), Expect("RPAREN"), Make("expr_call", 2), loop>>)
            \/ /\ token = "LBRACKET"
               /\ Eat(<<Call("parse_expr"), Expect("RBRACKET"), Make("expr_index", 2), loop>>)
            \/ token = "DOT" /\ Eat(<<<<"parse_expr_base", "field">>, Make("expr_field", 2), loop>>)
            \/ token \notin {"LPAREN", "LBRACKET", "DOT"} /\ Goto(<< >>)
      \/ At("parse_expr_base", "field") /\ Keep(<< >>)

parse_expr_base ==
  LET loop == <<"parse_expr_base", "loop">>
  IN  \/ At("parse_expr_base", "begin") /\ Goto(<<Call("parse_expr_operand"), loop>>)
      \/ /\ At("parse_expr_base", "loop")
         /\ \/ /\ token = "LPAREN"
               /\ Eat(<<List("parse_expr", "RPAREN"), Expect("RPAREN"), Make("expr_call", 2), loop>>)
            \/ /\ token = "LBRACKET"
               /\ Eat(<<Call("parse_expr"), Expect("RBRACKET"), Make("expr_index", 2), loop>>)
            \/ token = "DOT" /\ Eat(<<Call("parse_name"), Make("expr_field", 2), loop>>)
            \/ token \notin {"LPAREN", "LBRACKET", "DOT"} /\ Goto(<< >>)

parse_expr_unary ==
  /\ At("parse_expr_unary", "begin")
  /\ \/ token \in UnaryOps /\ Keep(<<Call("parse_expr_unary"), Make("expr_unary", 2)>>)
     \/ token \notin UnaryOps /\ Goto(<<Call("parse_expr_base")>>)

(* f parses operands with sub and joins them by ops, to the left. *)
LeftAssociative(f, sub, ops) ==
  \/ At(f, "begin") /\ Goto(<<Call(sub), <<f, "loop">>>>)
  \/ /\ At(f, "loop")
     /\ \/ token \in ops /\ Keep(<<Call(sub), Make("expr_binary", 3), <<f, "loop">>>>)
        \/ token \notin ops /\ Goto(<< >>)

(* a range of operators one too wide;                                      *)
parse_expr_mul_wide ==
  LeftAssociative("parse_expr_mul", "parse_expr_unary", MulOps \union {"ADD"})

parse_expr_mul == LeftAssociative("parse_expr_mul", "parse_expr_unary", MulOps)
parse_expr_add == LeftAssociative("parse_expr_add", "parse_expr_mul", AddOps)
parse_expr_cmp == LeftAssociative("parse_expr_cmp", "parse_expr_add", CmpOps)
parse_expr_and == LeftAssociative("parse_expr_and", "parse_expr_cmp", {"AND_AND"})
parse_expr_or  == LeftAssociative("parse_expr_or", "parse_expr_and", {"OR_OR"})

parse_expr_ternary ==
  \/ /\ At("parse_expr_ternary", "begin")
     /\ Goto(<<Call("parse_expr_or"), <<"parse_expr_ternary", "question">>>>)
  \/ /\ At("parse_expr_ternary", "question")
     /\ \/ /\ token = "QUESTION"
           /\ Eat(<<Call("parse_expr_ternary"), Expect("COLON"), Call("parse_expr_ternary"),
                    Make("expr_ternary", 3)>>)
        \/ token # "QUESTION" /\ Goto(<< >>)

parse_expr == At("parse_expr", "begin") /\ Goto(<<Call("parse_expr_ternary")>>)

parse_paren_expr ==
  /\ At("parse_paren_expr", "begin")
  /\ Goto(<<Expect("LPAREN"), Call("parse_expr"), Expect("RPAREN")>>)

parse_name ==
  /\ At("parse_name", "begin")
  /\ \/ token = "NAME" /\ Keep(<< >>)
     \/ token # "NAME" /\ Exit

-----------------------------------------------------------------------------
(* an item without its value;                                              *)
parse_decl_enum_item_bare ==
  /\ At("parse_decl_enum_item", "begin")
  /\ Goto(<<Call("parse_name"), IfMatch("ASSIGN", "parse_expr"), Make("EnumItem", 1)>>)

parse_decl_enum_item ==
  /\ At("parse_decl_enum_item", "begin")
  /\ Goto(<<Call("parse_name"), IfMatch("ASSIGN", "parse_expr"), Make("EnumItem", 2)>>)

parse_decl_enum ==
  /\ At("parse_decl_enum", "begin")
  /\ Goto(<<Call("parse_name"), Expect("LBRACE"), List("parse_decl_enum_item", "RBRACE"),
            Expect("RBRACE"), Make("decl_enum", 2)>>)

parse_decl_aggregate_item ==
  /\ At("parse_decl_aggregate_item", "begin")
  /\ Goto(<<Push(Empty), Call("parse_name"), More("parse_name"), Expect("COLON"),
            Call("parse_type"), Expect("SEMICOLON"), Dup(1), Make("AggregateItem", 2)>>)

(* The kind is struct or union. *)
parse_decl_aggregate ==
  \E kind \in {"struct", "union"} :
    /\ At("parse_decl_aggregate", kind)
    /\ Goto(<<Call("parse_name"), Expect("LBRACE"), Push(Empty),
              Each("parse_decl_aggregate_item", {"RBRACE"}), Expect("RBRACE"), Make(kind, 2)>>)

parse_decl_var ==
  \/ /\ At("parse_decl_var", "begin")
     /\ Goto(<<Call("parse_name"), <<"parse_decl_var", "name">>>>)
  \/ /\ At("parse_decl_var", "name")
     /\ \/ token = "ASSIGN" /\ Eat(<<Push(Null), Call("parse_expr"), Make("decl_var", 3)>>)
        \/ /\ token = "COLON"
           /\ Eat(<<Call("parse_type"), IfMatch("ASSIGN", "parse_expr"), Make("decl_var", 3)>>)
        \/ token \notin {"ASSIGN", "COLON"} /\ Exit

parse_decl_const ==
  /\ At("parse_decl_const", "begin")
  /\ Goto(<<Call("parse_name"), Expect("ASSIGN"), Call("parse_expr"), Make("decl_const", 2)>>)

parse_decl_typedef ==
  /\ At("parse_decl_typedef", "begin")
  /\ Goto(<<Call("parse_name"), Expect("ASSIGN"), Call("parse_type"), Make("decl_typedef", 2)>>)

(* if and else if; the vector on vals is elseifs, and no else block is the *)
(* empty block.                                                            *)
parse_stmt_if ==
  \/ /\ At("parse_stmt_if", "begin")
     /\ Goto(<<Call("parse_paren_expr"), Call("parse_stmt_block"), Push(Empty),
               <<"parse_stmt_if", "loop">>>>)
  \/ /\ At("parse_stmt_if", "loop")
     /\ \/ token = "else" /\ Eat(<<<<"parse_stmt_if", "else">>>>)
        \/ token # "else" /\ Goto(<<Push(EmptyBlock), Make("stmt_if", 4)>>)
  \/ /\ At("parse_stmt_if", "else")
     /\ \/ /\ token = "if"
           /\ Eat(<<Call("parse_paren_expr"), Call("parse_stmt_block"), Make("ElseIf", 2),
                    PushBack, <<"parse_stmt_if", "loop">>>>)
        \/ token # "if" /\ Goto(<<Call("parse_stmt_block"), Make("stmt_if", 4)>>)

parse_stmt_while ==
  /\ At("parse_stmt_while", "begin")
  /\ Goto(<<Call("parse_paren_expr"), Call("parse_stmt_block"), Make("stmt_while", 2)>>)

parse_stmt_do_while ==
  \/ /\ At("parse_stmt_do_while", "begin")
     /\ Goto(<<Call("parse_stmt_block"), <<"parse_stmt_do_while", "while">>>>)
  \/ /\ At("parse_stmt_do_while", "while")
     /\ \/ /\ token = "while"
           /\ Eat(<<Call("parse_paren_expr"), Make("stmt_do_while", 2), Expect("SEMICOLON")>>)
        \/ token # "while" /\ Exit

(* What := assigns to must be a name; the node gets that name. *)
parse_simple_stmt ==
  \/ /\ At("parse_simple_stmt", "begin")
     /\ Goto(<<Call("parse_expr"), <<"parse_simple_stmt", "expr">>>>)
  \/ /\ At("parse_simple_stmt", "expr")
     /\ \/ /\ token = "COLON_ASSIGN" /\ top[1] = "expr_name"
           /\ todo' = <<Call("parse_expr"), Make("stmt_init", 2)>> \o Tail(todo)
           /\ next_token
           /\ vals' = [vals EXCEPT ![Len(vals)] = top[2]]
           /\ UNCHANGED <<errors, status>>
        \/ token = "COLON_ASSIGN" /\ top[1] # "expr_name" /\ Eat(<<fatal>>)
        \/ token \in AssignOps /\ Keep(<<Call("parse_expr"), Make("stmt_assign", 3)>>)
        \/ token \in {"INC", "DEC"} /\ Keep(<<Push(Null), Make("stmt_assign", 3)>>)
        \/ /\ token \notin {"COLON_ASSIGN", "INC", "DEC"} \union AssignOps
           /\ Goto(<<Make("stmt_expr", 1)>>)
  \/ At("fatal", "begin") /\ Exit

(* The clause after the second semicolon is left out only if a third       *)
(* semicolon follows, which expect_token(RPAREN) refuses.                  *)
parse_stmt_for ==
  \/ /\ At("parse_stmt_for", "begin")
     /\ Goto(<<Expect("LPAREN"), Unless("SEMICOLON", "parse_simple_stmt"), Expect("SEMICOLON"),
               Unless("SEMICOLON", "parse_expr"), Expect("SEMICOLON"),
               Unless("SEMICOLON", "parse_simple_stmt"), <<"parse_stmt_for", "next">>,
               Expect("RPAREN"), Call("parse_stmt_block"), Make("stmt_for", 4)>>)
  \/ /\ At("parse_stmt_for", "next")
     /\ errors' = errors \union (IF top[1] = "stmt_init" THEN {"init in next"} ELSE {})
     /\ todo' = Tail(todo)
     /\ UNCHANGED <<alphabet, input, vals, status>>

(* the default label not taken;                                            *)
parse_stmt_switch_case_stuck ==
  \/ /\ At("parse_stmt_switch_case", "begin")
     /\ Goto(<<Push(<<"false">>), Push(Empty), <<"parse_stmt_switch_case", "labels">>>>)
  \/ /\ At("parse_stmt_switch_case", "labels")
     /\ \/ token = "case" /\ Eat(<<Call("parse_expr"), PushBack, Head(todo)>>)
        \/ /\ token = "default"
           /\ vals' = [vals EXCEPT ![Len(vals) - 1] = <<"true">>]
           /\ errors' = errors \union
                (IF vals[Len(vals) - 1] = <<"true">> THEN {"duplicate default"} ELSE {})
           /\ UNCHANGED <<alphabet, input, todo, status>>
        \/ /\ token \notin {"case", "default"}
           /\ Goto(<<Expect("COLON"), Push(Empty), Each("parse_stmt", {"RBRACE", "case", "default"}),
                     Dup(0), Dup(1), Make("SwitchCase", 3)>>)

(* On vals are is_default and, above it, exprs. *)
parse_stmt_switch_case ==
  \/ /\ At("parse_stmt_switch_case", "begin")
     /\ Goto(<<Push(<<"false">>), Push(Empty), <<"parse_stmt_switch_case", "labels">>>>)
  \/ /\ At("parse_stmt_switch_case", "labels")
     /\ \/ token = "case" /\ Eat(<<Call("parse_expr"), PushBack, Head(todo)>>)
        \/ /\ token = "default"
           /\ todo' = todo
           /\ next_token
           /\ vals' = [vals EXCEPT ![Len(vals) - 1] = <<"true">>]
           /\ errors' = errors \union
                (IF vals[Len(vals) - 1] = <<"true">> THEN {"duplicate default"} ELSE {})
           /\ UNCHANGED status
        \/ /\ token \notin {"case", "default"}
           /\ Goto(<<Expect("COLON"), Push(Empty), Each("parse_stmt", {"RBRACE", "case", "default"}),
                     Dup(0), Dup(1), Make("SwitchCase", 3)>>)

parse_stmt_switch ==
  /\ At("parse_stmt_switch", "begin")
  /\ Goto(<<Call("parse_paren_expr"), Expect("LBRACE"), Push(Empty),
            Each("parse_stmt_switch_case", {"RBRACE"}), Expect("RBRACE"), Make("stmt_switch", 2)>>)

StmtKeywords == {"if", "while", "do", "for", "switch", "break", "continue", "return"}

parse_stmt ==
  /\ At("parse_stmt", "begin")
  /\ \/ token = "if" /\ Eat(<<Call("parse_stmt_if")>>)
     \/ token = "while" /\ Eat(<<Call("parse_stmt_while")>>)
     \/ token = "do" /\ Eat(<<Call("parse_stmt_do_while")>>)
     \/ token = "for" /\ Eat(<<Call("parse_stmt_for")>>)
     \/ token = "switch" /\ Eat(<<Call("parse_stmt_switch")>>)
     \/ token = "LBRACE" /\ Goto(<<Call("parse_stmt_block"), Make("stmt_block", 1)>>)
     \/ token = "break" /\ Eat(<<Expect("SEMICOLON"), Make("stmt_break", 0)>>)
     \/ token = "continue" /\ Eat(<<Expect("SEMICOLON"), Make("stmt_continue", 0)>>)
     \/ /\ token = "return"
        /\ Eat(<<Unless("SEMICOLON", "parse_expr"), Expect("SEMICOLON"), Make("stmt_return", 1)>>)
     \/ token \in DeclKeywords /\ Goto(<<Call("parse_decl_opt"), Make("stmt_decl", 1)>>)
     \/ /\ token \notin {"LBRACE"} \union StmtKeywords \union DeclKeywords
        /\ Goto(<<Call("parse_simple_stmt"), Expect("SEMICOLON")>>)

(* the statements left in the vector.                                      *)
parse_stmt_block_vector ==
  /\ At("parse_stmt_block", "begin")
  /\ Goto(<<Expect("LBRACE"), Push(Empty), Each("parse_stmt", {"RBRACE"}), Expect("RBRACE")>>)

parse_stmt_block ==
  /\ At("parse_stmt_block", "begin")
  /\ Goto(<<Expect("LBRACE"), Push(Empty), Each("parse_stmt", {"RBRACE"}), Expect("RBRACE"), Dup(0)>>)

parse_decl_func_param ==
  /\ At("parse_decl_func_param", "begin")
  /\ Goto(<<Call("parse_name"), Expect("COLON"), Call("parse_type"), Make("FuncParam", 2)>>)

parse_decl_func ==
  /\ At("parse_decl_func", "begin")
  /\ Goto(<<Call("parse_name"), Expect("LPAREN"), List("parse_decl_func_param", "RPAREN"),
            Expect("RPAREN"), IfMatch("COLON", "parse_type"), Call("parse_stmt_block"),
            Make("decl_func", 4)>>)

(* Called where it does not return null: see parse_stmt and parse_decl. *)
parse_decl_opt ==
  /\ At("parse_decl_opt", "begin")
  /\ \/ token = "enum" /\ Eat(<<Call("parse_decl_enum")>>)
     \/ token \in {"struct", "union"} /\ Eat(<<<<"parse_decl_aggregate", token>>>>)
     \/ token = "var" /\ Eat(<<Call("parse_decl_var")>>)
     \/ token = "const" /\ Eat(<<Call("parse_decl_const")>>)
     \/ token = "typedef" /\ Eat(<<Call("parse_decl_typedef")>>)
     \/ token = "func" /\ Eat(<<Call("parse_decl_func")>>)

parse_decl ==
  /\ At("parse_decl", "begin")
  /\ \/ token \in DeclKeywords /\ Goto(<<Call("parse_decl_opt")>>)
     \/ token \notin DeclKeywords /\ Exit

(* parse_decl has returned; whatever follows the declaration is not read. *)
Done ==
  /\ status = "run" /\ todo = << >>
  /\ status' = "done"
  /\ UNCHANGED <<alphabet, input, todo, vals, errors>>

-----------------------------------------------------------------------------
ParseNext ==
  \/ expect_token \/ MakeNode \/ ast_dup \/ Locals \/ Optional \/ CommaList \/ EachUntil
  \/ parse_type_func \/ parse_type_base \/ parse_type
  \/ parse_expr_compound \/ parse_expr_operand \/ parse_expr_base \/ parse_expr_unary
  \/ parse_expr_mul \/ parse_expr_add \/ parse_expr_cmp \/ parse_expr_and \/ parse_expr_or
  \/ parse_expr_ternary \/ parse_expr \/ parse_paren_expr \/ parse_name
  \/ parse_decl_enum_item \/ parse_decl_enum \/ parse_decl_aggregate_item
  \/ parse_decl_aggregate \/ parse_decl_var \/ parse_decl_const \/ parse_decl_typedef
  \/ parse_stmt_if \/ parse_stmt_while \/ parse_stmt_do_while \/ parse_simple_stmt
  \/ parse_stmt_for \/ parse_stmt_switch_case \/ parse_stmt_switch \/ parse_stmt
  \/ parse_stmt_block \/ parse_decl_func_param \/ parse_decl_func \/ parse_decl_opt
  \/ parse_decl \/ Done

ParseSpec == ParseInit /\ [][ParseNext]_parseVars /\ WF_parseVars(ParseNext)

-----------------------------------------------------------------------------
(* The text is one within the bounds, and when parse_decl returns one      *)
(* value is left of all that the calls computed: its declaration.          *)
ParseTypeOK ==
  /\ alphabet \in Alphabets
  /\ Len(input) \in 1 .. alphabet.maxTokens + 1
  /\ \A k \in DOMAIN input : input[k] \in NextTokens(k - 1)
  /\ errors \subseteq {"init in next", "duplicate default"}
  /\ status \in {"run", "done", "exit"}
  /\ status = "done" => Len(vals) = 1

(* A walk over values: a visit takes the last of those that are left and   *)
(* leaves its parts.  seen are the tokens met, in the order of the values; *)
(* vectors is how many of the values were vectors.                         *)
Visit(w) ==
  LET n    == Len(w.left)
      v    == w.left[n]
      rest == SubSeq(w.left, 1, n - 1)
  IN  IF n = 0 THEN w
      ELSE IF v[1] = "tok"
      THEN [left |-> rest, seen |-> <<v[2]>> \o w.seen, vectors |-> w.vectors]
      ELSE [left |-> rest \o Tail(v), seen |-> w.seen,
            vectors |-> IF v[1] = "list" THEN w.vectors + 1 ELSE w.vectors]

(* The walk over all values.  A tree has at most four nodes for each token *)
(* of its text.                                                            *)
MaxNodes == 4 * (Len(input) - 1)

walk[n \in 0 .. MaxNodes] ==
  IF n = 0 THEN [left |-> vals, seen |-> << >>, vectors |-> 0] ELSE Visit(walk[n - 1])

walked == walk[MaxNodes]

(* The tokens whose name or value the tree keeps. *)
Carried == {"NAME", "INT", "FLOAT", "STR"}

(* The tree that parse_decl returns has its tokens in the order of the     *)
(* text, each of them once, and every name and value of the text is among  *)
(* them: no list, stack or optional part loses, repeats or swaps any.      *)
LeavesInOrder ==
  status = "done" =>
    /\ walked.left = << >>
    /\ \A i, j \in DOMAIN walked.seen : i < j => walked.seen[i] < walked.seen[j]
    /\ \A k \in 1 .. Len(input) - 1 :
         input[k] \in Carried => \E i \in DOMAIN walked.seen : walked.seen[i] = k

(* A declaration is whole when parse_decl returns: every vector in it was  *)
(* copied into ast_arena, by a constructor or its caller, before the       *)
(* function that the vector was a local of returned.                       *)
TreeOwnsArrays == status = "done" => walked.left = << >> /\ walked.vectors = 0

(* The parser asks for no token after EOF, whatever the text: the scanner  *)
(* would step over the null byte that ends it.                             *)
NeverPastEnd == [][input' # input => token # "EOF"]_parseVars

(* The parser returns or exits on every text: each turn of its loops takes *)
(* a token, and no call of a function leads to another of the same         *)
(* function without one.                                                   *)
Finishes == <>(status # "run")
=============================================================================
