---------------------------- MODULE SymbolTable ----------------------------
(***************************************************************************)
(* What the symbols of a program promise its resolver: a name, that is its *)
(* spelling, is declared at most once, every later use of it is answered   *)
(* with that declaration, and only a name declared twice or not at all is  *)
(* refused.  Symbols is shown to implement it.                             *)
(***************************************************************************)
CONSTANTS Names, Decls, None, Refused

VARIABLES
  table,  \* the pairs <<name, declaration>> so far
  answer  \* the last name asked for, and its declaration, None or Refused

Declared(s) == \E e \in table : e[1] = s

Init == table = {} /\ answer.decl = None

Declare(s, d) ==
  /\ ~Declared(s)
  /\ table' = table \union {<<s, d>>}
  /\ answer' = [asked |-> s, decl |-> d]

(* A second declaration of a name. *)
Refuse(s) ==
  /\ Declared(s)
  /\ answer' = [asked |-> s, decl |-> Refused]
  /\ UNCHANGED table

Use(s, d) ==
  /\ <<s, d>> \in table \/ (d = None /\ ~Declared(s))
  /\ answer' = [asked |-> s, decl |-> d]
  /\ UNCHANGED table

Next ==
  \E s \in Names :
    Refuse(s) \/ (\E d \in Decls : Declare(s, d)) \/ \E d \in Decls \union {None} : Use(s, d)

Spec == Init /\ [][Next]_<<table, answer>>
=============================================================================
