------------------------------- MODULE MCLex -------------------------------
(* All short texts over alphabets in which one part of the scanner has all *)
(* its cases, and a word of four bits in place of u64.                     *)
EXTENDS Lex

(* Numbers: prefixes, digits good and bad in each base, overflow. *)
MCNumbers ==
  SeqOf({"0", "1", "8", "f", "x"}, 4)
    \union {<<"0", "b">> \o s : s \in SeqOf({"0", "1", "2"}, 3)}
    \union {<<"0", "b", "1">> \o s : s \in SeqOf({"0", "1", "2"}, 4)}
    \union {<<"0", "X">> \o s : s \in SeqOf({"0", "1", "E"}, 3)}

(* Literals: quotes of both kinds, escapes good and bad, newlines, and a   *)
(* character written as itself and escaped.                                *)
MCQuoted ==
  SeqOf({"'", "\"", "\\", "n", "0", "\n"}, 5)
    \union {<<"\"">> \o s \o <<"\"">> : s \in SeqOf({"\\", "t", "\t", "b"}, 4)}
    \union {<<"'">> \o s \o <<"'">> : s \in SeqOf({"\\", "t", "\t"}, 2)}

(* Operators of one, two and three characters, with and without a gap. *)
MCOperators ==
  SeqOf({"<", ">", "=", "|", "&", "!", " "}, 4)
    \union SeqOf({"+", "-", "=", ":", "*", "^", ".", "(", ";", "?"}, 3)

(* Tokens of different sorts side by side. *)
MCMixed == SeqOf({"0", "x", "'", "\"", ".", "e", "+", "@"}, 4)

MCAll == MCNumbers \union MCQuoted \union MCOperators \union MCMixed

MCKeywords == {<<"x">>, <<"x", "e">>}
=============================================================================
