---------------------------- MODULE InternTable ----------------------------
(***************************************************************************)
(* What string interning promises the rest of the front end: a string has  *)
(* one pointer for as long as the process runs and no two strings share    *)
(* one, so that comparing pointers is comparing strings.  StringIntern is  *)
(* shown to implement it.                                                  *)
(***************************************************************************)
CONSTANTS Strings, Pointers

VARIABLE table  \* the set of pairs <<string, pointer>> given out so far

Init == table = {}

(* A string not seen before gets a pointer not given out before.           *)
Intern(s, p) ==
  /\ \A e \in table : e[1] # s /\ e[2] # p
  /\ table' = table \union {<<s, p>>}

Next == \E e \in table' : e[1] \in Strings /\ e[2] \in Pointers /\ Intern(e[1], e[2])

Spec == Init /\ [][Next]_table
=============================================================================
