----------------------------- MODULE RegionPool -----------------------------
(***************************************************************************)
(* What a memory pool promises its clients, with no word of blocks or bump *)
(* pointers: every request is answered with a region of the size asked     *)
(* for, on the alignment promised, that shares no byte with any region     *)
(* still held, by whichever owner; and an owner's regions are given back   *)
(* all at once.  Arena is shown to implement it.                           *)
(***************************************************************************)
EXTENDS Integers

CONSTANTS
  Owners,      \* the clients of the pool
  Alignment,   \* every region starts on a multiple of it
  AddrSpace    \* number of addresses; address 0 is the null pointer

VARIABLE held  \* [Owners -> set of regions handed out and not given back]

Addr == 0 .. AddrSpace - 1

Region == [base: Addr, size: Addr]

(* No byte of x is a byte of y. *)
Apart(x, y) == x.base + x.size <= y.base \/ y.base + y.size <= x.base

Init == held = [o \in Owners |-> {}]

Give(o, x) ==
  /\ x.base # 0
  /\ x.base % Alignment = 0
  /\ x.base + x.size < AddrSpace
  /\ \A b \in Owners : \A y \in held[b] : Apart(x, y)
  /\ held' = [held EXCEPT ![o] = @ \union {x}]

GiveBack(o) == held' = [held EXCEPT ![o] = {}]

(* The region given is looked for among those held afterwards, so that TLC *)
(* need not try every region there is.                                     *)
Next ==
  \/ \E o \in Owners : \E x \in held'[o] : x \in Region /\ Give(o, x)
  \/ \E o \in Owners : GiveBack(o)

Spec == Init /\ [][Next]_held
=============================================================================
