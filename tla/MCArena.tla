------------------------------ MODULE MCArena ------------------------------
(* Two arenas in an address space of 64 bytes, blocks of 12 rounded to 16. *)
EXTENDS Arena

MCSizes == {1, 10, 20, 60}
=============================================================================
