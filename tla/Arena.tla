------------------------------- MODULE Arena -------------------------------
(***************************************************************************)
(* The bump allocator of src/src/MemArena.cpp, which backs both the        *)
(* interned strings (StringTable::arena) and the syntax tree               *)
(* (Global::ast_arena).  An arena takes blocks from malloc, hands out the  *)
(* bytes of its newest block from ptr upwards, and gives every block back  *)
(* at once in free_all.  All arenas share one heap, so that the blocks of  *)
(* one interleave with those of another at addresses malloc chooses.       *)
(*                                                                         *)
(* Addresses and sizes are size_t: arithmetic on them is modulo AddrSpace. *)
(***************************************************************************)
EXTENDS Integers

CONSTANTS
  Arenas,            \* the Arena objects of the process
  AddrSpace,         \* 2^w: how many addresses (and sizes) a size_t can name
  ARENA_BLOCK_SIZE,  \* smallest block that grow asks malloc for
  Sizes              \* the sizes the clients ask alloc for

ARENA_ALIGNMENT == 8

ASSUME ArenaAssumption ==
  /\ AddrSpace \in Nat \ {0} /\ AddrSpace % ARENA_ALIGNMENT = 0
  /\ ARENA_BLOCK_SIZE \in 1 .. AddrSpace - ARENA_ALIGNMENT
  /\ Sizes \subseteq 1 .. AddrSpace - 1

VARIABLES
  ptr, end,  \* Arena::ptr, Arena::end: the free tail of the newest block
  blocks,    \* Arena::blocks, as the set of regions pushed onto it
  heap,      \* the regions malloc has given to the arenas and not got back
  freed,     \* arenas on which free_all has run
  allocs,    \* ghost: the regions alloc has returned and free_all not freed
  status     \* "run", "exit" (xmalloc failed) or "abort" (an assert failed)

arenaVars == <<ptr, end, blocks, heap, freed, allocs, status>>

Addr   == 0 .. AddrSpace - 1
Region == [base: Addr, size: Addr]
Block  == [base: Addr, size: Addr, owner: Arenas]
NULL   == 0

Apart(x, y) == x.base + x.size <= y.base \/ y.base + y.size <= x.base
Within(x, y) == y.base <= x.base /\ x.base + x.size <= y.base + y.size

(* The arithmetic on ptr and end stays in size_t, and what grow gets from  *)
(* malloc and alloc returns are regions of the address space.              *)
ArenaTypeOK ==
  /\ ptr \in [Arenas -> Addr] /\ end \in [Arenas -> Addr]
  /\ blocks \in [Arenas -> SUBSET Block]
  /\ heap \in SUBSET Block
  /\ freed \in SUBSET Arenas
  /\ allocs \in [Arenas -> SUBSET Region]
  /\ status \in {"run", "exit", "abort"}

(* Slips, each in place of one definition: rounding down; *)
align_up_down(num) == num - (num % ARENA_ALIGNMENT)

(* num & (alignment - 1) is num % alignment for the power of two in use;   *)
(* the addition wraps as size_t does.                                      *)
align_up(num) ==
  LET modulo == num % ARENA_ALIGNMENT
  IN  IF modulo = 0 THEN num
      ELSE (num + (ARENA_ALIGNMENT - modulo)) % AddrSpace

max_size(a, b) == IF a > b THEN a ELSE b

(* a block too small for its last region once that is rounded up; *)
GrowSize_unaligned(min_size) == max_size(ARENA_BLOCK_SIZE, min_size)

(* The size of the block that grow(min_size) asks for. *)
GrowSize(min_size) == align_up(max_size(ARENA_BLOCK_SIZE, min_size))

(* malloc(n), when it does not return null: any address aligned for every  *)
(* basic type whose n bytes are in no block still allocated.               *)
MallocResults(n) ==
  { p \in Addr \ {NULL} :
      /\ p % ARENA_ALIGNMENT = 0
      /\ p + n < AddrSpace
      /\ \A r \in heap : Apart([base |-> p, size |-> n], r) }

-----------------------------------------------------------------------------
ArenaInit ==
  /\ ptr = [a \in Arenas |-> NULL] /\ end = [a \in Arenas |-> NULL]
  /\ blocks = [a \in Arenas |-> {}]
  /\ heap = {} /\ freed = {}
  /\ allocs = [a \in Arenas |-> {}]
  /\ status = "run"

(* leaving a gap after each region that the size check knows nothing of;   *)
Bump_gap(a, size, p, e) ==
  LET q == align_up(p + size) + ARENA_ALIGNMENT
  IN  /\ ptr' = [ptr EXCEPT ![a] = q]
      /\ end' = [end EXCEPT ![a] = e]
      /\ allocs' = [allocs EXCEPT ![a] = @ \union {[base |-> p, size |-> size]}]
      /\ status' = IF q <= e THEN status ELSE "abort"

(* leaving ptr where the region ends;                                      *)
Bump_unaligned(a, size, p, e) ==
  /\ ptr' = [ptr EXCEPT ![a] = p + size]
  /\ end' = [end EXCEPT ![a] = e]
  /\ allocs' = [allocs EXCEPT ![a] = @ \union {[base |-> p, size |-> size]}]
  /\ status' = IF p + size <= e THEN status ELSE "abort"

(* rounding ptr down and not up;                                           *)
Bump_down(a, size, p, e) ==
  LET q == align_up_down(p + size)
  IN  /\ ptr' = [ptr EXCEPT ![a] = q]
      /\ end' = [end EXCEPT ![a] = e]
      /\ allocs' = [allocs EXCEPT ![a] = @ \union {[base |-> p, size |-> size]}]
      /\ status' = IF q <= e THEN status ELSE "abort"

(* The last lines of alloc, in a block whose free tail is p .. e - 1. *)
Bump(a, size, p, e) ==
  LET q == align_up(p + size)
  IN  /\ ptr' = [ptr EXCEPT ![a] = q]
      /\ end' = [end EXCEPT ![a] = e]
      /\ allocs' = [allocs EXCEPT ![a] = @ \union {[base |-> p, size |-> size]}]
      /\ status' = IF q <= e THEN status ELSE "abort"

(* alloc(size) of a running process returns p. *)
Alloc(a, size, p) ==
  /\ status = "run" /\ a \notin freed
  /\ \/ /\ size <= end[a] - ptr[a]
        /\ p = ptr[a]
        /\ Bump(a, size, p, end[a])
        /\ UNCHANGED <<blocks, heap>>
     \/ LET n == GrowSize(size)
            block == [base |-> p, size |-> n, owner |-> a]
        IN  /\ size > end[a] - ptr[a]
            /\ size <= n
            /\ p \in MallocResults(n)
            /\ heap' = heap \union {block}
            /\ blocks' = [blocks EXCEPT ![a] = @ \union {block}]
            /\ Bump(a, size, p, p + n)
  /\ UNCHANGED freed

(* alloc(size) does not return: xmalloc got null and exits, or the size    *)
(* grow computed wrapped and the assert after it stops the process.        *)
AllocDies(a, size) ==
  /\ status = "run" /\ a \notin freed
  /\ size > end[a] - ptr[a]
  /\ \/ status' = "exit"
     \/ size > GrowSize(size) /\ status' = "abort"
  /\ UNCHANGED <<ptr, end, blocks, heap, freed, allocs>>

(* freeing the blocks of every arena;                                      *)
FreeAll_everything(a) ==
  /\ status = "run" /\ a \notin freed
  /\ heap' = {}
  /\ freed' = freed \union {a}
  /\ allocs' = [allocs EXCEPT ![a] = {}]
  /\ UNCHANGED <<ptr, end, blocks, status>>

(* freeing the block in use only.                                          *)
FreeAll_newest(a) ==
  /\ status = "run" /\ a \notin freed
  /\ heap' = heap \ {r \in blocks[a] : r.base + r.size = end[a]}
  /\ freed' = freed \union {a}
  /\ allocs' = [allocs EXCEPT ![a] = {}]
  /\ UNCHANGED <<ptr, end, blocks, status>>

(* free_all frees the blocks on the list and nothing else: ptr, end and    *)
(* the list keep their values, so the arena must not be used again.        *)
FreeAll(a) ==
  /\ status = "run" /\ a \notin freed
  /\ heap' = heap \ blocks[a]
  /\ freed' = freed \union {a}
  /\ allocs' = [allocs EXCEPT ![a] = {}]
  /\ UNCHANGED <<ptr, end, blocks, status>>

ArenaNext ==
  \E a \in Arenas :
    \/ \E size \in Sizes, p \in Addr : Alloc(a, size, p)
    \/ \E size \in Sizes : AllocDies(a, size)
    \/ FreeAll(a)

ArenaSpec == ArenaInit /\ [][ArenaNext]_arenaVars

-----------------------------------------------------------------------------
(* No two regions in use share a byte, whether one arena returned both or  *)
(* two arenas whose blocks malloc has interleaved: alloc's bump never      *)
(* reaches back into what it has returned, nor past its block.             *)
AllocsApart ==
  \A a, b \in Arenas : \A x \in allocs[a], y \in allocs[b] :
    (a # b \/ x # y) => Apart(x, y)

Live == Arenas \ freed

(* What an arena hands out next is in no region in use, its own or         *)
(* another's: alloc never returns bytes a second time, not even to two     *)
(* requests of one size that it would answer with the same region.         *)
TailFree ==
  \A a \in Live, b \in Arenas : \A x \in allocs[b] :
    ptr[a] < end[a] => x.base + x.size <= ptr[a] \/ end[a] <= x.base

(* A region in use lies inside one block that the arena's own list names   *)
(* and that malloc has not got back: neither another arena's free_all nor  *)
(* a grow takes the bytes of an interned string or a syntax node away.     *)
AllocsMapped ==
  \A a \in Arenas : \A x \in allocs[a] :
    /\ x.base % ARENA_ALIGNMENT = 0
    /\ \E r \in heap \intersect blocks[a] : Within(x, r)

(* Every block an arena got from malloc is given back by its free_all:     *)
(* grow never forgets a block, even one it abandons with room left.        *)
FreeAllLeaksNothing == \A a \in freed : \A r \in heap : r.owner # a

(* The asserts of alloc stop the process only for a size so large that     *)
(* rounding it up to the alignment wraps; on any other request the bump    *)
(* stays inside the block.                                                 *)
AssertsOnlyOnWrap ==
  [][status' = "abort" =>
       \E a \in Arenas, size \in Sizes :
         AllocDies(a, size) /\ size > AddrSpace - ARENA_ALIGNMENT]_arenaVars

(* The arenas together implement the pool of regions their clients see.    *)
Pool == INSTANCE RegionPool WITH
          Owners <- Arenas, Alignment <- ARENA_ALIGNMENT, held <- allocs

ImplementsPool == Pool!Spec
=============================================================================
