---------------------------- MODULE ArenaProofs ----------------------------
(***************************************************************************)
(* Theorems about Arena, for every set of arenas, block size, address      *)
(* space and set of requested sizes.                                       *)
(***************************************************************************)
EXTENDS Arena, TLAPS

(* The arithmetic of align_up. *)
LEMMA SmallModulo ==
  ASSUME NEW x \in Nat, NEW m \in Nat \ {0}, x < m
  PROVE  x % m = x
BY SMT

(* Rounding up below an aligned limit neither wraps nor passes the limit.  *)
LEMMA AlignUpBelow ==
  ASSUME NEW n \in Nat, NEW e \in Addr, e % ARENA_ALIGNMENT = 0, n <= e
  PROVE  /\ align_up(n) \in Addr
         /\ n <= align_up(n) /\ align_up(n) <= e
         /\ align_up(n) % ARENA_ALIGNMENT = 0
<1> DEFINE m == n % 8
           r == n + (8 - m)
<1>1. m \in 0 .. 7 /\ (m # 0 => r <= e /\ r % 8 = 0 /\ r \in Nat)
  BY SMT DEF ARENA_ALIGNMENT, Addr
<1>2. e \in Nat /\ AddrSpace \in Nat \ {0} /\ e < AddrSpace
  BY ArenaAssumption DEF Addr
<1>3. m # 0 => r % AddrSpace = r
  <2> SUFFICES ASSUME m # 0 PROVE r % AddrSpace = r
    OBVIOUS
  <2>1. r \in Nat /\ r < AddrSpace
    BY <1>1, <1>2
  <2> QED BY <2>1, <1>2, SmallModulo
<1> QED BY <1>1, <1>2, <1>3 DEF align_up, ARENA_ALIGNMENT, Addr

(* The block grow asks for holds the request, except when the rounding     *)
(* wraps, which takes a request within one alignment of the address space. *)
LEMMA GrowSizeFits ==
  ASSUME NEW size \in Sizes
  PROVE  /\ GrowSize(size) \in Addr
         /\ GrowSize(size) % ARENA_ALIGNMENT = 0
         /\ size > GrowSize(size) => size > AddrSpace - ARENA_ALIGNMENT
<1> DEFINE num == max_size(ARENA_BLOCK_SIZE, size)
           m == num % 8
           r == num + (8 - m)
<1>1. /\ AddrSpace \in Nat \ {0} /\ AddrSpace % 8 = 0
      /\ ARENA_BLOCK_SIZE \in 1 .. AddrSpace - 8
      /\ size \in 1 .. AddrSpace - 1
  BY ArenaAssumption DEF ARENA_ALIGNMENT
<1>2. /\ num \in 1 .. AddrSpace - 1 /\ size <= num
      /\ num = size \/ num <= AddrSpace - 8
  BY <1>1 DEF max_size
<1> HIDE DEF num
<1>3. m \in 0 .. 7 /\ (m # 0 => r \in num .. AddrSpace /\ r % 8 = 0)
  BY <1>1, <1>2
<1>4. m # 0 /\ r < AddrSpace => r % AddrSpace = r
  <2> SUFFICES ASSUME m # 0, r < AddrSpace PROVE r % AddrSpace = r
    OBVIOUS
  <2>1. r \in Nat
    BY <1>1, <1>2, <1>3
  <2> QED BY <2>1, <1>1, SmallModulo
<1>5. AddrSpace % AddrSpace = 0
  BY <1>1, SMT
<1>6. GrowSize(size) = IF m = 0 THEN num ELSE r % AddrSpace
  BY DEF GrowSize, align_up, num, ARENA_ALIGNMENT
<1>7. CASE m = 0
  BY <1>1, <1>2, <1>6, <1>7 DEF Addr, ARENA_ALIGNMENT
<1>8. CASE m # 0 /\ r < AddrSpace
  BY <1>1, <1>2, <1>3, <1>4, <1>6, <1>8 DEF Addr, ARENA_ALIGNMENT
<1>9. CASE m # 0 /\ r = AddrSpace
  <2>1. GrowSize(size) = 0
    BY <1>5, <1>6, <1>9
  <2>2. num > AddrSpace - 8
    BY <1>1, <1>2, <1>3, <1>9
  <2> QED BY <2>1, <2>2, <1>1, <1>2 DEF Addr, ARENA_ALIGNMENT
<1> QED BY <1>3, <1>1, <1>2, <1>7, <1>8, <1>9

-----------------------------------------------------------------------------
(* The inductive invariant.  AllocsApart alone does not survive a bump: it *)
(* takes that the free tail of an arena's newest block touches no region   *)
(* in use (TailFree), which for a fresh block takes that malloc's blocks   *)
(* are apart and that every region in use lies in one of them.             *)
HeapApart == \A r, s \in heap : r # s => Apart(r, s)

BlockShape ==
  \A r \in heap :
    /\ r.base # NULL /\ r.base % ARENA_ALIGNMENT = 0
    /\ r.size % ARENA_ALIGNMENT = 0
    /\ r.base + r.size < AddrSpace

BlocksInHeap == \A a \in Live : \A r \in Block : r \in blocks[a] <=> r \in heap /\ r.owner = a

TailInBlock ==
  \A a \in Live :
    /\ ptr[a] % ARENA_ALIGNMENT = 0 /\ end[a] % ARENA_ALIGNMENT = 0
    /\ ptr[a] <= end[a]
    /\ ptr[a] < end[a] =>
         \E r \in blocks[a] : r.base <= ptr[a] /\ end[a] = r.base + r.size

AllocsShape ==
  /\ \A a \in freed : allocs[a] = {}
  /\ \A a \in Arenas : \A x \in allocs[a] : x.base # NULL /\ x.size # 0

ArenaIInv ==
  /\ ArenaTypeOK
  /\ HeapApart /\ BlockShape /\ BlocksInHeap /\ FreeAllLeaksNothing
  /\ TailInBlock /\ TailFree
  /\ AllocsShape /\ AllocsApart /\ AllocsMapped

LEMMA ArenaInitIInv == ArenaInit => ArenaIInv
BY ArenaAssumption, SMT
   DEF ArenaInit, ArenaIInv, ArenaTypeOK, Live, HeapApart, BlockShape, BlocksInHeap,
       FreeAllLeaksNothing, TailInBlock, TailFree, AllocsShape, AllocsApart,
       AllocsMapped, Addr, NULL, ARENA_ALIGNMENT

(* What alloc has done once it returns: the region p .. p + size - 1 lies  *)
(* in a block of the arena that ends where the arena's end is now, and the *)
(* whole of the tail from p on was free of regions in use.                 *)
Served(a, size, p, e) ==
  /\ p # NULL /\ p % ARENA_ALIGNMENT = 0
  /\ e \in Addr /\ e % ARENA_ALIGNMENT = 0 /\ p + size <= e
  /\ Bump(a, size, p, e)
  /\ \E r \in heap' \intersect blocks'[a] :
       r.base <= p /\ e = r.base + r.size
  /\ \A b \in Arenas : \A y \in allocs[b] :
       y.base + y.size <= p \/ e <= y.base

(* The heap half of the invariant still holds, and no block has gone.      *)
HeapKept ==
  /\ heap' \in SUBSET Block /\ blocks' \in [Arenas -> SUBSET Block]
  /\ heap \subseteq heap'
  /\ \A b \in Arenas : blocks[b] \subseteq blocks'[b]
  /\ (HeapApart /\ BlockShape /\ BlocksInHeap /\ FreeAllLeaksNothing)'

LEMMA AllocServes ==
  ASSUME ArenaIInv, NEW a \in Arenas, NEW size \in Sizes, NEW p \in Addr, Alloc(a, size, p)
  PROVE  (\E e \in Addr : Served(a, size, p, e)) /\ HeapKept
<1> USE DEF ArenaIInv
<1>0. /\ a \in Live /\ freed' = freed /\ size \in 1 .. AddrSpace - 1
      /\ AddrSpace \in Nat /\ p \in Nat /\ ArenaTypeOK /\ Live' = Live
  BY ArenaAssumption DEF Alloc, Live, Addr
<1>1. CASE size <= end[a] - ptr[a] /\ p = ptr[a] /\ Bump(a, size, p, end[a])
           /\ UNCHANGED <<blocks, heap>>
  <2>1. ptr[a] \in Nat /\ end[a] \in Addr /\ end[a] \in Nat /\ ptr[a] < end[a]
        /\ p + size <= end[a]
    BY <1>0, <1>1 DEF ArenaTypeOK, Addr
  <2>2. PICK r \in blocks[a] : r.base <= p /\ end[a] = r.base + r.size
    BY <1>0, <1>1, <2>1 DEF TailInBlock
  <2>3. r \in heap /\ r \in Block
    BY <1>0, <2>2 DEF BlocksInHeap, ArenaTypeOK
  <2>4. r.base # NULL /\ r.base \in Nat
    BY <2>3 DEF BlockShape, Block, Addr
  <2>5. p # NULL /\ p % ARENA_ALIGNMENT = 0 /\ end[a] % ARENA_ALIGNMENT = 0
    BY <1>0, <1>1, <2>2, <2>4 DEF TailInBlock, NULL
  <2>6. \A b \in Arenas : \A y \in allocs[b] :
          y.base + y.size <= p \/ end[a] <= y.base
    BY <1>0, <1>1, <2>1 DEF TailFree
  <2>7. Served(a, size, p, end[a])
    BY <1>1, <2>1, <2>2, <2>3, <2>5, <2>6 DEF Served
  <2> QED
    BY <1>0, <1>1, <2>1, <2>7
       DEF ArenaTypeOK, HeapApart, BlockShape, BlocksInHeap, FreeAllLeaksNothing, HeapKept
<1>2. ASSUME NEW n \in Addr, n = GrowSize(size), size > end[a] - ptr[a], size <= n,
             p \in MallocResults(n),
             heap' = heap \union {[base |-> p, size |-> n, owner |-> a]},
             blocks' = [blocks EXCEPT ![a] = @ \union {[base |-> p, size |-> n, owner |-> a]}],
             Bump(a, size, p, p + n)
      PROVE  (\E e \in Addr : Served(a, size, p, e)) /\ HeapKept
  <2> DEFINE block == [base |-> p, size |-> n, owner |-> a]
  <2>1. n \in Nat /\ n % ARENA_ALIGNMENT = 0 /\ p % ARENA_ALIGNMENT = 0 /\ p # NULL
        /\ p + n < AddrSpace
    BY <1>2, GrowSizeFits DEF MallocResults, Addr
  <2>2. p + n \in Addr /\ (p + n) % ARENA_ALIGNMENT = 0 /\ p + size <= p + n
    BY <1>0, <1>2, <2>1 DEF Addr, ARENA_ALIGNMENT
  <2>3. block \in Block /\ block \in heap' /\ block \in blocks'[a]
    BY <1>0, <1>2 DEF Block, ArenaTypeOK
  <2>4. \A r \in heap : Apart(block, r)
    BY <1>2 DEF MallocResults, Apart
  <2>5. \A b \in Arenas : \A y \in allocs[b] :
          y.base + y.size <= p \/ p + n <= y.base
    <3> SUFFICES ASSUME NEW b \in Arenas, NEW y \in allocs[b]
                 PROVE  y.base + y.size <= p \/ p + n <= y.base
      OBVIOUS
    <3>1. PICK r \in heap : Within(y, r)
      BY DEF AllocsMapped
    <3>2. y.base \in Nat /\ y.size \in Nat /\ r.base \in Nat /\ r.size \in Nat
      BY <3>1 DEF ArenaTypeOK, Region, Block, Addr
    <3> QED BY <1>0, <2>1, <2>4, <3>1, <3>2 DEF Within, Apart
  <2>6. Served(a, size, p, p + n)
    <3>1. block.base <= p /\ p + n = block.base + block.size
      BY <1>0
    <3> QED BY <1>2, <2>1, <2>2, <2>3, <2>5, <3>1 DEF Served
  <2>7. heap' \in SUBSET Block /\ blocks' \in [Arenas -> SUBSET Block]
    BY <1>2, <2>3 DEF ArenaTypeOK
  <2>8. HeapApart'
    <3>1. \A r \in heap : Apart(r, block)
      BY <2>4 DEF Apart
    <3> QED BY <1>2, <2>4, <3>1 DEF HeapApart
  <2>9. BlockShape'
    BY <1>2, <2>1 DEF BlockShape
  <2>10. BlocksInHeap'
    <3> SUFFICES ASSUME NEW c \in Live, NEW r \in Block
                 PROVE  r \in blocks'[c] <=> r \in heap' /\ r.owner = c
      BY <1>0 DEF BlocksInHeap
    <3>1. CASE r = block
      BY <1>2, <2>3, <3>1 DEF ArenaTypeOK, BlocksInHeap, Live
    <3>2. CASE r # block
      BY <1>2, <3>2 DEF ArenaTypeOK, BlocksInHeap, Live
    <3> QED BY <3>1, <3>2
  <2>11. FreeAllLeaksNothing'
    BY <1>0, <1>2 DEF FreeAllLeaksNothing, Live
  <2>12. heap \subseteq heap' /\ \A b \in Arenas : blocks[b] \subseteq blocks'[b]
    BY <1>2 DEF ArenaTypeOK
  <2> QED BY <2>2, <2>6, <2>7, <2>8, <2>9, <2>10, <2>11, <2>12 DEF HeapKept
<1> QED BY <1>1, <1>2, GrowSizeFits DEF Alloc

LEMMA AllocKeepsIInv ==
  ASSUME ArenaIInv, NEW a \in Arenas, NEW size \in Sizes, NEW p \in Addr, Alloc(a, size, p)
  PROVE  /\ ArenaIInv' /\ status' = "run"
         /\ Pool!Give(a, [base |-> p, size |-> size])
<1> DEFINE x == [base |-> p, size |-> size]
           q == align_up(p + size)
<1>1. HeapKept
  BY AllocServes
<1>2. PICK e \in Addr : Served(a, size, p, e)
  BY AllocServes
<1>3. /\ ArenaTypeOK /\ AddrSpace \in Nat /\ p \in Nat /\ e \in Nat /\ size \in Nat \ {0}
      /\ status = "run" /\ a \in Live /\ freed' = freed /\ Live' = Live
  BY ArenaAssumption DEF ArenaIInv, Alloc, Live, Addr
<1>4. q \in Addr /\ p + size <= q /\ q <= e /\ q % ARENA_ALIGNMENT = 0
  BY <1>2, <1>3, AlignUpBelow DEF Served
<1>5. /\ ptr' = [ptr EXCEPT ![a] = q] /\ end' = [end EXCEPT ![a] = e]
      /\ allocs' = [allocs EXCEPT ![a] = @ \union {x}]
      /\ status' = "run" /\ q \in Nat /\ p + size < AddrSpace
  BY <1>2, <1>3, <1>4 DEF Served, Bump, Addr
<1>6. PICK r \in heap' \intersect blocks'[a] : r.base <= p /\ e = r.base + r.size
  BY <1>2 DEF Served
<1>7. r \in Block /\ r.base \in Nat /\ r.size \in Nat /\ r.owner = a
  BY <1>1, <1>3, <1>6 DEF HeapKept, Block, Addr, BlocksInHeap
<1>8. /\ x \in Region /\ x.base = p /\ x.size = size
      /\ \A b \in Arenas : \A y \in allocs[b] :
           y \in Region /\ y.base \in Nat /\ y.size \in Nat
  BY <1>3, ArenaAssumption DEF ArenaTypeOK, Region, Addr
<1>9. \A b \in Arenas : \A y \in allocs[b] : y.base + y.size <= p \/ e <= y.base
  BY <1>2 DEF Served
<1> HIDE DEF x, q
<1>10. ArenaTypeOK'
  BY <1>1, <1>3, <1>4, <1>5, <1>8 DEF ArenaTypeOK, HeapKept
<1>11. TailInBlock'
  <2> SUFFICES ASSUME NEW c \in Live
               PROVE  /\ ptr'[c] % ARENA_ALIGNMENT = 0 /\ end'[c] % ARENA_ALIGNMENT = 0
                      /\ ptr'[c] <= end'[c]
                      /\ ptr'[c] < end'[c] =>
                           \E s \in blocks'[c] : s.base <= ptr'[c] /\ end'[c] = s.base + s.size
    BY <1>3 DEF TailInBlock
  <2>1. CASE c = a
    <3>1. ptr'[c] = q /\ end'[c] = e
      BY <1>5, <1>3, <2>1 DEF ArenaTypeOK
    <3>2. e % ARENA_ALIGNMENT = 0
      BY <1>2 DEF Served
    <3>3. r.base <= q
      BY <1>3, <1>4, <1>5, <1>6, <1>7
    <3> QED BY <1>4, <1>6, <2>1, <3>1, <3>2, <3>3
  <2>2. CASE c # a
    <3>1. ptr'[c] = ptr[c] /\ end'[c] = end[c] /\ blocks[c] \subseteq blocks'[c]
      BY <1>1, <1>3, <1>5, <2>2 DEF ArenaTypeOK, HeapKept, Live
    <3> QED BY <3>1 DEF ArenaIInv, TailInBlock
  <2> QED BY <2>1, <2>2
<1>12. TailFree'
  <2> SUFFICES ASSUME NEW c \in Live, NEW b \in Arenas, NEW y \in allocs'[b], ptr'[c] < end'[c]
               PROVE  y.base + y.size <= ptr'[c] \/ end'[c] <= y.base
    BY <1>3 DEF TailFree
  <2>1. (y = x /\ b = a) \/ y \in allocs[b]
    BY <1>5, <1>3 DEF ArenaTypeOK
  <2>2. CASE c = a
    <3>1. ptr'[c] = q /\ end'[c] = e
      BY <1>5, <1>3, <2>2 DEF ArenaTypeOK
    <3> QED BY <1>3, <1>4, <1>5, <1>8, <1>9, <2>1, <3>1
  <2>3. CASE c # a
    <3>1. ptr'[c] = ptr[c] /\ end'[c] = end[c] /\ ptr[c] \in Nat /\ end[c] \in Nat
      BY <1>3, <1>5, <2>3 DEF ArenaTypeOK, Live, Addr
    <3>2. CASE y \in allocs[b]
      BY <3>1, <3>2 DEF ArenaIInv, TailFree
    <3>3. CASE y = x
      <4>1. PICK s \in blocks[c] : s.base <= ptr[c] /\ end[c] = s.base + s.size
        BY <3>1 DEF ArenaIInv, TailInBlock
      <4>2. s \in heap /\ s \in Block /\ s.owner = c
        BY <1>3, <4>1 DEF ArenaIInv, BlocksInHeap, ArenaTypeOK, Live
      <4>3. s \in heap' /\ s # r /\ s.base \in Nat /\ s.size \in Nat
        BY <1>1, <1>7, <2>3, <4>2 DEF HeapKept, Block, Addr
      <4>4. Apart(s, r)
        BY <1>1, <1>6, <4>3 DEF HeapKept, HeapApart
      <4>5. end[c] <= r.base \/ e <= ptr[c]
        BY <1>6, <1>7, <3>1, <4>1, <4>3, <4>4 DEF Apart
      <4> QED BY <1>3, <1>4, <1>5, <1>6, <1>7, <1>8, <3>1, <3>3, <4>5
    <3> QED BY <2>1, <3>2, <3>3
  <2> QED BY <2>2, <2>3
<1>13. \A b \in Arenas : \A y \in allocs[b] : Apart(x, y) /\ Apart(y, x)
  BY <1>2, <1>3, <1>8, <1>9 DEF Served, Apart
<1>14. AllocsApart'
  <2> SUFFICES ASSUME NEW b \in Arenas, NEW c \in Arenas,
                      NEW y \in allocs'[b], NEW z \in allocs'[c], b # c \/ y # z
               PROVE  Apart(y, z)
    BY DEF AllocsApart
  <2>1. ((y = x /\ b = a) \/ y \in allocs[b]) /\ ((z = x /\ c = a) \/ z \in allocs[c])
    BY <1>5, <1>3 DEF ArenaTypeOK
  <2> QED BY <1>13, <2>1 DEF ArenaIInv, AllocsApart
<1>15. AllocsMapped'
  <2> SUFFICES ASSUME NEW b \in Arenas, NEW y \in allocs'[b]
               PROVE  /\ y.base % ARENA_ALIGNMENT = 0
                      /\ \E s \in heap' \intersect blocks'[b] : Within(y, s)
    BY DEF AllocsMapped
  <2>1. CASE y \in allocs[b]
    BY <1>1, <2>1 DEF ArenaIInv, AllocsMapped, HeapKept
  <2>2. CASE y = x /\ b = a
    <3>1. Within(y, r)
      BY <1>2, <1>3, <1>6, <1>7, <1>8, <2>2 DEF Within, Served
    <3> QED BY <1>2, <1>6, <1>8, <2>2, <3>1 DEF Served
  <2> QED BY <1>5, <1>3, <2>1, <2>2 DEF ArenaTypeOK
<1>16. AllocsShape'
  BY <1>2, <1>3, <1>5, <1>8 DEF ArenaIInv, AllocsShape, ArenaTypeOK, Served, Live, NULL
<1>17. Pool!Give(a, x)
  <2>1. x.base # 0 /\ x.base % ARENA_ALIGNMENT = 0
    BY <1>2, <1>8 DEF Served, NULL
  <2>2. \A b \in Arenas : \A y \in allocs[b] : Pool!Apart(x, y)
    BY <1>13 DEF Apart, Pool!Apart
  <2> QED BY <1>5, <1>8, <2>1, <2>2 DEF Pool!Give
<1> QED
  BY <1>1, <1>5, <1>10, <1>11, <1>12, <1>14, <1>15, <1>16, <1>17 DEF ArenaIInv, HeapKept, x

(* A request that ends the process leaves the memory as it is, and ends it *)
(* by an assert only when the size wrapped.                                *)
LEMMA AllocDiesKeepsIInv ==
  ASSUME ArenaIInv, NEW a \in Arenas, NEW size \in Sizes, AllocDies(a, size)
  PROVE  /\ ArenaIInv' /\ UNCHANGED allocs
         /\ status' = "abort" => size > AddrSpace - ARENA_ALIGNMENT
<1>1. /\ UNCHANGED <<ptr, end, blocks, heap, freed, allocs>>
      /\ status' \in {"exit", "abort"}
      /\ status' = "abort" => size > GrowSize(size)
  BY DEF AllocDies
<1>2. ArenaIInv'
  BY <1>1 DEF ArenaIInv, ArenaTypeOK, HeapApart, BlockShape, BlocksInHeap, FreeAllLeaksNothing,
       TailInBlock, TailFree, AllocsShape, AllocsApart, AllocsMapped, Live
<1> QED BY <1>1, <1>2, GrowSizeFits

(* Freeing one arena takes away its own blocks only.                       *)
LEMMA FreeAllKeepsIInv ==
  ASSUME ArenaIInv, NEW a \in Arenas, FreeAll(a)
  PROVE  ArenaIInv' /\ status' = "run" /\ Pool!GiveBack(a)
<1>1. /\ ArenaTypeOK /\ a \in Live /\ status' = "run" /\ freed' = freed \union {a}
      /\ heap' = heap \ blocks[a] /\ UNCHANGED <<ptr, end, blocks>>
      /\ allocs' = [allocs EXCEPT ![a] = {}]
      /\ Live' \subseteq Live /\ a \notin Live'
  BY DEF FreeAll, Live, ArenaIInv
<1>2. \A b \in Arenas : allocs'[b] \subseteq allocs[b] /\ (b = a => allocs'[b] = {})
  BY <1>1 DEF ArenaTypeOK
<1>3. \A b \in Arenas : b # a => heap \intersect blocks[b] \subseteq heap'
                                \/ allocs'[b] = {}
  BY <1>1 DEF ArenaIInv, BlocksInHeap, AllocsShape, ArenaTypeOK, Live
<1>4. ArenaTypeOK'
  BY <1>1 DEF ArenaTypeOK
<1>5. (HeapApart /\ BlockShape)'
  BY <1>1 DEF ArenaIInv, HeapApart, BlockShape
<1>6. BlocksInHeap' /\ FreeAllLeaksNothing'
  <2>1. BlocksInHeap'
    BY <1>1 DEF ArenaIInv, BlocksInHeap, Live
  <2>2. FreeAllLeaksNothing'
    BY <1>1 DEF ArenaIInv, FreeAllLeaksNothing, BlocksInHeap, ArenaTypeOK
  <2> QED BY <2>1, <2>2
<1>7. TailInBlock'
  BY <1>1 DEF ArenaIInv, TailInBlock
<1>8. TailFree'
  BY <1>1, <1>2 DEF ArenaIInv, TailFree
<1>9. AllocsShape' /\ AllocsApart'
  BY <1>1, <1>2 DEF ArenaIInv, AllocsShape, AllocsApart
<1>10. AllocsMapped'
  BY <1>1, <1>2, <1>3 DEF ArenaIInv, AllocsMapped
<1> QED
  BY <1>1, <1>4, <1>5, <1>6, <1>7, <1>8, <1>9, <1>10 DEF ArenaIInv, Pool!GiveBack

LEMMA ArenaNextKeepsIInv == ArenaIInv /\ [ArenaNext]_arenaVars => ArenaIInv'
<1> SUFFICES ASSUME ArenaIInv, [ArenaNext]_arenaVars PROVE ArenaIInv'
  OBVIOUS
<1>1. ASSUME NEW a \in Arenas, NEW size \in Sizes, NEW p \in Addr, Alloc(a, size, p)
      PROVE  ArenaIInv'
  BY <1>1, AllocKeepsIInv
<1>2. ASSUME NEW a \in Arenas, NEW size \in Sizes, AllocDies(a, size) PROVE ArenaIInv'
  BY <1>2, AllocDiesKeepsIInv
<1>3. ASSUME NEW a \in Arenas, FreeAll(a) PROVE ArenaIInv'
  BY <1>3, FreeAllKeepsIInv
<1>4. CASE UNCHANGED arenaVars
  BY <1>4 DEF arenaVars, ArenaIInv, ArenaTypeOK, HeapApart, BlockShape, BlocksInHeap, FreeAllLeaksNothing,
       TailInBlock, TailFree, AllocsShape, AllocsApart, AllocsMapped, Live
<1> QED BY <1>1, <1>2, <1>3, <1>4 DEF ArenaNext

(* The inductive invariant holds in every reachable state.                 *)
THEOREM ArenaInvariant == ArenaSpec => []ArenaIInv
BY ArenaInitIInv, ArenaNextKeepsIInv, PTL DEF ArenaSpec

-----------------------------------------------------------------------------
(* Every variable keeps the shape of the C++ member it stands for.         *)
THEOREM ArenaTypeCorrect == ArenaSpec => []ArenaTypeOK
<1>1. ArenaIInv => ArenaTypeOK
  BY DEF ArenaIInv
<1> QED BY <1>1, ArenaInvariant, PTL

(* No two regions alloc has returned overlap, in one arena or across two.  *)
THEOREM ArenaAllocsApart == ArenaSpec => []AllocsApart
<1>1. ArenaIInv => AllocsApart
  BY DEF ArenaIInv
<1> QED BY <1>1, ArenaInvariant, PTL

(* No region in use reaches into the free tail of any arena.               *)
THEOREM ArenaTailFree == ArenaSpec => []TailFree
<1>1. ArenaIInv => TailFree
  BY DEF ArenaIInv
<1> QED BY <1>1, ArenaInvariant, PTL

(* Every region in use is aligned and lies in a block its arena holds.     *)
THEOREM ArenaAllocsMapped == ArenaSpec => []AllocsMapped
<1>1. ArenaIInv => AllocsMapped
  BY DEF ArenaIInv
<1> QED BY <1>1, ArenaInvariant, PTL

(* free_all gives every block back.                                        *)
THEOREM ArenaFreeAllLeaksNothing == ArenaSpec => []FreeAllLeaksNothing
<1>1. ArenaIInv => FreeAllLeaksNothing
  BY DEF ArenaIInv
<1> QED BY <1>1, ArenaInvariant, PTL

(* The asserts of alloc stop the process only for a size that wraps.       *)
THEOREM ArenaAssertsOnlyOnWrap == ArenaSpec => AssertsOnlyOnWrap
<1> DEFINE A == status' = "abort" =>
             \E a \in Arenas, size \in Sizes :
               AllocDies(a, size) /\ size > AddrSpace - ARENA_ALIGNMENT
<1>1. ArenaIInv /\ [ArenaNext]_arenaVars => [A]_arenaVars
  <2> SUFFICES ASSUME ArenaIInv, ArenaNext, status' = "abort"
               PROVE  \E a \in Arenas, size \in Sizes :
                        AllocDies(a, size) /\ size > AddrSpace - ARENA_ALIGNMENT
    OBVIOUS
  <2>1. ASSUME NEW a \in Arenas, NEW size \in Sizes, NEW p \in Addr, Alloc(a, size, p)
        PROVE  FALSE
    BY <2>1, AllocKeepsIInv
  <2>2. ASSUME NEW a \in Arenas, FreeAll(a) PROVE FALSE
    BY <2>2, FreeAllKeepsIInv
  <2> QED BY <2>1, <2>2, AllocDiesKeepsIInv DEF ArenaNext
<1> QED BY <1>1, ArenaInvariant, PTL DEF ArenaSpec, AssertsOnlyOnWrap

(* The arenas, blocks and all, implement the pool of regions.              *)
THEOREM ArenaImplementsPool == ArenaSpec => ImplementsPool
<1>1. ArenaInit => Pool!Init
  BY DEF ArenaInit, Pool!Init
<1>2. ArenaIInv /\ [ArenaNext]_arenaVars => [Pool!Next]_allocs
  <2> SUFFICES ASSUME ArenaIInv, [ArenaNext]_arenaVars, allocs' # allocs PROVE Pool!Next
    OBVIOUS
  <2>1. ASSUME NEW a \in Arenas, NEW size \in Sizes, NEW p \in Addr, Alloc(a, size, p)
        PROVE  Pool!Next
    <3> DEFINE x == [base |-> p, size |-> size]
    <3>1. Pool!Give(a, x)
      BY <2>1, AllocKeepsIInv
    <3>2. x \in Pool!Region
      BY ArenaAssumption DEF Pool!Region, Addr, Pool!Addr
    <3>3. x \in allocs'[a]
      BY <3>1 DEF Pool!Give, ArenaIInv, ArenaTypeOK
    <3> QED BY <3>1, <3>2, <3>3 DEF Pool!Next
  <2>2. ASSUME NEW a \in Arenas, FreeAll(a) PROVE Pool!Next
    BY <2>2, FreeAllKeepsIInv DEF Pool!Next
  <2>3. ASSUME NEW a \in Arenas, NEW size \in Sizes, AllocDies(a, size) PROVE FALSE
    BY <2>3, AllocDiesKeepsIInv
  <2>4. ~ UNCHANGED arenaVars
    BY DEF arenaVars
  <2> QED BY <2>1, <2>2, <2>3, <2>4 DEF ArenaNext
<1> QED BY <1>1, <1>2, ArenaInvariant, PTL DEF ArenaSpec, ImplementsPool, Pool!Spec
=============================================================================
