------------------------ MODULE StringInternProofs ------------------------
(***************************************************************************)
(* Theorems about StringIntern, for every set of strings and every arena.  *)
(***************************************************************************)
EXTENDS StringIntern, ArenaProofs, SequenceTheorems

(* The inductive invariant.  The entries stay canonical because a fresh    *)
(* copy starts at an address no entry has, which takes that the bytes of   *)
(* every entry are a region of the arena still in use.                     *)
EntriesAllocated ==
  \A it \in interns : [base |-> it.str, size |-> it.len + 1] \in allocs[StrArena]

EntriesSpelled == \A it \in interns : text[it.str] \in Strings

InternIInv ==
  /\ ArenaIInv
  /\ InternTypeOK
  /\ EntriesAllocated
  /\ EntriesSpelled
  /\ InternsCanonical

LEMMA InternInitIInv == InternInit => InternIInv
BY ArenaInitIInv, EmptySeq
   DEF InternInit, InternIInv, InternTypeOK, ArenaIInv, EntriesAllocated, EntriesSpelled,
       InternsCanonical

(* The search of add_range finds the entry of a string that has one.       *)
LEMMA MatchingFinds ==
  ASSUME InternIInv, NEW s \in Strings, NEW it \in interns
  PROVE  text[it.str] = s <=> it \in Matching(s)
<1>1. text[it.str] \in Seq(Chars) /\ s \in Seq(Chars) /\ it.len = Len(text[it.str])
  BY InternAssumption DEF InternIInv, EntriesSpelled, InternsCanonical
<1>2. SubSeq(text[it.str], 1, Len(text[it.str])) = text[it.str]
  BY <1>1, SubSeqFull
<1> QED BY <1>1, <1>2 DEF Matching

(* A step that leaves the entries and what they spell alone.               *)
TableKept == interns' = interns /\ \A it \in interns : text'[it.str] = text[it.str]

(* An entry that add_range appends: its string had none, its pointer is    *)
(* the start of bytes no entry had.                                        *)
Appended(s, p) ==
  /\ \A it \in interns : text[it.str] # s /\ it.str # p
  /\ text'[p] = s /\ \A it \in interns : text'[it.str] = text[it.str]
  /\ interns' = interns \union {[len |-> Len(s), str |-> p]}

(* A step of the arena that spares the table keeps the table's invariant.  *)
LEMMA EntriesKept ==
  ASSUME InternIInv, ArenaIInv', TableKept, text' \in [Addr -> Seq(Chars)],
         \A r \in allocs[StrArena] : r \in allocs'[StrArena]
  PROVE  InternIInv'
BY DEF InternIInv, InternTypeOK, ArenaIInv, EntriesAllocated, EntriesSpelled,
       InternsCanonical, TableKept

(* What is written in a region that was just handed out leaves every       *)
(* interned string alone, since those are in regions handed out before.    *)
LEMMA WrittenApart ==
  ASSUME InternIInv, NEW a \in Arenas, NEW p \in Addr, NEW size \in Sizes,
         NEW s \in Seq(Chars),
         Pool!Give(a, [base |-> p, size |-> size]), text' = Written(p, size, s)
  PROVE  /\ text' \in [Addr -> Seq(Chars)]
         /\ text'[p] = s
         /\ \A it \in interns : it.str # p /\ text'[it.str] = text[it.str]
<1>1. StrArena \in Arenas /\ text \in [Addr -> Seq(Chars)] /\ size \in Nat \ {0} /\ p \in Nat
  BY InternAssumption, ArenaAssumption DEF InternIInv, InternTypeOK, Addr
<1>2. text' \in [Addr -> Seq(Chars)] /\ text'[p] = s
  BY <1>1, EmptySeq DEF Written
<1>3. ASSUME NEW it \in interns PROVE it.str # p /\ text'[it.str] = text[it.str]
  <2> DEFINE x == [base |-> p, size |-> size]
             y == [base |-> it.str, size |-> it.len + 1]
  <2>1. y \in allocs[StrArena]
    BY DEF InternIInv, EntriesAllocated
  <2>2. Pool!Apart(x, y)
    BY <1>1, <2>1 DEF Pool!Give
  <2>3. it.len \in Nat /\ it.str \in Addr /\ it.str \in Nat /\ it.len = Len(text[it.str])
    BY ArenaAssumption DEF InternIInv, InternTypeOK, InternsCanonical, Intern, Addr
  <2>4. p + size <= it.str \/ it.str + Len(text[it.str]) < p
    BY <1>1, <2>2, <2>3 DEF Pool!Apart
  <2>5. Len(text[it.str]) \in Nat
    BY <2>3
  <2>6. it.str # p /\ ~(it.str < p + size /\ p <= it.str + Len(text[it.str]))
    BY <1>1, <2>3, <2>4, <2>5
  <2> QED BY <2>3, <2>6 DEF Written
<1> QED BY <1>2, <1>3

LEMMA AddRangeKeepsIInv ==
  ASSUME InternIInv, NEW s \in Strings, NEW p \in Addr, AddRange(s, p)
  PROVE  InternIInv' /\ (UNCHANGED internVars \/ Appended(s, p))
<1>1. CASE UNCHANGED <<arenaVars, internVars>>
  <2>1. ArenaIInv'
    BY <1>1, ArenaNextKeepsIInv DEF InternIInv
  <2> QED BY <1>1, <2>1, EntriesKept
          DEF arenaVars, internVars, TableKept, InternIInv, InternTypeOK
<1>2. CASE /\ Matching(s) = {}
           /\ Alloc(StrArena, Len(s) + 1, p)
           /\ text' = Written(p, Len(s) + 1, s)
           /\ interns' = interns \union {[len |-> Len(s), str |-> p]}
  <2> DEFINE x == [base |-> p, size |-> Len(s) + 1]
             new == [len |-> Len(s), str |-> p]
  <2>1. /\ StrArena \in Arenas /\ s \in Seq(Chars) /\ Len(s) \in Nat /\ Len(s) + 1 \in Sizes
        /\ ArenaIInv /\ ArenaTypeOK /\ InternTypeOK
    BY InternAssumption, LenProperties DEF InternIInv, InternTypeOK
  <2>2. ArenaIInv' /\ Pool!Give(StrArena, x)
    BY <1>2, <2>1, AllocKeepsIInv
  <2>3. allocs'[StrArena] = allocs[StrArena] \union {x}
    BY <2>1, <2>2 DEF Pool!Give, ArenaTypeOK
  <2>4. /\ text' \in [Addr -> Seq(Chars)]
        /\ text'[p] = s
        /\ \A it \in interns : it.str # p /\ text'[it.str] = text[it.str]
    BY <1>2, <2>1, <2>2, WrittenApart
  <2>5. Appended(s, p)
    BY <1>2, <2>4, MatchingFinds DEF Appended
  <2>6. \A it \in interns' : it = new \/ it \in interns
    BY <1>2
  <2>7. text'[p] = s /\ \A it \in interns : text'[it.str] = text[it.str]
    BY <2>4
  <2>8. InternTypeOK'
    BY <1>2, <2>1, <2>2, <2>4 DEF InternTypeOK, Intern, ArenaIInv
  <2>9. EntriesAllocated'
    <3> SUFFICES ASSUME NEW it \in interns'
                 PROVE  [base |-> it.str, size |-> it.len + 1] \in allocs'[StrArena]
      BY DEF EntriesAllocated
    <3>1. CASE it = new
      BY <2>3, <3>1
    <3>2. CASE it \in interns
      BY <2>3, <3>2 DEF InternIInv, EntriesAllocated
    <3> QED BY <2>6, <3>1, <3>2
  <2>10. EntriesSpelled'
    BY <2>6, <2>7 DEF InternIInv, EntriesSpelled
  <2>11. InternsCanonical'
    <3> SUFFICES ASSUME NEW it \in interns', NEW jt \in interns'
                 PROVE  /\ it.len = Len(text'[it.str])
                        /\ text'[it.str] = text'[jt.str] => it = jt
                        /\ it.str = jt.str => it = jt
      BY DEF InternsCanonical
    <3> QED BY <2>4, <2>5, <2>6, <2>7 DEF Appended, InternIInv, InternsCanonical
  <2> QED BY <2>2, <2>5, <2>8, <2>9, <2>10, <2>11 DEF InternIInv
<1> QED BY <1>1, <1>2 DEF AddRange

LEMMA OtherStepsKeepIInv ==
  ASSUME InternIInv,
         \/ \E s \in Strings : AddRangeDies(s)
         \/ OtherArena
         \/ UNCHANGED allVars
  PROVE  InternIInv' /\ TableKept
<1>1. /\ ArenaIInv /\ ArenaTypeOK /\ StrArena \in Arenas /\ text \in [Addr -> Seq(Chars)]
      /\ \A s \in Strings : Len(s) + 1 \in Sizes
  BY InternAssumption DEF InternIInv, ArenaIInv, InternTypeOK
<1>2. ASSUME NEW s \in Strings, AddRangeDies(s) PROVE InternIInv' /\ TableKept
  BY <1>1, <1>2, AllocDiesKeepsIInv, EntriesKept DEF AddRangeDies, internVars, TableKept
<1>3. ASSUME NEW a \in Arenas \ {StrArena}, NEW size \in Sizes, NEW p \in Addr,
             Alloc(a, size, p), text' = Written(p, size, << >>), interns' = interns
      PROVE  InternIInv' /\ TableKept
  <2>1. ArenaIInv' /\ Pool!Give(a, [base |-> p, size |-> size])
    BY <1>1, <1>3, AllocKeepsIInv
  <2>2. text' \in [Addr -> Seq(Chars)] /\ TableKept
    BY <1>3, <2>1, WrittenApart, EmptySeq DEF TableKept
  <2> QED BY <1>1, <1>3, <2>1, <2>2, EntriesKept DEF Pool!Give, ArenaTypeOK
<1>4. ASSUME NEW a \in Arenas, NEW size \in Sizes, AllocDies(a, size), UNCHANGED internVars
      PROVE  InternIInv' /\ TableKept
  BY <1>1, <1>4, AllocDiesKeepsIInv, EntriesKept DEF internVars, TableKept
<1>5. CASE UNCHANGED allVars
  BY <1>1, <1>5, ArenaNextKeepsIInv, EntriesKept DEF allVars, arenaVars, internVars, TableKept
<1> QED BY <1>2, <1>3, <1>4, <1>5 DEF OtherArena, internVars

(* The inductive invariant holds in every reachable state.                 *)
THEOREM InternInvariant == InternSpec => []InternIInv
<1>1. InternIInv /\ [InternNext]_allVars => InternIInv'
  BY AddRangeKeepsIInv, OtherStepsKeepIInv DEF InternNext
<1> QED BY <1>1, InternInitIInv, PTL DEF InternSpec

-----------------------------------------------------------------------------
(* Comparing the pointers of two interned strings is comparing them.       *)
THEOREM InternCanonical == InternSpec => []InternsCanonical
<1>1. InternIInv => InternsCanonical
  BY DEF InternIInv
<1> QED BY <1>1, InternInvariant, PTL

(* A search stops at the entry of the string asked for and at no other.    *)
THEOREM InternSearchExact == InternSpec => []SearchExact
<1>1. InternIInv => SearchExact
  <2> SUFFICES ASSUME InternIInv, NEW s \in Strings
               PROVE  Matching(s) = { it \in interns : text[it.str] = s }
    BY DEF SearchExact
  <2>1. \A it \in interns : text[it.str] = s <=> it \in Matching(s)
    BY MatchingFinds
  <2> QED BY <2>1 DEF Matching
<1> QED BY <1>1, InternInvariant, PTL

(* An interned string never changes.                                       *)
THEOREM InternStable == InternSpec => InternsStable
<1> DEFINE A == \A it \in interns : it \in interns' /\ text'[it.str] = text[it.str]
<1>1. InternIInv /\ [InternNext]_allVars => [A]_allVars
  <2> SUFFICES ASSUME InternIInv, InternNext PROVE A
    OBVIOUS
  <2>1. ASSUME NEW s \in Strings, NEW p \in Addr, Appended(s, p) PROVE A
    BY <2>1 DEF Appended
  <2>2. CASE UNCHANGED internVars \/ TableKept
    BY <2>2 DEF internVars, TableKept
  <2> QED BY <2>1, <2>2, AddRangeKeepsIInv, OtherStepsKeepIInv DEF InternNext
<1> QED BY <1>1, InternInvariant, PTL DEF InternSpec, InternsStable

(* The table over the arena implements the promise of interning.           *)
THEOREM InternImplementsTable == InternSpec => ImplementsTable
<1> DEFINE t == {<<text[it.str], it.str>> : it \in interns}
<1>1. InternInit => Table!Init
  BY DEF InternInit, Table!Init
<1>2. InternIInv /\ [InternNext]_allVars => [Table!Next]_t
  <2> SUFFICES ASSUME InternIInv, [InternNext]_allVars PROVE [Table!Next]_t
    OBVIOUS
  <2>1. ASSUME NEW s \in Strings, NEW p \in Addr, Appended(s, p) PROVE Table!Next
    <3>1. t' = t \union {<<s, p>>}
      <4>1. text'[p] = s /\ \A it \in interns : text'[it.str] = text[it.str]
        BY <2>1 DEF Appended
      <4> DEFINE new == [len |-> Len(s), str |-> p]
      <4>2. interns' = interns \union {new} /\ new.str = p
        BY <2>1 DEF Appended
      <4> HIDE DEF new
      <4>3. t' = {<<text'[it.str], it.str>> : it \in interns}
                   \union {<<text'[new.str], new.str>>}
        BY <4>2
      <4>4. {<<text'[it.str], it.str>> : it \in interns} = t
        BY <4>1
      <4> QED BY <4>1, <4>2, <4>3, <4>4
    <3>2. \A e \in t : e[1] # s /\ e[2] # p
      BY <2>1 DEF Appended
    <3>3. Table!Intern(s, p)
      BY <3>1, <3>2 DEF Table!Intern
    <3> DEFINE e == <<s, p>>
    <3>4. e \in t' /\ e[1] = s /\ e[2] = p
      BY <3>1
    <3> HIDE DEF e, t
    <3> QED BY <3>3, <3>4 DEF Table!Next, t
  <2>2. CASE UNCHANGED internVars \/ TableKept
    BY <2>2 DEF internVars, TableKept
  <2> QED BY <2>1, <2>2, AddRangeKeepsIInv, OtherStepsKeepIInv DEF InternNext
<1> QED BY <1>1, <1>2, InternInvariant, PTL DEF InternSpec, ImplementsTable, Table!Spec
=============================================================================
