-------------------------- MODULE KeywordsProofs --------------------------
(***************************************************************************)
(* Theorems about Keywords: for every list of keywords, whatever was       *)
(* interned before them and wherever malloc places the blocks, the range   *)
(* test tells keywords from names once init has passed its assert.         *)
(***************************************************************************)
EXTENDS Keywords, StringInternProofs

-----------------------------------------------------------------------------
(* What a successful alloc does to the tail of its arena: either the tail  *)
(* shrinks from below, or it moves to a block apart from all earlier ones. *)
FreshBlock(a, p) ==
  \E r \in heap' :
    /\ r.base = p /\ r.size # 0 /\ end'[a] = r.base + r.size
    /\ \A s \in heap : Apart(r, s)

LEMMA TailAdvances ==
  ASSUME ArenaIInv, NEW a \in Arenas, NEW size \in Sizes, NEW p \in Addr, Alloc(a, size, p)
  PROVE  /\ p # NULL /\ p < ptr'[a] /\ ptr'[a] <= end'[a]
         /\ \/ p = ptr[a] /\ p < end[a] /\ end'[a] = end[a]
            \/ FreshBlock(a, p)
<1>1. PICK e \in Addr : Served(a, size, p, e)
  BY AllocServes
<1>2. /\ ArenaTypeOK /\ AddrSpace \in Nat /\ p \in Nat /\ e \in Nat /\ size \in Nat \ {0}
      /\ ptr[a] \in Nat /\ end[a] \in Nat
  BY ArenaAssumption DEF ArenaIInv, ArenaTypeOK, Addr
<1>3. p + size <= align_up(p + size) /\ align_up(p + size) <= e /\ align_up(p + size) \in Nat
  BY <1>1, <1>2, AlignUpBelow DEF Served, Addr
<1>4. p # NULL /\ ptr'[a] = align_up(p + size) /\ end'[a] = e
  BY <1>1, <1>2 DEF Served, Bump, ArenaTypeOK
<1>5. p < ptr'[a] /\ ptr'[a] <= end'[a]
  BY <1>2, <1>3, <1>4
<1>6. CASE size <= end[a] - ptr[a] /\ p = ptr[a] /\ Bump(a, size, p, end[a])
  BY <1>2, <1>4, <1>5, <1>6 DEF Bump, ArenaTypeOK
<1>7. ASSUME NEW n, n = GrowSize(size), size <= n, p \in MallocResults(n),
             heap' = heap \union {[base |-> p, size |-> n, owner |-> a]},
             Bump(a, size, p, p + n)
      PROVE  FreshBlock(a, p)
  <2> DEFINE r == [base |-> p, size |-> n, owner |-> a]
  <2>1. n \in Nat /\ n # 0 /\ end'[a] = r.base + r.size
    BY <1>2, <1>7, GrowSizeFits DEF Addr, Bump, ArenaTypeOK
  <2>2. \A s \in heap : Apart(r, s)
    BY <1>7 DEF MallocResults, Apart
  <2> QED BY <1>7, <2>1, <2>2 DEF FreshBlock
<1> QED BY <1>4, <1>5, <1>6, <1>7 DEF Alloc

-----------------------------------------------------------------------------
(* The inductive invariant.  While init runs in the block it started in,   *)
(* the keywords are the only strings from the first of them up to ptr; a   *)
(* block once left is never the current one again, so the assert of init   *)
(* really sees whether the keywords straddled.  From then on the free tail *)
(* lies outside the stretch of the keywords, so nothing is put there.      *)
EndsABlock(e) == e # NULL => \E r \in heap : e = r.base + r.size /\ r.size # 0

BootOnly ==
  pc # "run" =>
    \A it \in interns :
      \/ text[it.str] \in BOOT
      \/ \E j \in 1 .. Len(keywords) : text[it.str] = KEYWORDS[j]

KeywordEntries ==
  /\ pc = "boot" => keywords = << >>
  /\ \A j \in 1 .. Len(keywords) :
       \E it \in interns : it.str = keywords[j] /\ text[it.str] = KEYWORDS[j]

Ascending == \A i, j \in 1 .. Len(keywords) : i <= j => keywords[i] <= keywords[j]

Contiguous ==
  pc = "init" /\ end[StrArena] = arena_end /\ keywords # << >> =>
    /\ Ascending
    /\ keywords[Len(keywords)] < ptr[StrArena]
    /\ \A it \in interns :
         keywords[1] <= it.str /\ it.str < ptr[StrArena] => IsKeyword(text[it.str])
    /\ \E r \in heap : r.base <= keywords[1] /\ end[StrArena] = r.base + r.size

Span ==
  pc = "run" =>
    /\ Len(keywords) = Len(KEYWORDS)
    /\ first_keyword = keywords[1] /\ last_keyword = keywords[Len(keywords)]
    /\ Ascending
    /\ \A it \in interns : is_keyword_name(it.str) => IsKeyword(text[it.str])
    /\ \E r \in heap :
         /\ r.base <= first_keyword /\ last_keyword < r.base + r.size
         /\ last_keyword < ptr[StrArena] \/ end[StrArena] <= first_keyword

TokenKept ==
  token.name # NULL =>
    /\ \E it \in interns : it.str = token.name
    /\ token.kind = "KEYWORD" <=> IsKeyword(text[token.name])

KeywordsIInv ==
  /\ InternIInv
  /\ KeywordsTypeOK
  /\ EndsABlock(end[StrArena]) /\ EndsABlock(arena_end)
  /\ BootOnly /\ KeywordEntries /\ Contiguous /\ Span /\ TokenKept

LEMMA KeywordsInitIInv == Init => KeywordsIInv
<1> SUFFICES ASSUME Init PROVE KeywordsIInv
  OBVIOUS
<1>1. InternIInv /\ StrArena \in Arenas /\ NULL \in Addr
  BY InternInitIInv, InternAssumption, ArenaAssumption DEF Init, Addr, NULL
<1>2. Len(KEYWORDS) \in Nat /\ Len(keywords) = 0 /\ keywords \in Seq(Addr)
  BY KeywordsAssumption, LenProperties, EmptySeq DEF Init
<1>3. KeywordsTypeOK
  BY <1>1, <1>2 DEF Init, KeywordsTypeOK, InternIInv
<1> QED BY <1>1, <1>2, <1>3
        DEF Init, InternInit, ArenaInit, KeywordsIInv, EndsABlock, BootOnly, KeywordEntries,
            Contiguous, Span, TokenKept

(* What add_range does to the memory the keywords live in. *)
Found(s, p) ==
  /\ UNCHANGED <<arenaVars, internVars>>
  /\ \E it \in interns : it.str = p /\ text[it.str] = s

Added(s, p) ==
  /\ Appended(s, p)
  /\ heap \subseteq heap' /\ StrArena \in Live
  /\ p # NULL /\ p < ptr'[StrArena] /\ ptr'[StrArena] <= end'[StrArena]
  /\ \/ p = ptr[StrArena] /\ p < end[StrArena] /\ end'[StrArena] = end[StrArena]
     \/ FreshBlock(StrArena, p)

LEMMA AddRangeMoves ==
  ASSUME InternIInv, NEW s \in Strings, NEW p \in Addr, AddRange(s, p)
  PROVE  InternIInv' /\ (Found(s, p) \/ Added(s, p))
<1>1. InternIInv' /\ (UNCHANGED internVars \/ Appended(s, p))
  BY AddRangeKeepsIInv
<1>2. CASE UNCHANGED <<arenaVars, internVars>> /\ \E it \in Matching(s) : p = it.str
  <2>1. PICK it \in Matching(s) : p = it.str
    BY <1>2
  <2>2. it \in interns /\ text[it.str] = s
    BY MatchingFinds DEF Matching
  <2> QED BY <1>1, <1>2, <2>1, <2>2 DEF Found
<1>3. CASE /\ Matching(s) = {}
           /\ Alloc(StrArena, Len(s) + 1, p)
           /\ text' = Written(p, Len(s) + 1, s)
           /\ interns' = interns \union {[len |-> Len(s), str |-> p]}
  <2>1. StrArena \in Arenas /\ Len(s) + 1 \in Sizes /\ ArenaIInv /\ InternTypeOK
    BY InternAssumption DEF InternIInv
  <2>2. [len |-> Len(s), str |-> p] \in interns' \ interns
    <3>1. [len |-> Len(s), str |-> p] \notin interns
      <4> SUFFICES ASSUME NEW it \in interns, it.str = p PROVE FALSE
        BY <2>1 DEF InternTypeOK, Intern
      <4>1. /\ [base |-> it.str, size |-> it.len + 1] \in allocs[StrArena]
            /\ it.len \in Nat /\ p \in Nat /\ Len(s) \in Nat
        BY <2>1, ArenaAssumption, InternAssumption, LenProperties
           DEF InternIInv, EntriesAllocated, InternTypeOK, Intern, Addr
      <4>2. Pool!Give(StrArena, [base |-> p, size |-> Len(s) + 1])
        BY <1>3, <2>1, AllocKeepsIInv
      <4>3. Pool!Apart([base |-> p, size |-> Len(s) + 1], [base |-> it.str, size |-> it.len + 1])
        BY <2>1, <4>1, <4>2 DEF Pool!Give
      <4> QED BY <4>1, <4>3 DEF Pool!Apart
    <3> QED BY <1>3, <3>1
  <2>3. Appended(s, p)
    BY <1>1, <2>2 DEF internVars
  <2>4. heap \subseteq heap' /\ StrArena \in Live
    BY <1>3, <2>1 DEF Alloc, Live
  <2>5. /\ p # NULL /\ p < ptr'[StrArena] /\ ptr'[StrArena] <= end'[StrArena]
        /\ \/ p = ptr[StrArena] /\ p < end[StrArena] /\ end'[StrArena] = end[StrArena]
           \/ FreshBlock(StrArena, p)
    BY <1>3, <2>1, TailAdvances
  <2> QED BY <1>1, <2>3, <2>4, <2>5 DEF Added
<1> QED BY <1>2, <1>3 DEF AddRange

(* A step that leaves the string arena and the table alone.                *)
LEMMA QuietKeepsIInv ==
  ASSUME KeywordsIInv, InternIInv', TableKept, UNCHANGED keywordVars,
         heap \subseteq heap',
         ptr'[StrArena] = ptr[StrArena], end'[StrArena] = end[StrArena]
  PROVE  KeywordsIInv'
<1>1. /\ \A it \in interns : text'[it.str] = text[it.str]
      /\ UNCHANGED <<interns, pc, arena_end, keywords, first_keyword,
                     last_keyword, token>>
      /\ (KeywordsTypeOK /\ InternIInv)'
  BY DEF TableKept, keywordVars, KeywordsIInv, KeywordsTypeOK, InternIInv
<1>2. (EndsABlock(end[StrArena]) /\ EndsABlock(arena_end))'
  BY <1>1 DEF KeywordsIInv, EndsABlock
<1>3. (BootOnly /\ KeywordEntries /\ TokenKept)'
  BY <1>1 DEF KeywordsIInv, BootOnly, KeywordEntries, TokenKept
<1>4. Contiguous'
  BY <1>1 DEF KeywordsIInv, Contiguous, Ascending
<1>5. Span'
  BY <1>1 DEF KeywordsIInv, Span, Ascending, is_keyword_name
<1> QED BY <1>1, <1>2, <1>3, <1>4, <1>5 DEF KeywordsIInv

(* The strings of the table are outside the free tail of their arena.      *)
LEMMA EntriesOutsideTail ==
  ASSUME InternIInv, ptr[StrArena] < end[StrArena], NEW it \in interns
  PROVE  it.str < ptr[StrArena] \/ end[StrArena] <= it.str
<1> DEFINE x == [base |-> it.str, size |-> it.len + 1]
<1>1. x \in allocs[StrArena] /\ StrArena \in Arenas /\ ArenaIInv /\ InternTypeOK
  BY InternAssumption DEF InternIInv, EntriesAllocated
<1>2. /\ StrArena \in Live /\ it.str \in Nat /\ it.len \in Nat
      /\ ptr[StrArena] \in Nat /\ end[StrArena] \in Nat
  BY <1>1, ArenaAssumption
     DEF ArenaIInv, ArenaTypeOK, AllocsShape, Live, InternTypeOK, Intern, Addr
<1>3. x.base + x.size <= ptr[StrArena] \/ end[StrArena] <= x.base
  BY <1>1, <1>2 DEF ArenaIInv, TailFree
<1> QED BY <1>2, <1>3

(* A fresh block does not end where an earlier one did. *)
LEMMA FreshEndsApart ==
  ASSUME InternIInv, InternIInv', NEW p \in Addr, FreshBlock(StrArena, p), NEW e, EndsABlock(e),
         heap \subseteq heap'
  PROVE  end'[StrArena] # e
<1>1. PICK r \in heap' :
        /\ r.base = p /\ r.size # 0 /\ end'[StrArena] = r.base + r.size
        /\ \A s \in heap : Apart(r, s)
  BY DEF FreshBlock
<1>2. \A s \in heap' : s.base \in Nat /\ s.size \in Nat
  BY ArenaAssumption DEF InternIInv, ArenaIInv, ArenaTypeOK, Block, Addr
<1>3. CASE e = NULL
  BY <1>1, <1>2, <1>3 DEF NULL
<1>4. ASSUME NEW s \in heap, e = s.base + s.size, s.size # 0 PROVE end'[StrArena] # e
  <2>1. Apart(r, s)
    BY <1>1
  <2> QED BY <1>1, <1>2, <1>4, <2>1 DEF Apart
<1> QED BY <1>3, <1>4 DEF EndsABlock

(* The current end and the noted one still are ends of blocks. *)
LEMMA EndsKept ==
  ASSUME KeywordsIInv, NEW s \in Strings, NEW p \in Addr, Found(s, p) \/ Added(s, p),
         UNCHANGED arena_end
  PROVE  (EndsABlock(end[StrArena]) /\ EndsABlock(arena_end))'
<1>1. CASE Found(s, p)
  BY <1>1 DEF Found, arenaVars, KeywordsIInv, EndsABlock
<1>2. CASE Added(s, p)
  BY <1>2 DEF Added, FreshBlock, KeywordsIInv, EndsABlock
<1> QED BY <1>1, <1>2

LEMMA InternTestKeepsIInv ==
  ASSUME KeywordsIInv, NEW s \in BOOT, NEW p \in Addr, InternTest(s, p)
  PROVE  KeywordsIInv'
<1>1. /\ s \in Strings
      /\ pc = "boot" /\ keywords = << >> /\ KeywordsTypeOK /\ InternIInv
  BY KeywordsAssumption, LenProperties
     DEF InternTest, KeywordsIInv, KeywordsTypeOK, KeywordEntries
<1>2. /\ AddRange(s, p)
      /\ UNCHANGED <<pc, arena_end, keywords, first_keyword, last_keyword, token>>
  BY DEF InternTest, keywordVars
<1>3. InternIInv' /\ (Found(s, p) \/ Added(s, p))
  BY <1>1, <1>2, AddRangeMoves
<1>4. KeywordsTypeOK'
  BY <1>1, <1>2, <1>3 DEF KeywordsTypeOK, InternIInv
<1>5. (EndsABlock(end[StrArena]) /\ EndsABlock(arena_end))'
  BY <1>1, <1>2, <1>3, EndsKept
<1>6. BootOnly' /\ TokenKept'
  <2>1. CASE Found(s, p)
    BY <1>2, <2>1 DEF Found, internVars, KeywordsIInv, BootOnly, TokenKept
  <2>2. CASE Added(s, p)
    <3>1. \A it \in interns' : it \in interns \/ it.str = p
      BY <2>2 DEF Added, Appended
    <3>2. BootOnly'
      BY <1>1, <1>2, <2>2, <3>1 DEF Added, Appended, KeywordsIInv, BootOnly
    <3>3. TokenKept'
      BY <1>2, <2>2 DEF Added, Appended, KeywordsIInv, TokenKept
    <3> QED BY <3>2, <3>3
  <2> QED BY <1>3, <2>1, <2>2
<1>7. KeywordEntries' /\ Contiguous' /\ Span'
  BY <1>1, <1>2 DEF KeywordEntries, Contiguous, Span, KeywordsTypeOK
<1> QED BY <1>3, <1>4, <1>5, <1>6, <1>7 DEF KeywordsIInv

LEMMA InitBeginsKeepsIInv ==
  ASSUME KeywordsIInv, InitBegins
  PROVE  KeywordsIInv'
<1>1. /\ pc = "boot" /\ pc' = "init" /\ arena_end' = end[StrArena] /\ keywords = << >>
      /\ UNCHANGED <<ptr, end, blocks, heap, freed, allocs, status, interns, text, keywords, first_keyword, last_keyword, token>>
  BY DEF InitBegins, allVars, arenaVars, internVars, KeywordsIInv, KeywordEntries
<1>2. InternIInv'
  BY <1>1, OtherStepsKeepIInv DEF KeywordsIInv, allVars, arenaVars, internVars
<1>3. KeywordsTypeOK'
  BY <1>1, <1>2, InternAssumption
     DEF KeywordsIInv, KeywordsTypeOK, InternIInv, InternTypeOK, ArenaTypeOK
<1>4. (EndsABlock(end[StrArena]) /\ EndsABlock(arena_end))'
  BY <1>1 DEF KeywordsIInv, EndsABlock
<1>5. (BootOnly /\ KeywordEntries /\ Contiguous /\ Span /\ TokenKept)'
  BY <1>1 DEF KeywordsIInv, BootOnly, KeywordEntries, Contiguous, Span, TokenKept
<1> QED BY <1>2, <1>3, <1>4, <1>5 DEF KeywordsIInv

(* Appending to the list of keywords. *)
LEMMA KeywordAppended ==
  ASSUME keywords \in Seq(Addr), NEW p \in Addr, keywords' = Append(keywords, p)
  PROVE  /\ keywords' \in Seq(Addr) /\ Len(keywords') = Len(keywords) + 1
         /\ Len(keywords) \in Nat /\ keywords'[Len(keywords')] = p
         /\ \A j \in 1 .. Len(keywords) : keywords'[j] = keywords[j]
BY AppendProperties, LenProperties

LEMMA KEYWORDKeepsIInv ==
  ASSUME KeywordsIInv, NEW p \in Addr, KEYWORD(p)
  PROVE  KeywordsIInv'
<1> DEFINE k == Len(keywords) + 1
           s == KEYWORDS[k]
<1>1. /\ keywords \in Seq(Addr) /\ Len(keywords) \in Nat /\ pc = "init"
      /\ k \in 1 .. Len(KEYWORDS) /\ k \in DOMAIN KEYWORDS /\ s \in Strings
      /\ KeywordsTypeOK /\ InternIInv
  BY KeywordsAssumption, LenProperties, ElementOfSeq DEF KEYWORD, KeywordsIInv, KeywordsTypeOK
<1>2. /\ AddRange(s, p) /\ keywords' = Append(keywords, p)
      /\ UNCHANGED <<pc, arena_end, first_keyword, last_keyword, token>>
  BY DEF KEYWORD
<1>3. /\ keywords' \in Seq(Addr) /\ Len(keywords') = k /\ keywords'[k] = p
      /\ \A j \in 1 .. Len(keywords) : keywords'[j] = keywords[j]
  BY <1>1, <1>2, KeywordAppended
<1>4. \A j \in 1 .. Len(keywords) : KEYWORDS[j] # s
  BY <1>1, KeywordsAssumption, LenProperties
<1>5. s \notin BOOT
  BY <1>1, KeywordsAssumption
<1> HIDE DEF s, k
<1>6. InternIInv' /\ (Found(s, p) \/ Added(s, p))
  BY <1>1, <1>2, AddRangeMoves
<1>7. Added(s, p)
  <2>1. \A it \in interns : text[it.str] # s
    BY <1>1, <1>4, <1>5 DEF KeywordsIInv, BootOnly
  <2> QED BY <1>6, <2>1 DEF Found
<1>8. \A it \in interns' : it \in interns \/ it.str = p
  BY <1>7 DEF Added, Appended
<1>9. \E it \in interns' : it.str = p
  <2>1. [len |-> Len(s), str |-> p] \in interns'
    BY <1>7 DEF Added, Appended
  <2> QED BY <2>1
<1>10. k = Len(keywords) + 1 /\ \A j \in 1 .. k : j = k \/ j \in 1 .. Len(keywords)
  BY <1>1 DEF k
<1>11. interns \subseteq interns'
  BY <1>7 DEF Added, Appended
<1>12. KeywordsTypeOK'
  BY <1>1, <1>2, <1>3, <1>6 DEF KeywordsTypeOK, InternIInv
<1>13. (EndsABlock(end[StrArena]) /\ EndsABlock(arena_end))'
  BY <1>1, <1>2, <1>6, EndsKept
<1>14. BootOnly'
  <2> SUFFICES ASSUME NEW it \in interns'
               PROVE  \/ text'[it.str] \in BOOT
                      \/ \E j \in 1 .. k : text'[it.str] = KEYWORDS[j]
    BY <1>3 DEF BootOnly
  <2>1. CASE it.str = p
    BY <1>1, <1>7, <2>1 DEF Added, Appended, s
  <2>2. CASE it \in interns
    BY <1>1, <1>7, <1>10, <2>2 DEF Added, Appended, KeywordsIInv, BootOnly
  <2> QED BY <1>8, <2>1, <2>2
<1>15. KeywordEntries'
  <2> SUFFICES ASSUME NEW j \in 1 .. k
               PROVE  \E it \in interns' : it.str = keywords'[j] /\ text'[it.str] = KEYWORDS[j]
    BY <1>1, <1>2, <1>3 DEF KeywordEntries
  <2>1. CASE j = k
    BY <1>3, <1>7, <1>9, <2>1 DEF Added, Appended, s
  <2>2. CASE j \in 1 .. Len(keywords)
    <3>1. PICK it \in interns : it.str = keywords[j] /\ text[it.str] = KEYWORDS[j]
      BY <2>2 DEF KeywordsIInv, KeywordEntries
    <3>2. text'[it.str] = KEYWORDS[j] /\ it.str = keywords'[j]
      BY <1>3, <1>7, <2>2, <3>1 DEF Added, Appended
    <3> QED BY <1>11, <3>2
  <2> QED BY <1>10, <2>1, <2>2
<1>16. Contiguous'
  <2> SUFFICES ASSUME end'[StrArena] = arena_end
               PROVE  /\ Ascending'
                      /\ p < ptr'[StrArena]
                      /\ \A it \in interns' :
                           keywords'[1] <= it.str /\ it.str < ptr'[StrArena] =>
                             IsKeyword(text'[it.str])
                      /\ \E r \in heap' :
                           r.base <= keywords'[1] /\ end'[StrArena] = r.base + r.size
    BY <1>2, <1>3 DEF Contiguous, IsKeyword
  <2>1. p = ptr[StrArena] /\ p < end[StrArena] /\ end'[StrArena] = end[StrArena]
    BY <1>1, <1>6, <1>7, FreshEndsApart DEF Added, KeywordsIInv
  <2>2. p \in Nat /\ ptr[StrArena] \in Nat /\ ptr'[StrArena] \in Nat /\ end[StrArena] \in Nat
    BY <1>1, <1>6, InternAssumption, ArenaAssumption
       DEF InternIInv, InternTypeOK, ArenaTypeOK, Addr
  <2>3. \A it \in interns : it.str \in Nat
    BY <1>1, ArenaAssumption DEF InternIInv, InternTypeOK, Intern, Addr
  <2>4. p < ptr'[StrArena] /\ ptr'[StrArena] <= end[StrArena]
    BY <1>7, <2>1 DEF Added
  <2>5. \A j \in 1 .. Len(keywords) : keywords[j] \in Nat
    BY <1>1, ElementOfSeq, ArenaAssumption DEF Addr
  <2>6. IsKeyword(s)
    BY <1>1 DEF IsKeyword, s
  <2>7. \E r \in blocks[StrArena] : r.base <= p /\ end[StrArena] = r.base + r.size
    BY <1>1, <1>7, <2>1 DEF Added, InternIInv, ArenaIInv, TailInBlock
  <2>8. blocks[StrArena] \subseteq heap /\ heap \subseteq heap'
    BY <1>1, <1>7 DEF Added, InternIInv, ArenaIInv, ArenaTypeOK, BlocksInHeap, Live
  <2>9. CASE keywords = << >>
    <3>1. k = 1 /\ keywords'[1] = p
      BY <1>3, <1>10, <2>9
    <3>2. Ascending'
      BY <1>3, <2>2, <3>1 DEF Ascending
    <3>3. \A it \in interns : ~ (p <= it.str /\ it.str < ptr'[StrArena])
      BY <1>1, <2>1, <2>2, <2>3, <2>4, EntriesOutsideTail
    <3>4. \A it \in interns' :
            keywords'[1] <= it.str /\ it.str < ptr'[StrArena] => IsKeyword(text'[it.str])
      BY <1>7, <1>8, <2>6, <3>1, <3>3 DEF Added, Appended
    <3> QED BY <2>1, <2>4, <2>7, <2>8, <3>1, <3>2, <3>4
  <2>10. CASE keywords # << >>
    <3>1. /\ Ascending /\ keywords[Len(keywords)] < p
          /\ \A it \in interns :
               keywords[1] <= it.str /\ it.str < p => IsKeyword(text[it.str])
          /\ \E r \in heap : r.base <= keywords[1] /\ end[StrArena] = r.base + r.size
      BY <1>1, <2>1, <2>10 DEF KeywordsIInv, Contiguous
    <3>2. Len(keywords) \in 1 .. Len(keywords) /\ 1 \in 1 .. Len(keywords)
      BY <1>1, <2>10, EmptySeq
    <3>3. keywords'[1] = keywords[1]
      BY <1>3, <3>2
    <3>4. \A j \in 1 .. Len(keywords) : keywords[j] <= p
      <4> SUFFICES ASSUME NEW j \in 1 .. Len(keywords) PROVE keywords[j] <= p
        OBVIOUS
      <4>1. Len(keywords) \in Nat /\ j <= Len(keywords)
        BY <1>1, LenProperties
      <4>2. keywords[j] <= keywords[Len(keywords)]
        BY <3>1, <3>2, <4>1 DEF Ascending
      <4> QED BY <2>2, <2>5, <3>1, <3>2, <4>2
    <3>5. Ascending'
      <4> SUFFICES ASSUME NEW i \in 1 .. k, NEW j \in 1 .. k, i <= j
                   PROVE  keywords'[i] <= keywords'[j]
        BY <1>3 DEF Ascending
      <4>1. CASE j = k
        BY <1>3, <1>10, <2>2, <3>4, <4>1
      <4>2. CASE j # k
        <5>1. j \in 1 .. Len(keywords) /\ i \in 1 .. Len(keywords)
          BY <1>1, <1>10, <4>2
        <5> QED BY <1>3, <3>1, <5>1 DEF Ascending
      <4> QED BY <4>1, <4>2
    <3>6. \A it \in interns' :
            keywords'[1] <= it.str /\ it.str < ptr'[StrArena] => IsKeyword(text'[it.str])
      <4> SUFFICES ASSUME NEW it \in interns', keywords[1] <= it.str, it.str < ptr'[StrArena]
                   PROVE  IsKeyword(text'[it.str])
        BY <3>3
      <4>1. CASE it.str = p
        BY <1>7, <2>6, <4>1 DEF Added, Appended
      <4>2. CASE it \in interns
        <5>1. it.str < p
          BY <1>1, <2>1, <2>2, <2>3, <2>4, <4>2, EntriesOutsideTail
        <5> QED BY <1>7, <3>1, <4>2, <5>1 DEF Added, Appended
      <4> QED BY <1>8, <4>1, <4>2
    <3> QED BY <2>1, <2>4, <2>8, <3>1, <3>3, <3>5, <3>6
  <2> QED BY <2>9, <2>10
<1>17. Span' /\ TokenKept'
  BY <1>1, <1>2, <1>7 DEF Span, Added, Appended, KeywordsIInv, TokenKept
<1> QED BY <1>6, <1>12, <1>13, <1>14, <1>15, <1>16, <1>17 DEF KeywordsIInv

(* The range test, given the span of the keywords. *)
LEMMA SpanExact ==
  ASSUME KeywordsIInv, pc = "run", NEW it \in interns
  PROVE  is_keyword_name(it.str) <=> IsKeyword(text[it.str])
<1>1. /\ Span /\ KeywordEntries /\ InternsCanonical /\ pc = "run"
      /\ keywords \in Seq(Addr) /\ KEYWORDS \in Seq(Strings) /\ KEYWORDS # << >>
  BY KeywordsAssumption DEF KeywordsIInv, KeywordsTypeOK, InternIInv
<1>2. ASSUME NEW j \in DOMAIN KEYWORDS, KEYWORDS[j] = text[it.str]
      PROVE  is_keyword_name(it.str)
  <2>1. /\ j \in 1 .. Len(keywords) /\ 1 \in 1 .. Len(keywords)
        /\ Len(keywords) \in 1 .. Len(keywords) /\ 1 <= j /\ j <= Len(keywords)
    BY <1>1, LenProperties DEF Span
  <2>2. PICK jt \in interns : jt.str = keywords[j] /\ text[jt.str] = KEYWORDS[j]
    BY <1>1, <2>1 DEF KeywordEntries
  <2>3. it.str = keywords[j]
    BY <1>1, <1>2, <2>2 DEF InternsCanonical
  <2> QED BY <1>1, <2>1, <2>3 DEF Span, Ascending, is_keyword_name
<1> QED BY <1>1, <1>2 DEF Span, IsKeyword

LEMMA InitEndsKeepsIInv ==
  ASSUME KeywordsIInv, InitEnds
  PROVE  KeywordsIInv'
<1>1. /\ pc = "init" /\ Len(keywords) = Len(KEYWORDS) /\ keywords \in Seq(Addr)
      /\ InternIInv /\ KeywordsTypeOK /\ KEYWORDS \in Seq(Strings) /\ KEYWORDS # << >>
  BY KeywordsAssumption DEF InitEnds, KeywordsIInv, KeywordsTypeOK
<1>2. /\ UNCHANGED <<ptr, end, blocks, heap, freed, allocs, interns, text, arena_end,
                     keywords, token>>
      /\ status' = status \/ status' = "abort"
  BY DEF InitEnds, allVars, arenaVars, internVars
<1>3. InternIInv'
  BY <1>1, <1>2
     DEF InternIInv, InternTypeOK, EntriesAllocated, EntriesSpelled, InternsCanonical, ArenaIInv,
         ArenaTypeOK, HeapApart, BlockShape, BlocksInHeap, FreeAllLeaksNothing, TailInBlock,
         TailFree, AllocsShape, AllocsApart, AllocsMapped, Live
<1>4. (EndsABlock(end[StrArena]) /\ EndsABlock(arena_end) /\ KeywordEntries /\ TokenKept)'
      /\ BootOnly'
  <2>1. pc' = "init" \/ pc' = "run"
    BY <1>1 DEF InitEnds
  <2> QED BY <1>1, <1>2, <2>1 DEF KeywordsIInv, EndsABlock, KeywordEntries, TokenKept, BootOnly
<1>5. CASE end[StrArena] # arena_end
  <2>1. UNCHANGED <<pc, first_keyword, last_keyword>>
    BY <1>5 DEF InitEnds
  <2>2. KeywordsTypeOK' /\ Contiguous' /\ Span'
    BY <1>1, <1>2, <1>3, <1>5, <2>1 DEF KeywordsTypeOK, InternIInv, Contiguous, Span
  <2> QED BY <1>3, <1>4, <2>2 DEF KeywordsIInv
<1>6. CASE end[StrArena] = arena_end
  <2>1. /\ pc' = "run" /\ first_keyword' = keywords[1]
        /\ last_keyword' = keywords[Len(keywords)]
    BY <1>6 DEF InitEnds
  <2>2. 1 \in 1 .. Len(keywords) /\ Len(keywords) \in 1 .. Len(keywords) /\ keywords # << >>
    BY <1>1, EmptySeq, LenProperties
  <2>3. keywords[1] \in Addr /\ keywords[Len(keywords)] \in Addr
    BY <1>1, <2>2, ElementOfSeq
  <2>4. KeywordsTypeOK'
    BY <1>1, <1>2, <1>3, <2>1, <2>3 DEF KeywordsTypeOK, InternIInv
  <2>5. Contiguous'
    BY <2>1 DEF Contiguous
  <2>6. /\ Ascending /\ keywords[Len(keywords)] < ptr[StrArena]
        /\ \A it \in interns :
             keywords[1] <= it.str /\ it.str < ptr[StrArena] => IsKeyword(text[it.str])
        /\ \E r \in heap : r.base <= keywords[1] /\ end[StrArena] = r.base + r.size
    BY <1>1, <1>6, <2>2 DEF KeywordsIInv, Contiguous
  <2>7. /\ \A it \in interns : it.str \in Nat
        /\ keywords[Len(keywords)] \in Nat /\ ptr[StrArena] \in Nat /\ end[StrArena] \in Nat
        /\ ptr[StrArena] <= end[StrArena]
    <3>1. StrArena \in Live
      <4>1. PICK it \in interns : it.str = keywords[1]
        BY <2>2 DEF KeywordsIInv, KeywordEntries
      <4> QED BY <1>1, <4>1, InternAssumption
              DEF InternIInv, EntriesAllocated, ArenaIInv, AllocsShape, Live
    <3> QED BY <1>1, <2>3, <3>1, ArenaAssumption, InternAssumption
            DEF InternIInv, ArenaIInv, ArenaTypeOK, TailInBlock, InternTypeOK, Intern, Addr
  <2>8. Span'
    <3>1. \A it \in interns : keywords[1] <= it.str /\ it.str <= keywords[Len(keywords)]
                             => IsKeyword(text[it.str])
      BY <2>6, <2>7
    <3>2. keywords[Len(keywords)] < end[StrArena]
      BY <2>6, <2>7
    <3> QED BY <1>1, <1>2, <2>1, <2>6, <3>1, <3>2 DEF Span, Ascending, is_keyword_name, IsKeyword
  <2> QED BY <1>3, <1>4, <2>4, <2>5, <2>8 DEF KeywordsIInv
<1> QED BY <1>5, <1>6

LEMMA IdentifierKeepsIInv ==
  ASSUME KeywordsIInv, NEW s \in Strings, NEW p \in Addr, Identifier(s, p)
  PROVE  KeywordsIInv'
<1>1. /\ pc = "run" /\ AddRange(s, p) /\ InternIInv /\ KeywordsTypeOK /\ Span /\ KeywordEntries
      /\ token' = [kind |-> IF is_keyword_name(p) THEN "KEYWORD" ELSE "NAME", name |-> p]
      /\ UNCHANGED <<pc, arena_end, keywords, first_keyword, last_keyword>>
  BY DEF Identifier, KeywordsIInv
<1>2. InternIInv' /\ (Found(s, p) \/ Added(s, p))
  BY <1>1, AddRangeMoves
<1>3. KeywordsTypeOK'
  BY <1>1, <1>2 DEF KeywordsTypeOK, InternIInv
<1>4. (EndsABlock(end[StrArena]) /\ EndsABlock(arena_end))'
  BY <1>1, <1>2, EndsKept
<1>5. /\ interns \subseteq interns' /\ \A it \in interns : text'[it.str] = text[it.str]
      /\ \E it \in interns' : it.str = p /\ text'[it.str] = s
  <2>1. CASE Found(s, p)
    BY <2>1 DEF Found, internVars
  <2>2. CASE Added(s, p)
    <3>1. [len |-> Len(s), str |-> p] \in interns'
      BY <2>2 DEF Added, Appended
    <3> QED BY <2>2, <3>1 DEF Added, Appended
  <2> QED BY <1>2, <2>1, <2>2
<1>6. KeywordEntries' /\ BootOnly' /\ Contiguous'
  BY <1>1, <1>5 DEF KeywordEntries, BootOnly, Contiguous
<1>7. Span'
  <2>1. CASE Found(s, p)
    BY <1>1, <2>1 DEF Found, arenaVars, internVars, Span, Ascending, is_keyword_name
  <2>2. CASE Added(s, p)
    <3>1. PICK r \in heap :
            /\ r.base <= first_keyword /\ last_keyword < r.base + r.size
            /\ last_keyword < ptr[StrArena] \/ end[StrArena] <= first_keyword
      BY <1>1 DEF Span
    <3>2. /\ p \in Nat /\ first_keyword \in Nat /\ last_keyword \in Nat
          /\ ptr[StrArena] \in Nat /\ end[StrArena] \in Nat
          /\ ptr'[StrArena] \in Nat /\ end'[StrArena] \in Nat
          /\ \A q \in heap' : q.base \in Nat /\ q.size \in Nat
      <4>1. /\ first_keyword \in Addr /\ last_keyword \in Addr /\ StrArena \in Arenas
            /\ ArenaTypeOK /\ ArenaTypeOK'
        BY <1>1, <1>2, InternAssumption DEF KeywordsTypeOK, InternIInv, InternTypeOK
      <4>2. Addr \subseteq Nat
        BY ArenaAssumption DEF Addr
      <4> QED BY <4>1, <4>2 DEF ArenaTypeOK, Block
    <3>3. r \in heap' /\ p < ptr'[StrArena] /\ ptr'[StrArena] <= end'[StrArena]
      BY <2>2 DEF Added
    <3>4. (p < first_keyword /\ end'[StrArena] <= first_keyword) \/ last_keyword < p
      <4>1. CASE p = ptr[StrArena] /\ p < end[StrArena] /\ end'[StrArena] = end[StrArena]
        BY <3>1, <3>2, <4>1
      <4>2. CASE FreshBlock(StrArena, p)
        <5>1. PICK q \in heap' : q.base = p /\ q.size # 0 /\ end'[StrArena] = q.base + q.size
                                 /\ Apart(q, r)
          BY <3>1, <4>2 DEF FreshBlock
        <5> QED BY <3>1, <3>2, <3>3, <5>1 DEF Apart
      <4> QED BY <2>2, <4>1, <4>2 DEF Added
    <3>5. ~ is_keyword_name(p)
      BY <3>2, <3>4 DEF is_keyword_name
    <3>6. \A it \in interns' : is_keyword_name(it.str) => IsKeyword(text'[it.str])
      <4>1. \A it \in interns' : it \in interns \/ it.str = p
        BY <2>2 DEF Added, Appended
      <4> QED BY <1>1, <1>5, <3>5, <4>1 DEF Span
    <3>7. last_keyword < ptr'[StrArena] \/ end'[StrArena] <= first_keyword
      BY <3>2, <3>3, <3>4
    <3> QED BY <1>1, <3>1, <3>3, <3>6, <3>7 DEF Span, Ascending, is_keyword_name, IsKeyword
  <2> QED BY <1>2, <2>1, <2>2
<1>8. TokenKept'
  <2>1. PICK it \in interns' : it.str = p /\ text'[it.str] = s
    BY <1>5
  <2>2. is_keyword_name(p) <=> IsKeyword(text'[p])
    <3>1. InternsCanonical' /\ KEYWORDS \in Seq(Strings)
      BY <1>2, KeywordsAssumption DEF InternIInv
    <3>2. is_keyword_name(p) => IsKeyword(text'[p])
      BY <1>1, <1>7, <2>1 DEF Span, is_keyword_name, IsKeyword
    <3>3. ASSUME NEW j \in DOMAIN KEYWORDS, KEYWORDS[j] = text'[p] PROVE is_keyword_name(p)
      <4>1. /\ j \in 1 .. Len(keywords) /\ 1 \in 1 .. Len(keywords)
            /\ Len(keywords) \in 1 .. Len(keywords) /\ 1 <= j /\ j <= Len(keywords)
        BY <1>1, <3>1, KeywordsAssumption, LenProperties DEF Span, KeywordsTypeOK
      <4>2. PICK jt \in interns' : jt.str = keywords[j] /\ text'[jt.str] = KEYWORDS[j]
        BY <1>1, <1>6, <4>1 DEF KeywordEntries
      <4>3. p = keywords[j]
        BY <2>1, <3>1, <3>3, <4>2 DEF InternsCanonical
      <4> QED BY <1>1, <4>1, <4>3 DEF Span, Ascending, is_keyword_name
    <3> QED BY <3>2, <3>3 DEF IsKeyword
  <2>3. token'.name = p /\ (token'.kind = "KEYWORD" <=> is_keyword_name(p))
    BY <1>1
  <2> QED BY <2>1, <2>2, <2>3 DEF TokenKept, IsKeyword
<1> QED BY <1>2, <1>3, <1>4, <1>6, <1>7, <1>8 DEF KeywordsIInv

LEMMA OtherStepsKeepKeywords ==
  ASSUME KeywordsIInv, Dies \/ Parser \/ UNCHANGED vars
  PROVE  KeywordsIInv'
<1>1. /\ InternIInv /\ ArenaIInv /\ ArenaTypeOK /\ StrArena \in Arenas
      /\ \A s \in Strings : Len(s) + 1 \in Sizes
  BY InternAssumption DEF KeywordsIInv, InternIInv, ArenaIInv
<1>2. UNCHANGED keywordVars
  BY DEF Dies, Parser, vars
<1>3. (\E s \in Strings : AddRangeDies(s)) \/ OtherArena \/ UNCHANGED allVars
  <2>1. BOOT \subseteq Strings
    BY KeywordsAssumption
  <2>2. \A i \in 1 .. Len(KEYWORDS) : KEYWORDS[i] \in Strings
    BY KeywordsAssumption, ElementOfSeq
  <2>3. Len(keywords) \in Nat /\ Len(KEYWORDS) \in Nat
    BY KeywordsAssumption, LenProperties DEF KeywordsIInv, KeywordsTypeOK
  <2> QED BY <2>1, <2>2, <2>3 DEF Dies, Parser, vars
<1>4. InternIInv' /\ TableKept
  BY <1>1, <1>3, OtherStepsKeepIInv
<1>5. /\ heap \subseteq heap'
      /\ ptr'[StrArena] = ptr[StrArena] /\ end'[StrArena] = end[StrArena]
  <2>1. ASSUME NEW s \in Strings, AddRangeDies(s)
        PROVE  UNCHANGED <<ptr, end, heap>>
    BY <2>1 DEF AddRangeDies, AllocDies
  <2>2. ASSUME NEW a \in Arenas \ {StrArena}, NEW size \in Sizes, NEW p \in Addr,
               Alloc(a, size, p)
        PROVE  /\ heap \subseteq heap'
               /\ ptr'[StrArena] = ptr[StrArena] /\ end'[StrArena] = end[StrArena]
    BY <1>1, <2>2 DEF Alloc, Bump, ArenaTypeOK
  <2>3. ASSUME NEW a \in Arenas, NEW size \in Sizes, AllocDies(a, size)
        PROVE  UNCHANGED <<ptr, end, heap>>
    BY <2>3 DEF AllocDies
  <2>4. UNCHANGED allVars => UNCHANGED <<ptr, end, heap>>
    BY DEF allVars, arenaVars
  <2> QED BY <1>3, <2>1, <2>2, <2>3, <2>4 DEF OtherArena
<1> QED BY <1>2, <1>4, <1>5, QuietKeepsIInv

(* The inductive invariant holds in every reachable state.                 *)
THEOREM KeywordsInvariant == Spec => []KeywordsIInv
<1>1. KeywordsIInv /\ [Next]_vars => KeywordsIInv'
  BY InternTestKeepsIInv, InitBeginsKeepsIInv, KEYWORDKeepsIInv, InitEndsKeepsIInv,
     IdentifierKeepsIInv, OtherStepsKeepKeywords DEF Next
<1> QED BY <1>1, KeywordsInitIInv, PTL DEF Spec

(* The token kind and the range test tell keywords from names: the assert  *)
(* of init is all that this takes, whatever the addresses malloc returns.  *)
THEOREM KeywordsAreExact == Spec => []KeywordsExact
<1>1. KeywordsIInv => KeywordsExact
  BY SpanExact DEF KeywordsExact, KeywordsIInv, TokenKept
<1> QED BY <1>1, KeywordsInvariant, PTL

(* Every variable keeps its shape, the list of keywords its length.        *)
THEOREM KeywordsTypeCorrect == Spec => []KeywordsTypeOK
<1>1. KeywordsIInv => KeywordsTypeOK
  BY DEF KeywordsIInv
<1> QED BY <1>1, KeywordsInvariant, PTL
=============================================================================
