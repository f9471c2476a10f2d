--------------------------- MODULE SymbolsProofs ---------------------------
(***************************************************************************)
(* Theorems about Symbols, for every set of names and declarations and     *)
(* every arena.                                                            *)
(***************************************************************************)
EXTENDS Symbols, StringInternProofs

(* The inductive invariant: that of the intern table, one symbol for each  *)
(* interned name, and none that is marked.                                 *)
SymbolsIInv ==
  /\ InternIInv
  /\ SymbolsTypeOK
  /\ \A i \in DOMAIN syms : syms[i].state = "UNRESOLVED"

bound == {<<text[syms[i].name], syms[i].decl>> : i \in DOMAIN syms}

LEMMA SymbolsInitIInv == SymbolsInit => SymbolsIInv /\ Symbol!Init
<1> SUFFICES ASSUME SymbolsInit PROVE SymbolsIInv /\ Symbol!Init
  OBVIOUS
<1>1. InternIInv /\ InternTypeOK
  BY InternInitIInv DEF SymbolsInit, InternIInv
<1>2. syms = << >> /\ DOMAIN syms = {} /\ answer = [asked |-> << >>, decl |-> nullptr]
  BY DEF SymbolsInit
<1> QED BY <1>1, <1>2, EmptySeq DEF SymbolsIInv, SymbolsTypeOK, Symbol!Init

(* A step of the intern table or of the arenas moves no name.              *)
LEMMA InternStepKeepsIInv ==
  ASSUME SymbolsIInv, [InternNext]_allVars, UNCHANGED symVars
  PROVE  SymbolsIInv' /\ UNCHANGED <<bound, answer>>
<1>1. /\ InternIInv'
      /\ \A it \in interns : it \in interns' /\ text'[it.str] = text[it.str]
  <2>1. ASSUME NEW s \in Strings, NEW p \in Addr, Appended(s, p)
        PROVE  \A it \in interns : it \in interns' /\ text'[it.str] = text[it.str]
    BY <2>1 DEF Appended
  <2>2. CASE InternIInv' /\ (UNCHANGED internVars \/ TableKept)
    BY <2>2 DEF internVars, TableKept
  <2> QED BY <2>1, <2>2, AddRangeKeepsIInv, OtherStepsKeepIInv DEF SymbolsIInv, InternNext
<1>2. syms' = syms /\ answer' = answer /\ SymbolsTypeOK /\ InternTypeOK'
  BY <1>1 DEF symVars, SymbolsIInv, InternIInv
<1>3. \A i \in DOMAIN syms : text'[syms[i].name] = text[syms[i].name]
  BY <1>1, <1>2 DEF SymbolsTypeOK
<1>4. bound' = bound
  BY <1>2, <1>3 DEF bound
<1>5. SymbolsTypeOK'
  BY <1>1, <1>2 DEF SymbolsTypeOK
<1> QED BY <1>1, <1>2, <1>4, <1>5 DEF SymbolsIInv

(* Comparing pointers, the search finds the declaration of the spelling.   *)
LEMMA SearchBySpelling ==
  ASSUME SymbolsIInv, NEW it \in interns
  PROVE  /\ text[it.str] \in Strings
         /\ sym_get(it.str) = {} <=> ~Symbol!Declared(text[it.str])
         /\ \A i \in sym_get(it.str) :
              /\ i \in DOMAIN syms /\ syms[i] \in Sym
              /\ <<text[it.str], syms[i].decl>> \in bound
<1>1. \A i \in DOMAIN syms : \E jt \in interns : syms[i].name = jt.str
  BY DEF SymbolsIInv, SymbolsTypeOK
<1>2. \A i \in DOMAIN syms : text[syms[i].name] = text[it.str] <=> syms[i].name = it.str
  BY <1>1 DEF SymbolsIInv, InternIInv, InternsCanonical
<1>3. syms \in Seq(Sym) /\ DOMAIN syms = 1 .. Len(syms) /\ Len(syms) \in Nat
  BY LenProperties DEF SymbolsIInv, SymbolsTypeOK
<1>4. sym_get(it.str) = {i \in DOMAIN syms : syms[i].name = it.str}
  <2>1. \A i, j \in DOMAIN syms : syms[i].name = syms[j].name => i = j
    BY DEF SymbolsIInv, SymbolsTypeOK
  <2>2. ASSUME NEW i \in DOMAIN syms, syms[i].name = it.str, NEW j \in 1 .. i - 1
        PROVE  syms[j].name # it.str
    BY <1>3, <2>1, <2>2
  <2> QED BY <2>2 DEF sym_get
<1>5. Symbol!Declared(text[it.str]) <=> \E i \in DOMAIN syms : text[syms[i].name] = text[it.str]
  <2>1. \A i \in DOMAIN syms : <<text[syms[i].name], syms[i].decl>>[1] = text[syms[i].name]
    OBVIOUS
  <2> QED BY <2>1 DEF Symbol!Declared
<1>6. \A i \in DOMAIN syms : syms[i] \in Sym /\ <<text[syms[i].name], syms[i].decl>> \in bound
  BY <1>3, ElementOfSeq DEF bound
<1>7. text[it.str] \in Strings
  BY DEF SymbolsIInv, InternIInv, EntriesSpelled
<1> QED BY <1>2, <1>4, <1>5, <1>6, <1>7

(* A call on the symbols leaves the memory and the strings alone.          *)
LEMMA MemoryKept ==
  ASSUME SymbolsIInv, UNCHANGED <<ptr, end, blocks, heap, freed, allocs, internVars>>,
         status' \in {"run", "exit", "abort"}
  PROVE  InternIInv'
<1>1. UNCHANGED <<ptr, end, blocks, heap, freed, allocs, interns, text>>
  BY DEF internVars
<1> QED BY <1>1
     DEF SymbolsIInv, InternIInv, InternTypeOK, EntriesAllocated, EntriesSpelled, InternsCanonical,
         ArenaIInv, ArenaTypeOK, HeapApart, BlockShape, BlocksInHeap, FreeAllLeaksNothing,
         TailInBlock, TailFree, AllocsShape, AllocsApart, AllocsMapped, Live

(* A call that changes no symbol but may answer one.                       *)
LEMMA AnswerKeepsIInv ==
  ASSUME SymbolsIInv, UNCHANGED <<ptr, end, blocks, heap, freed, allocs, internVars, syms>>,
         status' \in {"run", "exit", "abort"},
         NEW s \in Strings, NEW d \in Decls \union {nullptr, Refused},
         answer' = answer \/ answer' = [asked |-> s, decl |-> d]
  PROVE  SymbolsIInv' /\ UNCHANGED bound
<1>1. InternIInv'
  BY MemoryKept
<1>2. UNCHANGED <<syms, interns, text>> /\ InternTypeOK'
  BY <1>1 DEF internVars, InternIInv
<1>3. SymbolsTypeOK'
  BY <1>2 DEF SymbolsIInv, SymbolsTypeOK
<1> QED BY <1>1, <1>2, <1>3 DEF SymbolsIInv, bound

(* A declaration put under a name that had none.                           *)
LEMMA PutKeepsIInv ==
  ASSUME SymbolsIInv, NEW decl \in Decls, NEW it \in interns, sym_put(decl, it.str), status = "run"
  PROVE  SymbolsIInv' /\ [Symbol!Next]_<<bound, answer>>
<1> DEFINE s == text[it.str]
           new == [name |-> it.str, decl |-> decl, state |-> "UNRESOLVED"]
<1>1. /\ s \in Strings
      /\ sym_get(it.str) = {} <=> ~Symbol!Declared(s)
  BY SearchBySpelling
<1>2. CASE sym_get(it.str) # {} /\ status' = "abort"
  <2>1. /\ answer' = [asked |-> s, decl |-> Refused]
        /\ UNCHANGED <<ptr, end, blocks, heap, freed, allocs, internVars, syms>>
    BY <1>2 DEF sym_put, Answer
  <2>2. SymbolsIInv' /\ UNCHANGED bound
    BY <1>1, <1>2, <2>1, AnswerKeepsIInv
  <2>3. Symbol!Refuse(s)
    BY <1>1, <1>2, <2>1, <2>2 DEF Symbol!Refuse, bound
  <2> QED BY <1>1, <2>2, <2>3 DEF Symbol!Next
<1>3. CASE sym_get(it.str) = {} /\ syms' = Append(syms, new)
  <2>1. /\ answer' = [asked |-> s, decl |-> decl]
        /\ UNCHANGED <<ptr, end, blocks, heap, freed, allocs, internVars, status>>
    BY <1>3 DEF sym_put, Answer, arenaVars
  <2>2. InternIInv' /\ InternTypeOK' /\ UNCHANGED <<interns, text>>
    BY <2>1, MemoryKept DEF internVars, InternIInv, SymbolsIInv, ArenaIInv, ArenaTypeOK
  <2>3. /\ syms \in Seq(Sym) /\ Len(syms) \in Nat /\ DOMAIN syms = 1 .. Len(syms)
        /\ new \in Sym
    BY LenProperties DEF SymbolsIInv, SymbolsTypeOK, Sym, SymState, InternTypeOK, Intern
  <2>4. /\ syms' \in Seq(Sym) /\ DOMAIN syms' = DOMAIN syms \union {Len(syms) + 1}
        /\ Len(syms) + 1 \notin DOMAIN syms
        /\ \A i \in DOMAIN syms : syms'[i] = syms[i]
        /\ syms'[Len(syms) + 1] = new
    BY <1>3, <2>3, AppendProperties, LenProperties
  <2>5. \A i \in DOMAIN syms : syms[i].name # it.str
    <3> SUFFICES ASSUME NEW i \in DOMAIN syms, syms[i].name = it.str PROVE FALSE
      OBVIOUS
    <3>1. <<text[syms[i].name], syms[i].decl>>[1] = s
      OBVIOUS
    <3> QED BY <1>1, <1>3, <3>1 DEF Symbol!Declared
  <2>6. SymbolsTypeOK'
    <3>1. \A i \in DOMAIN syms' : \E jt \in interns' : syms'[i].name = jt.str
      BY <2>2, <2>4 DEF SymbolsIInv, SymbolsTypeOK
    <3>2. \A i, j \in DOMAIN syms' : syms'[i].name = syms'[j].name => i = j
      BY <2>4, <2>5 DEF SymbolsIInv, SymbolsTypeOK
    <3>3. answer' \in [asked: Strings \union {<< >>}, decl: Decls \union {nullptr, Refused}]
      BY <1>1, <2>1
    <3> QED BY <2>2, <2>4, <3>1, <3>2, <3>3 DEF SymbolsTypeOK
  <2>7. SymbolsIInv'
    BY <2>2, <2>4, <2>6 DEF SymbolsIInv
  <2>8. bound' = bound \union {<<s, decl>>}
    <3>1. bound' = {<<text[syms'[i].name], syms'[i].decl>> : i \in DOMAIN syms'}
      BY <2>2 DEF bound
    <3>2. new.name = it.str /\ new.decl = decl
      OBVIOUS
    <3> HIDE DEF new
    <3>3. bound' = {<<text[syms'[i].name], syms'[i].decl>> : i \in DOMAIN syms}
                     \union {<<text[new.name], new.decl>>}
      BY <2>4, <3>1
    <3>4. {<<text[syms'[i].name], syms'[i].decl>> : i \in DOMAIN syms} = bound
      BY <2>4 DEF bound
    <3> QED BY <3>2, <3>3, <3>4
  <2>9. Symbol!Declare(s, decl)
    BY <1>1, <1>3, <2>1, <2>8 DEF Symbol!Declare, bound
  <2> QED BY <1>1, <2>7, <2>9 DEF Symbol!Next
<1> QED BY <1>2, <1>3 DEF sym_put

(* A use of a name, by resolve_name or a search.                           *)
LEMMA UseKeepsIInv ==
  ASSUME SymbolsIInv, NEW it \in interns, resolve_name(it.str) \/ Search(it.str), status = "run"
  PROVE  SymbolsIInv' /\ [Symbol!Next]_<<bound, answer>>
<1> DEFINE s == text[it.str]
<1>1. /\ s \in Strings
      /\ sym_get(it.str) = {} <=> ~Symbol!Declared(s)
      /\ \A i \in sym_get(it.str) : /\ syms[i] \in Sym /\ syms[i].state = "UNRESOLVED"
                                    /\ <<s, syms[i].decl>> \in bound
  BY SearchBySpelling DEF SymbolsIInv
<1>2. /\ UNCHANGED <<ptr, end, blocks, heap, freed, allocs, internVars, syms>>
      /\ status' \in {"run", "exit", "abort"}
      /\ \/ \E i \in sym_get(it.str) : answer' = [asked |-> s, decl |-> syms[i].decl]
         \/ sym_get(it.str) = {} /\ answer' = [asked |-> s, decl |-> nullptr]
  <2>1. CASE Search(it.str)
    BY <2>1 DEF Search, Answer, arenaVars
  <2>2. CASE resolve_name(it.str)
    BY <1>1, <2>2 DEF resolve_name, resolve_sym, Answer
  <2> QED BY <2>1, <2>2
<1>3. PICK d \in Decls \union {nullptr} :
        /\ answer' = [asked |-> s, decl |-> d]
        /\ <<s, d>> \in bound \/ (d = nullptr /\ ~Symbol!Declared(s))
  BY <1>1, <1>2 DEF Sym
<1>4. SymbolsIInv' /\ UNCHANGED bound
  BY <1>1, <1>2, <1>3, AnswerKeepsIInv
<1>5. Symbol!Use(s, d)
  BY <1>3, <1>4 DEF Symbol!Use, bound
<1> QED BY <1>1, <1>4, <1>5 DEF Symbol!Next

LEMMA SymbolsStep ==
  ASSUME SymbolsIInv, [SymbolsNext]_<<allVars, symVars>>
  PROVE  SymbolsIInv' /\ [Symbol!Next]_<<bound, answer>>
<1>1. CASE [InternNext]_allVars /\ UNCHANGED symVars
  BY <1>1, InternStepKeepsIInv
<1>2. CASE resolve_syms /\ status = "run"
  <2>1. /\ UNCHANGED <<ptr, end, blocks, heap, freed, allocs, internVars, syms>>
        /\ status' \in {"run", "exit", "abort"} /\ answer' = answer
    BY <1>2 DEF resolve_syms, symVars
  <2>2. InternIInv'
    BY <2>1, MemoryKept
  <2>3. UNCHANGED <<syms, interns, text>> /\ InternTypeOK'
    BY <2>1, <2>2 DEF internVars, InternIInv
  <2> QED BY <2>1, <2>2, <2>3 DEF SymbolsIInv, SymbolsTypeOK, bound
<1>3. CASE UNCHANGED <<allVars, symVars>>
  BY <1>3, InternStepKeepsIInv
<1> QED BY <1>1, <1>2, <1>3, PutKeepsIInv, UseKeepsIInv DEF SymbolsNext, Uses

-----------------------------------------------------------------------------
(* The inductive invariant holds in every reachable state.                 *)
THEOREM SymbolsInvariant == SymbolsSpec => []SymbolsIInv
BY SymbolsInitIInv, SymbolsStep, PTL DEF SymbolsSpec

(* Every symbol has the pointer of an interned name, and no other symbol   *)
(* has it.                                                                 *)
THEOREM SymbolsTypeCorrect == SymbolsSpec => []SymbolsTypeOK
<1>1. SymbolsIInv => SymbolsTypeOK
  BY DEF SymbolsIInv
<1> QED BY <1>1, SymbolsInvariant, PTL

(* Symbols found by pointer implement a table by spelling.                 *)
THEOREM SymbolsImplementTable == SymbolsSpec => ImplementsSymbols
<1>1. SymbolsIInv /\ [SymbolsNext]_<<allVars, symVars>> => [Symbol!Next]_<<bound, answer>>
  BY SymbolsStep
<1>2. SymbolsInit => Symbol!Init
  BY SymbolsInitIInv
<1> QED BY <1>1, <1>2, SymbolsInvariant, PTL DEF SymbolsSpec, ImplementsSymbols, Symbol!Spec, bound
=============================================================================
