---------------------------- MODULE TypesProofs ----------------------------
(***************************************************************************)
(* Theorems about Types: while callers keep the arrays they pass, the      *)
(* caches of src/src/Resolve.cpp make one type for each structure, for     *)
(* every number of addresses, arrays and parameters.                       *)
(***************************************************************************)
EXTENDS Types, TLAPS

-----------------------------------------------------------------------------
(* The inductive invariant.  An entry of a cache stands for a type of its  *)
(* own structure (CachesSound) and every type that is to be made once has  *)
(* an entry (CachesComplete): a search that finds nothing then shows that  *)
(* the structure is new.                                                   *)
Signature(it) == Func(SubSeq(memory[it.params], 1, it.num_params), it.ret)

CachesSound ==
  /\ \A it \in cached_ptr_types : types[it.ptr] = Ptr(it.base)
  /\ \A it \in cached_array_types : types[it.array] = Array(it.base, it.size)
  /\ \A it \in cached_func_types :
       it.num_params <= Len(memory[it.params]) /\ types[it.func] = Signature(it)

CompleteAt(t) ==
  /\ types[t].kind = "PTR" => \E it \in cached_ptr_types : it.ptr = t
  /\ types[t].kind = "ARRAY" => \E it \in cached_array_types : it.array = t
  /\ types[t].kind = "FUNC" => \E it \in cached_func_types : it.func = t

CachesComplete == \A t \in DOMAIN types : CompleteAt(t)

TypesIInv ==
  /\ TypesTypeOK
  /\ CachesSound /\ CachesComplete
  /\ TypesCanonical /\ AnswerServes

-----------------------------------------------------------------------------
(* The lists of parameters are sequences, and remain lists when there are  *)
(* more types.                                                             *)
LEMMA ListsAreSequences ==
  ASSUME TypesAssumption, NEW list \in ParamLists
  PROVE  list \in Seq(DOMAIN types) /\ Len(list) \in 0 .. MaxParams
<1>1. PICK n \in 0 .. MaxParams : list \in [1 .. n -> DOMAIN types \intersect Listed]
  BY DEF ParamLists
<1>2. n \in Nat
  BY DEF TypesAssumption
<1>3. list \in [1 .. n -> DOMAIN types]
  BY <1>1
<1> QED BY <1>1, <1>2, <1>3

LEMMA ListsRemain ==
  ASSUME DOMAIN types \subseteq DOMAIN types'
  PROVE  ParamLists \subseteq ParamLists'
<1>1. SUFFICES ASSUME NEW n \in 0 .. MaxParams,
                      NEW list \in [1 .. n -> DOMAIN types \intersect Listed]
               PROVE  list \in [1 .. n -> DOMAIN types' \intersect Listed]
  BY DEF ParamLists
<1> QED OBVIOUS

(* The beginning of a sequence is a list of its own length. *)
LEMMA Beginning ==
  ASSUME NEW S, NEW s \in Seq(S), NEW m \in 0 .. Len(s)
  PROVE  SubSeq(s, 1, m) \in [1 .. m -> S]
<1> DEFINE list == SubSeq(s, 1, m)
<1>1. list \in Seq(S) /\ Len(list) = m
  OBVIOUS
<1> HIDE DEF list
<1>2. list \in [1 .. Len(list) -> S]
  BY <1>1
<1> QED BY <1>1, <1>2 DEF list

(* Two beginnings are equal when they are as long and element by element.  *)
LEMMA PrefixesEqual ==
  ASSUME NEW S, NEW s \in Seq(S), NEW t \in Seq(S), NEW m \in 0 .. Len(s), NEW n \in 0 .. Len(t)
  PROVE  SubSeq(s, 1, m) = SubSeq(t, 1, n) <=> m = n /\ \A i \in 1 .. m : s[i] = t[i]
<1>1. /\ SubSeq(s, 1, m) \in Seq(S) /\ Len(SubSeq(s, 1, m)) = m
      /\ \A i \in 1 .. m : SubSeq(s, 1, m)[i] = s[i]
  OBVIOUS
<1>2. /\ SubSeq(t, 1, n) \in Seq(S) /\ Len(SubSeq(t, 1, n)) = n
      /\ \A i \in 1 .. n : SubSeq(t, 1, n)[i] = t[i]
  OBVIOUS
<1> QED BY <1>1, <1>2

(* A structure determines its kind and its members. *)
LEMMA Members ==
  /\ \A b : Ptr(b).kind = "PTR" /\ Ptr(b).base = b
  /\ \A b, n : Array(b, n).kind = "ARRAY" /\ Array(b, n).base = b /\ Array(b, n).size = n
  /\ \A l, r : Func(l, r).kind = "FUNC" /\ Func(l, r).params = l /\ Func(l, r).ret = r
BY DEF Ptr, Array, Func

LEMMA FuncEqual ==
  ASSUME NEW l, NEW r, NEW m, NEW q
  PROVE  Func(l, r) = Func(m, q) <=> l = m /\ r = q
<1>1. Func(l, r).params = l /\ Func(l, r).ret = r /\ Func(m, q).params = m /\ Func(m, q).ret = q
  BY Members
<1> QED BY <1>1

(* What is known of a new type. *)
LEMMA NewType ==
  ASSUME NEW t, NEW structure, New(t, structure)
  PROVE  /\ t \in TypeAddrs /\ t \notin DOMAIN types
         /\ DOMAIN types' = DOMAIN types \union {t}
         /\ types'[t] = structure
         /\ \A u \in DOMAIN types : types'[u] = types[u]
BY DEF New

-----------------------------------------------------------------------------
(* Types are filled in before they are cached or returned, whatever the    *)
(* callers do.                                                             *)
LEMMA TypeOKInit == ASSUME TypesAssumption, TypesInit PROVE TypesTypeOK
<1> USE DEF TypesInit
<1>1. DOMAIN types = {type_int, type_float}
  OBVIOUS
<1>2. << >> \in ParamLists
  <2>1. << >> \in [1 .. 0 -> DOMAIN types \intersect Listed]
    OBVIOUS
  <2>2. 0 \in 0 .. MaxParams
    BY DEF TypesAssumption
  <2> QED BY <2>1, <2>2 DEF ParamLists
<1> QED BY <1>1, <1>2 DEF TypesTypeOK, TypesAssumption

(* The parts of the step that are alike: nothing new, or a type at t.      *)
LEMMA MemoryRemains ==
  ASSUME TypesTypeOK, UNCHANGED memory, DOMAIN types \subseteq DOMAIN types'
  PROVE  memory' \in [Buffers -> ParamLists']
BY ListsRemain DEF TypesTypeOK

LEMMA TypeOKNext ==
  ASSUME TypesAssumption, TypesTypeOK, [TypesNext]_typeVars
  PROVE  TypesTypeOK'
<1>1. ASSUME NEW base \in DOMAIN types, NEW t \in TypeAddrs, type_ptr(base, t) PROVE TypesTypeOK'
  <2>1. /\ DOMAIN types' = DOMAIN types \union {t}
        /\ cached_ptr_types' \subseteq cached_ptr_types \union {[base |-> base, ptr |-> t]}
    BY <1>1, NewType DEF type_ptr, TypesTypeOK
  <2>2. memory' \in [Buffers -> ParamLists']
    BY <1>1, <2>1, MemoryRemains DEF type_ptr, Answer
  <2> QED BY <1>1, <2>1, <2>2 DEF TypesTypeOK, type_ptr, Answer
<1>2. ASSUME NEW base \in DOMAIN types, NEW size \in ArraySizes, NEW t \in TypeAddrs,
             type_array(base, size, t)
      PROVE  TypesTypeOK'
  <2>1. /\ DOMAIN types' = DOMAIN types \union {t}
        /\ cached_array_types' \subseteq
             cached_array_types \union {[base |-> base, size |-> size, array |-> t]}
    BY <1>2, NewType DEF type_array, TypesTypeOK
  <2>2. memory' \in [Buffers -> ParamLists']
    BY <1>2, <2>1, MemoryRemains DEF type_array, Answer
  <2> QED BY <1>2, <2>1, <2>2 DEF TypesTypeOK, type_array, Answer
<1>3. ASSUME NEW params \in Buffers, NEW num_params \in 0 .. MaxParams, NEW ret \in DOMAIN types,
             NEW t \in TypeAddrs, type_func(params, num_params, ret, t)
      PROVE  TypesTypeOK'
  <2> DEFINE entry == [params |-> params, num_params |-> num_params, ret |-> ret, func |-> t]
  <2>1. /\ DOMAIN types' = DOMAIN types \union {t}
        /\ cached_func_types' \subseteq cached_func_types \union {entry}
    BY <1>3, NewType DEF type_func, TypesTypeOK
  <2>2. memory' \in [Buffers -> ParamLists']
    BY <1>3, <2>1, MemoryRemains DEF type_func, Answer
  <2>3. entry.params \in Buffers /\ entry.num_params \in 0 .. MaxParams /\ entry.ret = ret /\ entry.func = t
    OBVIOUS
  <2> HIDE DEF entry
  <2>4. /\ UNCHANGED <<status, cached_ptr_types, cached_array_types>> /\ answer'.type = t
    BY <1>3 DEF type_func, Answer
  <2> QED BY <2>1, <2>2, <2>3, <2>4 DEF TypesTypeOK
<1>4. ASSUME NEW kind \in {"STRUCT", "UNION"}, NEW fields \in Buffers, NEW t \in TypeAddrs,
             type_aggregate(kind, fields, t)
      PROVE  TypesTypeOK'
  <2>1. DOMAIN types' = DOMAIN types \union {t}
    BY <1>4, NewType DEF type_aggregate
  <2>2. memory' \in [Buffers -> ParamLists']
    BY <1>4, <2>1, MemoryRemains DEF type_aggregate, Answer
  <2> QED BY <1>4, <2>1, <2>2 DEF TypesTypeOK, type_aggregate, Answer, caches
<1>5. ASSUME NEW b \in Buffers, NEW list \in ParamLists, Fill(b, list) PROVE TypesTypeOK'
  BY <1>5 DEF TypesTypeOK, Fill, ParamLists, caches
<1>6. CASE XCallocFails \/ UNCHANGED typeVars
  BY <1>6 DEF TypesTypeOK, XCallocFails, typeVars, ParamLists, caches
<1> QED BY <1>1, <1>2, <1>3, <1>4, <1>5, <1>6 DEF TypesNext

-----------------------------------------------------------------------------
(* One lemma for each step.  In each, a found type answers because its     *)
(* entry is sound, and a type made is new because the caches are complete. *)
LEMMA InitIInv == ASSUME TypesAssumption, TypesInit PROVE TypesIInv
<1> USE DEF TypesInit
<1>1. DOMAIN types = {type_int, type_float} /\ \A t \in DOMAIN types : types[t].kind \notin Cached
  BY DEF Cached
<1>3. TypesTypeOK
  BY TypeOKInit
<1>4. CachesSound /\ CachesComplete
  BY <1>1 DEF CachesSound, CachesComplete, CompleteAt, Cached
<1>5. TypesCanonical /\ AnswerServes
  BY <1>1 DEF TypesCanonical, AnswerServes
<1> QED BY <1>3, <1>4, <1>5 DEF TypesIInv

LEMMA PtrStep ==
  ASSUME TypesAssumption, TypesIInv, TypesTypeOK', NEW base \in DOMAIN types, NEW t, type_ptr(base, t)
  PROVE  TypesIInv'
<1> USE DEF TypesIInv
<1> DEFINE entry == [base |-> base, ptr |-> t]
<1>1. UNCHANGED <<memory, status, cached_array_types, cached_func_types>> /\ status = "run"
      /\ answer' = [asked |-> Ptr(base), type |-> t]
  BY DEF type_ptr, Answer
<1>2. CASE \E it \in cached_ptr_types : it.base = base /\ t = it.ptr /\ UNCHANGED <<types, cached_ptr_types>>
  <2>1. types[t] = Ptr(base) /\ t \in DOMAIN types
    BY <1>2 DEF CachesSound, TypesTypeOK
  <2>3. (CachesSound /\ CachesComplete /\ TypesCanonical)'
    BY <1>1, <1>2 DEF CachesSound, CachesComplete, CompleteAt, TypesCanonical, Signature
  <2>4. AnswerServes'
    BY <1>1, <1>2, <2>1 DEF AnswerServes
  <2> QED BY <2>3, <2>4
<1>3. CASE /\ \A it \in cached_ptr_types : it.base # base
           /\ New(t, Ptr(base))
           /\ cached_ptr_types' = cached_ptr_types \union {entry}
  <2>1. /\ t \in TypeAddrs /\ t \notin DOMAIN types
        /\ DOMAIN types' = DOMAIN types \union {t} /\ types'[t] = Ptr(base)
        /\ \A u \in DOMAIN types : types'[u] = types[u]
    BY <1>3, NewType
  <2>3. CachesSound'
    BY <1>1, <1>3, <2>1 DEF CachesSound, TypesTypeOK, Signature
  <2>4. CachesComplete'
    <3>1. ASSUME NEW u \in DOMAIN types PROVE CompleteAt(u)'
      BY <1>1, <1>3, <2>1 DEF CachesComplete, CompleteAt
    <3>2. CompleteAt(t)'
      <4>1. entry \in cached_ptr_types' /\ entry.ptr = t
        BY <1>3
      <4>2. types'[t].kind = "PTR"
        BY <2>1, Members
      <4> QED BY <4>1, <4>2 DEF CompleteAt
    <3> QED BY <2>1, <3>1, <3>2 DEF CachesComplete
  <2>5. \A u \in DOMAIN types : types[u] # Ptr(base)
    BY <1>3, Members DEF CachesComplete, CompleteAt, CachesSound
  <2>6. TypesCanonical'
    BY <2>1, <2>5 DEF TypesCanonical
  <2>7. AnswerServes'
    BY <1>1, <2>1 DEF AnswerServes
  <2> QED BY <2>3, <2>4, <2>6, <2>7
<1> QED BY <1>2, <1>3 DEF type_ptr

LEMMA ArrayStep ==
  ASSUME TypesAssumption, TypesIInv, TypesTypeOK', NEW base \in DOMAIN types, NEW size, NEW t,
         type_array(base, size, t)
  PROVE  TypesIInv'
<1> USE DEF TypesIInv
<1> DEFINE entry == [base |-> base, size |-> size, array |-> t]
<1>1. UNCHANGED <<memory, status, cached_ptr_types, cached_func_types>> /\ status = "run"
      /\ answer' = [asked |-> Array(base, size), type |-> t]
  BY DEF type_array, Answer
<1>2. CASE \E it \in cached_array_types :
             /\ it.base = base /\ it.size = size /\ t = it.array
             /\ UNCHANGED <<types, cached_array_types>>
  <2>1. types[t] = Array(base, size) /\ t \in DOMAIN types
    BY <1>2 DEF CachesSound, TypesTypeOK
  <2>3. (CachesSound /\ CachesComplete /\ TypesCanonical)'
    BY <1>1, <1>2 DEF CachesSound, CachesComplete, CompleteAt, TypesCanonical, Signature
  <2>4. AnswerServes'
    BY <1>1, <1>2, <2>1 DEF AnswerServes
  <2> QED BY <2>3, <2>4
<1>3. CASE /\ \A it \in cached_array_types : ~(it.base = base /\ it.size = size)
           /\ New(t, Array(base, size))
           /\ cached_array_types' = cached_array_types \union {entry}
  <2>1. /\ t \in TypeAddrs /\ t \notin DOMAIN types
        /\ DOMAIN types' = DOMAIN types \union {t} /\ types'[t] = Array(base, size)
        /\ \A u \in DOMAIN types : types'[u] = types[u]
    BY <1>3, NewType
  <2>3. CachesSound'
    BY <1>1, <1>3, <2>1 DEF CachesSound, TypesTypeOK, Signature
  <2>4. CachesComplete'
    <3>1. ASSUME NEW u \in DOMAIN types PROVE CompleteAt(u)'
      BY <1>1, <1>3, <2>1 DEF CachesComplete, CompleteAt
    <3>2. CompleteAt(t)'
      <4>1. entry \in cached_array_types' /\ entry.array = t
        BY <1>3
      <4>2. types'[t].kind = "ARRAY"
        BY <2>1, Members
      <4> QED BY <4>1, <4>2 DEF CompleteAt
    <3> QED BY <2>1, <3>1, <3>2 DEF CachesComplete
  <2>5. \A u \in DOMAIN types : types[u] # Array(base, size)
    BY <1>3, Members DEF CachesComplete, CompleteAt, CachesSound
  <2>6. TypesCanonical'
    BY <2>1, <2>5 DEF TypesCanonical
  <2>7. AnswerServes'
    BY <1>1, <2>1 DEF AnswerServes
  <2> QED BY <2>3, <2>4, <2>6, <2>7
<1> QED BY <1>2, <1>3 DEF type_array

(* Two signatures are compared by their lengths, their returned types and  *)
(* what the arrays hold: an entry that matches is of an equal signature.   *)
LEMMA FuncMatch ==
  ASSUME TypesAssumption, TypesIInv, NEW params \in Buffers, NEW num_params \in 0 .. MaxParams,
         num_params <= Len(memory[params]), NEW ret, NEW it \in cached_func_types
  PROVE  Signature(it) = Func(SubSeq(memory[params], 1, num_params), ret)
           <=> it.num_params = num_params /\ it.ret = ret /\ SameParams(it, params, num_params)
<1> DEFINE own == memory[it.params]
           other == memory[params]
<1>1. /\ own \in ParamLists /\ other \in ParamLists
      /\ it.num_params \in 0 .. MaxParams /\ it.num_params <= Len(own)
  BY DEF TypesIInv, TypesTypeOK, CachesSound
<1>2. own \in Seq(DOMAIN types) /\ other \in Seq(DOMAIN types)
  BY <1>1, ListsAreSequences
<1>3. it.num_params \in 0 .. Len(own) /\ num_params \in 0 .. Len(other)
  BY <1>1, <1>2 DEF TypesAssumption
<1>4. SubSeq(own, 1, it.num_params) = SubSeq(other, 1, num_params)
        <=> it.num_params = num_params /\ \A i \in 1 .. it.num_params : own[i] = other[i]
  BY <1>2, <1>3, PrefixesEqual
<1>5. Signature(it) = Func(SubSeq(other, 1, num_params), ret)
        <=> SubSeq(own, 1, it.num_params) = SubSeq(other, 1, num_params) /\ it.ret = ret
  <2> DEFINE l == SubSeq(own, 1, it.num_params)
             m == SubSeq(other, 1, num_params)
  <2>1. Signature(it) = Func(l, it.ret)
    BY DEF Signature
  <2> HIDE DEF l, m
  <2>2. Signature(it) = Func(m, ret) <=> l = m /\ it.ret = ret
    BY <2>1, FuncEqual
  <2> QED BY <2>2 DEF l, m
<1> QED BY <1>4, <1>5 DEF SameParams

LEMMA FuncStep ==
  ASSUME TypesAssumption, TypesIInv, TypesTypeOK', NEW params \in Buffers, NEW num_params \in 0 .. MaxParams,
         NEW ret \in DOMAIN types, NEW t, type_func(params, num_params, ret, t)
  PROVE  TypesIInv'
<1> USE DEF TypesIInv
<1> DEFINE signature == Func(SubSeq(memory[params], 1, num_params), ret)
           entry == [params |-> params, num_params |-> num_params, ret |-> ret, func |-> t]
           matches(it) == it.num_params = num_params /\ it.ret = ret /\ SameParams(it, params, num_params)
<1>1. /\ UNCHANGED <<memory, status, cached_ptr_types, cached_array_types>> /\ status = "run"
      /\ answer' = [asked |-> signature, type |-> t]
      /\ num_params <= Len(memory[params])
  BY DEF type_func, Answer
<1>2. \A it \in cached_func_types : types[it.func] = signature <=> matches(it)
  BY <1>1, FuncMatch DEF CachesSound
<1>3. CASE \E it \in cached_func_types : matches(it) /\ t = it.func /\ UNCHANGED <<types, cached_func_types>>
  <2>1. types[t] = signature /\ t \in DOMAIN types
    BY <1>2, <1>3 DEF TypesTypeOK
  <2>3. (CachesSound /\ CachesComplete /\ TypesCanonical)'
    BY <1>1, <1>3 DEF CachesSound, CachesComplete, CompleteAt, TypesCanonical, Signature
  <2>4. AnswerServes'
    BY <1>1, <1>3, <2>1 DEF AnswerServes
  <2> QED BY <2>3, <2>4
<1>4. CASE /\ \A it \in cached_func_types : ~matches(it)
           /\ New(t, signature)
           /\ cached_func_types' = cached_func_types \union {entry}
  <2>1. /\ t \in TypeAddrs /\ t \notin DOMAIN types
        /\ DOMAIN types' = DOMAIN types \union {t} /\ types'[t] = signature
        /\ \A u \in DOMAIN types : types'[u] = types[u]
    BY <1>4, NewType
  <2>3. CachesSound'
    <3>1. Signature(entry)' = signature /\ entry.num_params <= Len(memory'[entry.params])
      BY <1>1 DEF Signature
    <3>2. types'[entry.func] = signature
      BY <2>1
    <3>3. \A it \in cached_func_types :
            it.num_params <= Len(memory'[it.params]) /\ types'[it.func] = Signature(it)'
      BY <1>1, <2>1 DEF CachesSound, TypesTypeOK, Signature
    <3>4. \A it \in cached_func_types' :
            it.num_params <= Len(memory'[it.params]) /\ types'[it.func] = Signature(it)'
      BY <1>4, <3>1, <3>2, <3>3
    <3> QED BY <1>1, <2>1, <3>4 DEF CachesSound, TypesTypeOK
  <2>4. CachesComplete'
    <3>1. ASSUME NEW u \in DOMAIN types PROVE CompleteAt(u)'
      BY <1>1, <1>4, <2>1 DEF CachesComplete, CompleteAt
    <3>2. CompleteAt(t)'
      <4>1. entry \in cached_func_types' /\ entry.func = t
        BY <1>4
      <4>2. types'[t].kind = "FUNC"
        BY <2>1, Members
      <4> QED BY <4>1, <4>2 DEF CompleteAt
    <3> QED BY <2>1, <3>1, <3>2 DEF CachesComplete
  <2>5. \A u \in DOMAIN types : types[u] # signature
    <3>1. SUFFICES ASSUME NEW u \in DOMAIN types, types[u] = signature PROVE FALSE
      OBVIOUS
    <3>2. types[u].kind = "FUNC"
      BY <3>1, Members
    <3>3. PICK it \in cached_func_types : it.func = u
      BY <3>2 DEF CachesComplete, CompleteAt
    <3> QED BY <1>2, <1>4, <3>1, <3>3
  <2>6. TypesCanonical'
    BY <2>1, <2>5 DEF TypesCanonical
  <2>7. AnswerServes'
    BY <1>1, <2>1 DEF AnswerServes
  <2> QED BY <2>3, <2>4, <2>6, <2>7
<1>5. \/ \E it \in cached_func_types : matches(it) /\ t = it.func /\ UNCHANGED <<types, cached_func_types>>
      \/ /\ \A it \in cached_func_types : ~matches(it)
         /\ New(t, signature)
         /\ cached_func_types' = cached_func_types \union {entry}
  BY DEF type_func
<1> QED BY <1>3, <1>4, <1>5

LEMMA AggregateStep ==
  ASSUME TypesAssumption, TypesIInv, TypesTypeOK', NEW kind \in {"STRUCT", "UNION"}, NEW fields \in Buffers, NEW t,
         type_aggregate(kind, fields, t)
  PROVE  TypesIInv'
<1> USE DEF TypesIInv
<1> DEFINE structure == [kind |-> kind, fields |-> memory[fields]]
<1>1. UNCHANGED <<memory, status, caches>> /\ status = "run"
      /\ answer' = [asked |-> structure, type |-> t]
  BY DEF type_aggregate, Answer
<1>2. /\ t \in TypeAddrs /\ t \notin DOMAIN types
      /\ DOMAIN types' = DOMAIN types \union {t} /\ types'[t] = structure
      /\ \A u \in DOMAIN types : types'[u] = types[u]
  BY NewType DEF type_aggregate
<1>3. types'[t].kind \notin Cached
  BY <1>2 DEF Cached
<1>5. CachesSound'
  BY <1>1, <1>2 DEF CachesSound, TypesTypeOK, Signature, caches
<1>6. CachesComplete'
  BY <1>1, <1>2, <1>3 DEF CachesComplete, CompleteAt, Cached, caches
<1>7. TypesCanonical' /\ AnswerServes'
  BY <1>1, <1>2, <1>3 DEF TypesCanonical, AnswerServes
<1> QED BY <1>5, <1>6, <1>7

LEMMA FillStep ==
  ASSUME ~CallersRewrite, TypesIInv, TypesTypeOK', NEW b \in Buffers, NEW list \in ParamLists, Fill(b, list)
  PROVE  TypesIInv'
<1> USE DEF TypesIInv, Fill
<1>1. UNCHANGED <<types, caches, answer, status>> /\ memory' = [memory EXCEPT ![b] = list]
  OBVIOUS
<1>3. \A it \in cached_func_types : memory'[it.params] = memory[it.params]
  BY DEF TypesTypeOK
<1>4. CachesSound'
  BY <1>1, <1>3 DEF CachesSound, Signature, caches
<1>5. (CachesComplete /\ TypesCanonical /\ AnswerServes)'
  BY <1>1 DEF CachesComplete, CompleteAt, TypesCanonical, AnswerServes, caches
<1> QED BY <1>4, <1>5

LEMMA NextIInv ==
  ASSUME TypesAssumption, ~CallersRewrite, TypesIInv, [TypesNext]_typeVars
  PROVE  TypesIInv'
<1>0. TypesTypeOK'
  BY TypeOKNext DEF TypesIInv
<1>1. ASSUME NEW base \in DOMAIN types, NEW t \in TypeAddrs, type_ptr(base, t) PROVE TypesIInv'
  BY <1>0, <1>1, PtrStep
<1>2. ASSUME NEW base \in DOMAIN types, NEW size \in ArraySizes, NEW t \in TypeAddrs,
             type_array(base, size, t)
      PROVE  TypesIInv'
  BY <1>0, <1>2, ArrayStep
<1>3. ASSUME NEW params \in Buffers, NEW num_params \in 0 .. MaxParams, NEW ret \in DOMAIN types,
             NEW t \in TypeAddrs, type_func(params, num_params, ret, t)
      PROVE  TypesIInv'
  BY <1>0, <1>3, FuncStep
<1>4. ASSUME NEW kind \in {"STRUCT", "UNION"}, NEW fields \in Buffers, NEW t \in TypeAddrs,
             type_aggregate(kind, fields, t)
      PROVE  TypesIInv'
  BY <1>0, <1>4, AggregateStep
<1>5. CASE UNCHANGED <<types, caches, memory, answer>>
  BY <1>0, <1>5 DEF TypesIInv, CachesSound, CachesComplete, CompleteAt, TypesCanonical, AnswerServes,
                    Signature, caches
<1>6. ASSUME NEW b \in Buffers, NEW list \in ParamLists, Fill(b, list) PROVE TypesIInv'
  BY <1>0, <1>6, FillStep
<1> QED BY <1>1, <1>2, <1>3, <1>4, <1>5, <1>6 DEF TypesNext, XCallocFails, typeVars

-----------------------------------------------------------------------------
(* type_ptr, type_array and type_func return, and cache, only types that   *)
(* have been made, whatever the callers do with their arrays.              *)
THEOREM TypesTypeCorrect == TypesSpec => []TypesTypeOK
<1>1. TypesInit => TypesTypeOK
  BY TypesAssumption, TypeOKInit
<1>2. TypesTypeOK /\ [TypesNext]_typeVars => TypesTypeOK'
  BY TypesAssumption, TypeOKNext
<1> QED BY <1>1, <1>2, PTL DEF TypesSpec

(* The inductive invariant holds while callers keep their arrays.          *)
THEOREM CachesCorrect == ASSUME ~CallersRewrite PROVE TypesSpec => []TypesIInv
<1>1. TypesInit => TypesIInv
  BY TypesAssumption, InitIInv
<1>2. TypesIInv /\ [TypesNext]_typeVars => TypesIInv'
  BY TypesAssumption, NextIInv
<1> QED BY <1>1, <1>2, PTL DEF TypesSpec

(* Pointers, arrays and functions of equal structure are one type while    *)
(* callers keep the arrays they pass to type_func.                         *)
THEOREM OneTypeEach == ASSUME ~CallersRewrite PROVE TypesSpec => []TypesCanonical
<1>1. TypesIInv => TypesCanonical
  BY DEF TypesIInv
<1> QED BY <1>1, CachesCorrect, PTL

(* The type returned has the structure asked for, under the same condition *)
(* (types_rewrite shows that it is needed).                                *)
THEOREM TypeServes == ASSUME ~CallersRewrite PROVE TypesSpec => []AnswerServes
<1>1. TypesIInv => AnswerServes
  BY DEF TypesIInv
<1> QED BY <1>1, CachesCorrect, PTL

-----------------------------------------------------------------------------
(* The structures interned and the types they were given.                  *)
Made == {<<types[t], t>> : t \in {u \in DOMAIN types : types[u].kind \in Cached}}

(* A new type of a structure made once interns it; any other leaves the    *)
(* interned structures alone.                                              *)
LEMMA NewInterns ==
  ASSUME TypesTypeOK, TypesCanonical', NEW u, NEW structure, New(u, structure),
         structure.kind \in Cached => structure \in Structures
  PROVE  [Interner!Next]_Made
<1>1. /\ u \in TypeAddrs /\ u \notin DOMAIN types
      /\ DOMAIN types' = DOMAIN types \union {u} /\ types'[u] = structure
      /\ \A t \in DOMAIN types : types'[t] = types[t]
  BY NewType
<1>2. CASE structure.kind \notin Cached
  <2>1. Made' = Made
    BY <1>1, <1>2 DEF Made
  <2> QED BY <2>1
<1>3. CASE structure.kind \in Cached
  <2>1. Made' = Made \union {<<structure, u>>}
    <3>1. {t \in DOMAIN types' : types'[t].kind \in Cached}
            = {t \in DOMAIN types : types[t].kind \in Cached} \union {u}
      BY <1>1, <1>3
    <3>2. Made' = {<<types'[t], t>> : t \in {v \in DOMAIN types : types[v].kind \in Cached} \union {u}}
      BY <3>1 DEF Made
    <3> QED BY <1>1, <3>2 DEF Made
  <2>2. \A e \in Made : e[1] # structure /\ e[2] # u
    <3>1. SUFFICES ASSUME NEW t \in DOMAIN types, types[t].kind \in Cached
                   PROVE  types[t] # structure /\ t # u
      BY DEF Made
    <3> QED BY <1>1, <1>3 DEF TypesCanonical
  <2> DEFINE e == <<structure, u>>
  <2>3. e \in Made' /\ e[1] = structure /\ e[2] = u
    BY <2>1
  <2>4. Interner!Intern(structure, u)
    BY <2>1, <2>2 DEF Interner!Intern, Made
  <2>5. e[1] \in Structures /\ e[2] \in TypeAddrs
    BY <1>1, <1>3
  <2> HIDE DEF e
  <2> QED BY <2>3, <2>4, <2>5 DEF Interner!Next, Made
<1> QED BY <1>2, <1>3

(* The structures asked for are those of types that may be.                *)
LEMMA AskedStructures ==
  ASSUME TypesAssumption, TypesTypeOK
  PROVE  /\ \A base \in DOMAIN types : Ptr(base) \in Structures
         /\ \A base \in DOMAIN types, size \in ArraySizes : Array(base, size) \in Structures
         /\ \A params \in Buffers, num_params \in 0 .. MaxParams, ret \in DOMAIN types :
              num_params <= Len(memory[params])
                => Func(SubSeq(memory[params], 1, num_params), ret) \in Structures
<1>1. \A base \in DOMAIN types : Ptr(base) \in Structures
  BY DEF Structures, TypesTypeOK
<1>2. \A base \in DOMAIN types, size \in ArraySizes : Array(base, size) \in Structures
  BY DEF Structures, TypesTypeOK
<1>3. ASSUME NEW params \in Buffers, NEW num_params \in 0 .. MaxParams, NEW ret \in DOMAIN types,
             num_params <= Len(memory[params])
      PROVE  Func(SubSeq(memory[params], 1, num_params), ret) \in Structures
  <2> DEFINE list == SubSeq(memory[params], 1, num_params)
  <2>1. memory[params] \in Seq(DOMAIN types) /\ num_params \in 0 .. Len(memory[params])
    BY <1>3, ListsAreSequences DEF TypesTypeOK, TypesAssumption
  <2>2. list \in [1 .. num_params -> DOMAIN types]
    BY <2>1, Beginning
  <2> HIDE DEF list
  <2>3. list \in [1 .. num_params -> TypeAddrs] /\ ret \in TypeAddrs
    BY <2>2 DEF TypesTypeOK
  <2>4. list \in UNION {[1 .. n -> TypeAddrs] : n \in 0 .. MaxParams}
    BY <2>3
  <2>5. Func(list, ret) \in Structures
    BY <2>3, <2>4 DEF Structures
  <2> QED BY <2>5 DEF list
<1> QED BY <1>1, <1>2, <1>3

(* The caches implement interning: comparing pointers is comparing types,  *)
(* for as long as callers keep their arrays.                               *)
THEOREM TypesImplementInterner == ASSUME ~CallersRewrite PROVE TypesSpec => ImplementsInterner
<1>1. TypesInit => Interner!Init
  BY DEF TypesInit, Interner!Init, Cached
<1>2. TypesIInv /\ TypesIInv' /\ [TypesNext]_typeVars => [Interner!Next]_Made
  <2>1. SUFFICES ASSUME TypesIInv, TypesIInv', [TypesNext]_typeVars PROVE [Interner!Next]_Made
    OBVIOUS
  <2>2. CASE UNCHANGED types
    BY <2>2 DEF Made
  <2>3. ASSUME NEW u, NEW structure, New(u, structure), structure.kind \in Cached => structure \in Structures
        PROVE  [Interner!Next]_Made
    BY <2>1, <2>3, NewInterns DEF TypesIInv
  <2>4. ASSUME NEW base \in DOMAIN types, NEW t \in TypeAddrs, type_ptr(base, t)
        PROVE  [Interner!Next]_Made
    BY <2>1, <2>2, <2>3, <2>4, TypesAssumption, AskedStructures DEF type_ptr, TypesIInv
  <2>5. ASSUME NEW base \in DOMAIN types, NEW size \in ArraySizes, NEW t \in TypeAddrs,
               type_array(base, size, t)
        PROVE  [Interner!Next]_Made
    BY <2>1, <2>2, <2>3, <2>5, TypesAssumption, AskedStructures DEF type_array, TypesIInv
  <2>6. ASSUME NEW params \in Buffers, NEW num_params \in 0 .. MaxParams, NEW ret \in DOMAIN types,
               NEW t \in TypeAddrs, type_func(params, num_params, ret, t)
        PROVE  [Interner!Next]_Made
    BY <2>1, <2>2, <2>3, <2>6, TypesAssumption, AskedStructures DEF type_func, TypesIInv
  <2>7. ASSUME NEW kind \in {"STRUCT", "UNION"}, NEW fields \in Buffers, NEW t \in TypeAddrs,
               type_aggregate(kind, fields, t)
        PROVE  [Interner!Next]_Made
    BY <2>3, <2>7 DEF type_aggregate, Cached
  <2> QED BY <2>1, <2>2, <2>4, <2>5, <2>6, <2>7 DEF TypesNext, XCallocFails, Fill, typeVars
<1> QED BY <1>1, <1>2, CachesCorrect, PTL DEF TypesSpec, ImplementsInterner, Interner!Spec, Made
=============================================================================
