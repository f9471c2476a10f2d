------------------------------- MODULE Types -------------------------------
(***************************************************************************)
(* The types of src/src/Resolve.cpp.  Pointer, array and function types    *)
(* are made once for each structure and found again in a cache, so that    *)
(* comparing types is comparing pointers; a struct or union type is new at *)
(* every call.  The caches are kept as sets: TypesCanonical shows that the *)
(* order of a search does not matter while callers keep their arrays.      *)
(***************************************************************************)
EXTENDS Integers, Sequences

CONSTANTS
  TypeAddrs,            \* where a Type may be
  type_int, type_float, \* the types every program starts with
  ArraySizes,
  Buffers,              \* arrays of types that callers pass to type_func
  Listed,               \* bound: the types that callers put in them
  MaxParams,            \* bound: their length
  CallersRewrite        \* whether a caller writes to an array it has passed

ASSUME TypesAssumption ==
  /\ {type_int, type_float} \subseteq TypeAddrs /\ type_int # type_float
  /\ MaxParams \in Nat
  /\ CallersRewrite \in BOOLEAN

VARIABLES
  types,              \* the structure of the Type at each address in use
  cached_ptr_types, cached_array_types, cached_func_types,
  memory,             \* what the callers' arrays hold
  answer,             \* ghost: the structure last asked for and the type returned
  status              \* "run" or "exit" (xcalloc got null)

caches   == <<cached_ptr_types, cached_array_types, cached_func_types>>
typeVars == <<types, caches, memory, answer, status>>

(* A structure: the kind, and the members of the union it uses. *)
Ptr(base)         == [kind |-> "PTR", base |-> base]
Array(base, size) == [kind |-> "ARRAY", base |-> base, size |-> size]
Func(params, ret) == [kind |-> "FUNC", params |-> params, ret |-> ret]
Cached == {"PTR", "ARRAY", "FUNC"}

ParamLists == UNION {[1 .. n -> DOMAIN types \intersect Listed] : n \in 0 .. MaxParams}

(* Whatever a cache or an answer refers to is a type that has been made:   *)
(* a Type is filled in before it is cached or returned.                    *)
TypesTypeOK ==
  /\ DOMAIN types \subseteq TypeAddrs
  /\ \A it \in cached_ptr_types : {it.base, it.ptr} \subseteq DOMAIN types
  /\ \A it \in cached_array_types : {it.base, it.array} \subseteq DOMAIN types
  /\ \A it \in cached_func_types : {it.ret, it.func} \subseteq DOMAIN types
  /\ \A it \in cached_func_types : it.params \in Buffers /\ it.num_params \in 0 .. MaxParams
  /\ memory \in [Buffers -> ParamLists]
  /\ answer.type \in DOMAIN types
  /\ status \in {"run", "exit"}

TypesInit ==
  /\ types = [t \in {type_int, type_float} |->
                [kind |-> IF t = type_int THEN "INT" ELSE "FLOAT"]]
  /\ cached_ptr_types = {} /\ cached_array_types = {} /\ cached_func_types = {}
  /\ memory = [b \in Buffers |-> << >>]
  /\ answer = [asked |-> types[type_int], type |-> type_int]
  /\ status = "run"

(* Slips: a new type never filled in;                                      *)
New_unwritten(t, structure) ==
  /\ t \in TypeAddrs \ DOMAIN types
  /\ UNCHANGED types

(* type_alloc, and the assignments to the new type: it is at t. *)
New(t, structure) ==
  /\ t \in TypeAddrs \ DOMAIN types
  /\ types' = [u \in DOMAIN types \union {t} |-> IF u = t THEN structure ELSE types[u]]

Answer(structure, t) ==
  /\ answer' = [asked |-> structure, type |-> t]
  /\ status = "run"
  /\ UNCHANGED <<memory, status>>

(* a type not put in its cache;                                            *)
type_ptr_uncached(base, t) ==
  /\ New(t, Ptr(base))
  /\ Answer(Ptr(base), t)
  /\ UNCHANGED caches

type_ptr(base, t) ==
  /\ LET found == {it \in cached_ptr_types : it.base = base}
     IN  \/ /\ \E it \in found : t = it.ptr
            /\ UNCHANGED <<types, cached_ptr_types>>
         \/ /\ found = {} /\ New(t, Ptr(base))
            /\ cached_ptr_types' = cached_ptr_types \union {[base |-> base, ptr |-> t]}
  /\ Answer(Ptr(base), t)
  /\ UNCHANGED <<cached_array_types, cached_func_types>>

type_array(base, size, t) ==
  /\ LET found == {it \in cached_array_types : it.base = base /\ it.size = size}
     IN  \/ /\ \E it \in found : t = it.array
            /\ UNCHANGED <<types, cached_array_types>>
         \/ /\ found = {} /\ New(t, Array(base, size))
            /\ cached_array_types' =
                 cached_array_types \union {[base |-> base, size |-> size, array |-> t]}
  /\ Answer(Array(base, size), t)
  /\ UNCHANGED <<cached_ptr_types, cached_func_types>>

(* the arrays' addresses compared and not what they hold;                  *)
SameParams_address(it, params, num_params) == it.params = params

(* only the first parameters compared.                                     *)
SameParams_first(it, params, num_params) ==
  num_params > 0 => memory[it.params][1] = memory[params][1]

(* The type keeps a copy of the array params, the cache its address. *)
SameParams(it, params, num_params) ==
  \A i \in 1 .. num_params : memory[it.params][i] = memory[params][i]

type_func(params, num_params, ret, t) ==
  LET signature == Func(SubSeq(memory[params], 1, num_params), ret)
      found == {it \in cached_func_types :
                  /\ it.num_params = num_params /\ it.ret = ret
                  /\ SameParams(it, params, num_params)}
  IN  /\ num_params <= Len(memory[params])
      /\ \/ /\ \E it \in found : t = it.func
            /\ UNCHANGED <<types, cached_func_types>>
         \/ /\ found = {} /\ New(t, signature)
            /\ cached_func_types' =
                 cached_func_types \union
                   {[params |-> params, num_params |-> num_params, ret |-> ret, func |-> t]}
      /\ Answer(signature, t)
      /\ UNCHANGED <<cached_ptr_types, cached_array_types>>

(* type_struct and type_union; their fields carry the types of an array.   *)
type_aggregate(kind, fields, t) ==
  LET structure == [kind |-> kind, fields |-> memory[fields]]
  IN  /\ New(t, structure)
      /\ Answer(structure, t)
      /\ UNCHANGED caches

(* xcalloc exits when calloc returns null: out of memory, or asked for the *)
(* zero bytes of an empty array of params or fields.                       *)
XCallocFails ==
  /\ status = "run" /\ status' = "exit"
  /\ UNCHANGED <<types, caches, memory, answer>>

(* A caller fills an array, before it first passes it or, if it rewrites,  *)
(* whenever it likes.                                                      *)
Fill(b, list) ==
  /\ status = "run"
  /\ CallersRewrite \/ \A it \in cached_func_types : it.params # b
  /\ memory' = [memory EXCEPT ![b] = list]
  /\ UNCHANGED <<types, caches, answer, status>>

TypesNext ==
  \/ \E base \in DOMAIN types, t \in TypeAddrs : type_ptr(base, t)
  \/ \E base \in DOMAIN types, size \in ArraySizes, t \in TypeAddrs : type_array(base, size, t)
  \/ \E params \in Buffers, num_params \in 0 .. MaxParams, ret \in DOMAIN types, t \in TypeAddrs :
       type_func(params, num_params, ret, t)
  \/ \E kind \in {"STRUCT", "UNION"}, fields \in Buffers, t \in TypeAddrs :
       type_aggregate(kind, fields, t)
  \/ XCallocFails
  \/ \E b \in Buffers, list \in ParamLists : Fill(b, list)

TypesSpec == TypesInit /\ [][TypesNext]_typeVars

-----------------------------------------------------------------------------
(* Types of equal structure are one type, struct and union types excepted: *)
(* what resolve_test asserts of pointers, arrays and functions.            *)
TypesCanonical ==
  \A t, u \in DOMAIN types :
    types[t].kind \in Cached /\ types[t] = types[u] => t = u

(* The type returned has the structure asked for: what is found in a cache *)
(* was made for the same members, though only the structures of the types  *)
(* and not the cache hold the members for certain.                         *)
AnswerServes == types[answer.type] = answer.asked

(* The structures that are made once, as interned keys. *)
Structures ==
  {Ptr(b) : b \in TypeAddrs} \union {Array(b, n) : b \in TypeAddrs, n \in ArraySizes}
    \union {Func(list, r) : list \in UNION {[1 .. n -> TypeAddrs] : n \in 0 .. MaxParams},
                            r \in TypeAddrs}

Interner == INSTANCE InternTable WITH
  Strings <- Structures, Pointers <- TypeAddrs,
  table <- {<<types[t], t>> : t \in {u \in DOMAIN types : types[u].kind \in Cached}}

(* The caches implement interning of structures. *)
ImplementsInterner == Interner!Spec
=============================================================================
