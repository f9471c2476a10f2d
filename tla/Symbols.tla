------------------------------ MODULE Symbols ------------------------------
(***************************************************************************)
(* The symbols of src/src/Resolve.cpp, over the intern table: a symbol     *)
(* keeps the pointer of its name, and a search compares pointers.  Names   *)
(* go on being interned, and the syntax tree goes on growing, between any  *)
(* two calls.                                                              *)
(***************************************************************************)
EXTENDS StringIntern

CONSTANTS
  Decls,         \* the declarations of the program
  nullptr,       \* no declaration
  Refused        \* ghost: the answer to a second declaration

ASSUME SymbolsAssumption == nullptr \notin Decls /\ Refused \notin Decls /\ nullptr # Refused

VARIABLES
  syms,    \* Global::syms
  answer   \* ghost: the spelling last asked for, and what the call found

symVars == <<syms, answer>>

SymState == {"UNRESOLVED", "RESOLVING", "RESOLVED"}
Sym == [name: Addr, decl: Decls, state: SymState]

(* What names a symbol is an interned string, and no two symbols have one  *)
(* name.                                                                   *)
SymbolsTypeOK ==
  /\ InternTypeOK
  /\ syms \in Seq(Sym)
  /\ \A i \in DOMAIN syms : \E it \in interns : syms[i].name = it.str
  /\ \A i, j \in DOMAIN syms : syms[i].name = syms[j].name => i = j
  /\ answer \in [asked: Strings \union {<< >>}, decl: Decls \union {nullptr, Refused}]

SymbolsInit ==
  /\ InternInit
  /\ syms = << >>
  /\ answer = [asked |-> << >>, decl |-> nullptr]

(* The symbols that the search of sym_get stops at: the first of a name. *)
sym_get(name) ==
  {i \in DOMAIN syms : syms[i].name = name /\ \A j \in 1 .. i - 1 : syms[j].name # name}

Answer(name, decl) == answer' = [asked |-> text[name], decl |-> decl]

(* Slip: the assert that the name is new left out.                         *)
sym_put_unchecked(decl, name) ==
  /\ syms' = Append(syms, [name |-> name, decl |-> decl, state |-> "UNRESOLVED"])
  /\ Answer(name, decl)
  /\ UNCHANGED <<arenaVars, internVars>>

(* decl has that name.  Its two asserts: the name is interned, so not null; *)
(* and it is new, or else the process stops.                               *)
sym_put(decl, name) ==
  \/ /\ sym_get(name) = {}
     /\ syms' = Append(syms, [name |-> name, decl |-> decl, state |-> "UNRESOLVED"])
     /\ Answer(name, decl)
     /\ UNCHANGED <<arenaVars, internVars>>
  \/ /\ sym_get(name) # {}
     /\ status' = "abort"
     /\ Answer(name, Refused)
     /\ UNCHANGED <<ptr, end, blocks, heap, freed, allocs, internVars, syms>>

(* Slip: the state set before resolve_decl and not after.                  *)
resolve_sym_marked(i) ==
  /\ status' = IF syms[i].state = "RESOLVING" THEN "exit" ELSE status
  /\ syms' = [syms EXCEPT ![i].state = "RESOLVING"]

(* A symbol being resolved already would be a cyclic dependency, and end   *)
(* the process.  resolve_decl does nothing, and no symbol's state is set.  *)
resolve_sym(i) ==
  /\ status' = IF syms[i].state = "RESOLVING" THEN "exit" ELSE status
  /\ UNCHANGED syms

(* A name not found ends the process. *)
resolve_name(name) ==
  /\ \/ \E i \in sym_get(name) :
          resolve_sym(i) /\ Answer(name, IF status' = "exit" THEN nullptr ELSE syms[i].decl)
     \/ /\ sym_get(name) = {}
        /\ status' = "exit"
        /\ Answer(name, nullptr)
        /\ UNCHANGED syms
  /\ UNCHANGED <<ptr, end, blocks, heap, freed, allocs, internVars>>

resolve_syms ==
  /\ status' = IF \E i \in DOMAIN syms : syms[i].state = "RESOLVING" THEN "exit" ELSE status
  /\ UNCHANGED <<ptr, end, blocks, heap, freed, allocs, internVars, symVars>>

(* A caller asks for a symbol, as resolve_test does. *)
Search(name) ==
  /\ \/ \E i \in sym_get(name) : Answer(name, syms[i].decl)
     \/ sym_get(name) = {} /\ Answer(name, nullptr)
  /\ UNCHANGED <<arenaVars, internVars, syms>>

(* What can be done with a name; a declaration is put once.                *)
Uses(name) ==
  \/ \E decl \in Decls \ {syms[i].decl : i \in DOMAIN syms} : sym_put(decl, name)
  \/ resolve_name(name)
  \/ Search(name)

(* The names are those that the scanner interned. *)
SymbolsNext ==
  \/ InternNext /\ UNCHANGED symVars
  \/ /\ status = "run"
     /\ (\E it \in interns : Uses(it.str)) \/ resolve_syms

SymbolsSpec == SymbolsInit /\ [][SymbolsNext]_<<allVars, symVars>>

-----------------------------------------------------------------------------
Symbol == INSTANCE SymbolTable WITH
  Names <- Strings, None <- nullptr,
  table <- {<<text[syms[i].name], syms[i].decl>> : i \in DOMAIN syms}

(* The symbols implement a table by spelling, though they compare          *)
(* pointers: interning never makes a name another or one name two, and     *)
(* nothing that is declared once is refused.                               *)
ImplementsSymbols == Symbol!Spec
=============================================================================
