---------------------------- MODULE StringIntern ----------------------------
(***************************************************************************)
(* The intern table of src/src/StringIntern.cpp over its arena: the lexer  *)
(* turns every identifier into the one pointer that stands for it, and the *)
(* parser and the symbol table compare those pointers only.  The table     *)
(* shares the heap with the arena of the syntax tree, which allocates      *)
(* between any two calls.                                                  *)
(***************************************************************************)
EXTENDS Arena, Sequences

CONSTANTS
  StrArena,  \* StringTable::arena
  Chars,     \* the characters of the strings below
  Strings    \* the strings, without a null byte, that callers intern

ASSUME InternAssumption ==
  /\ StrArena \in Arenas
  /\ Strings \subseteq Seq(Chars)
  /\ \A s \in Strings : Len(s) + 1 \in Sizes

VARIABLES
  interns,  \* StringTable::interns: records of a length and a pointer
  text      \* the string that lies at an address, if one does

internVars == <<interns, text>>

Intern == [len: Nat, str: Addr]

(* The table holds lengths and addresses, the memory strings.              *)
InternTypeOK ==
  /\ ArenaTypeOK
  /\ interns \in SUBSET Intern
  /\ text \in [Addr -> Seq(Chars)]

InternInit ==
  /\ ArenaInit
  /\ interns = {}
  /\ text = [p \in Addr |-> << >>]

(* Slips: comparing as many characters as the string asked for has, and no *)
(* lengths; comparing with a length that counts the null;                  *)
Matching_prefix(s) ==
  { it \in interns : Len(s) <= it.len /\ SubSeq(text[it.str], 1, Len(s)) = s }
Matching_null(s) ==
  { it \in interns : it.len = Len(s) + 1 /\ SubSeq(text[it.str], 1, Len(s)) = s }

(* The entries the search of add_range stops at: equal length, then        *)
(* strncmp over that many bytes.                                           *)
Matching(s) ==
  { it \in interns :
      it.len = Len(s) /\ SubSeq(text[it.str], 1, Len(s)) = s }

(* What lies where, once size bytes from p on are written, with s at p: a  *)
(* string of which the null or any character is written over is no more.   *)
Written(p, size, s) ==
  [q \in Addr |->
     IF q = p THEN s
     ELSE IF q < p + size /\ p <= q + Len(text[q]) THEN << >>
     ELSE text[q]]

(* storing a length that counts the null;                                  *)
AddRange_null(s, p) ==
  \/ /\ \E it \in Matching(s) : p = it.str
     /\ status = "run"
     /\ UNCHANGED <<arenaVars, internVars>>
  \/ /\ Matching(s) = {}
     /\ Alloc(StrArena, Len(s) + 1, p)
     /\ text' = Written(p, Len(s) + 1, s)
     /\ interns' = interns \union {[len |-> Len(s) + 1, str |-> p]}

(* room for the characters and not for the null.                           *)
AddRange_unterminated(s, p) ==
  \/ /\ \E it \in Matching(s) : p = it.str
     /\ status = "run"
     /\ UNCHANGED <<arenaVars, internVars>>
  \/ /\ Matching(s) = {}
     /\ Alloc(StrArena, Len(s), p)
     /\ text' = Written(p, Len(s) + 1, s)
     /\ interns' = interns \union {[len |-> Len(s), str |-> p]}

(* add_range(s) returns p: the pointer of the entry found, or that of a    *)
(* fresh copy, one byte longer for the null, appended to the table.        *)
AddRange(s, p) ==
  \/ /\ \E it \in Matching(s) : p = it.str
     /\ status = "run"
     /\ UNCHANGED <<arenaVars, internVars>>
  \/ /\ Matching(s) = {}
     /\ Alloc(StrArena, Len(s) + 1, p)
     /\ text' = Written(p, Len(s) + 1, s)
     /\ interns' = interns \union {[len |-> Len(s), str |-> p]}

(* add_range(s) finds no entry and the arena cannot grow.                  *)
AddRangeDies(s) ==
  /\ Matching(s) = {}
  /\ AllocDies(StrArena, Len(s) + 1)
  /\ UNCHANGED internVars

(* The other arenas of the process at work between two calls: what is      *)
(* allocated, a node or an array of the tree, is written at once.          *)
OtherArena ==
  \E a \in Arenas \ {StrArena}, size \in Sizes :
    /\ \/ \E p \in Addr : Alloc(a, size, p) /\ text' = Written(p, size, << >>)
       \/ AllocDies(a, size) /\ UNCHANGED text
    /\ UNCHANGED interns

InternNext ==
  \/ \E s \in Strings : (\E p \in Addr : AddRange(s, p)) \/ AddRangeDies(s)
  \/ OtherArena

allVars == <<arenaVars, internVars>>

InternSpec == InternInit /\ [][InternNext]_allVars

-----------------------------------------------------------------------------
(* Equal pointers are equal strings and equal strings are equal pointers,  *)
(* prefixes and suffixes included (the four asserts of intern_test), and   *)
(* the length kept beside the pointer is still that of what it points at.  *)
InternsCanonical ==
  \A it, jt \in interns :
    /\ it.len = Len(text[it.str])
    /\ text[it.str] = text[jt.str] => it = jt
    /\ it.str = jt.str => it = jt

(* The search of add_range stops at the entry that spells the string asked *)
(* for, if there is one, and never at one of which it is a prefix or that  *)
(* only has its length: the pointer returned is always the string's own.   *)
SearchExact ==
  \A s \in Strings : Matching(s) = { it \in interns : text[it.str] = s }

(* What a pointer was returned for is what it spells ever after: no later  *)
(* call, of this arena or another, writes over a byte of an interned       *)
(* string.                                                                 *)
InternsStable ==
  [][\A it \in interns : it \in interns' /\ text'[it.str] = text[it.str]]_allVars

Table == INSTANCE InternTable WITH
           Pointers <- Addr, table <- {<<text[it.str], it.str>> : it \in interns}

ImplementsTable == Table!Spec
=============================================================================
