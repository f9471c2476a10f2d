------------------------------ MODULE Keywords ------------------------------
(***************************************************************************)
(* How the lexer of src/src/Lex.cpp tells keywords from names.  main       *)
(* interns some strings, those of intern_test, then init interns the       *)
(* keywords one after the other and keeps the first and the last pointer;  *)
(* from then on an identifier is a keyword when its pointer lies between   *)
(* the two.  That is right only while the keywords, and nothing else,      *)
(* occupy that stretch of memory, which init's assert is there to ensure.  *)
(***************************************************************************)
EXTENDS StringIntern

CONSTANTS
  BOOT,     \* strings that may be interned before init, as by intern_test
  KEYWORDS  \* the strings of the KEYWORD lines of init, in order

ASSUME KeywordsAssumption ==
  /\ BOOT \subseteq Strings
  /\ KEYWORDS \in Seq(Strings) /\ KEYWORDS # << >>
  /\ \A i, j \in DOMAIN KEYWORDS : KEYWORDS[i] = KEYWORDS[j] => i = j
  /\ \A i \in DOMAIN KEYWORDS : KEYWORDS[i] \notin BOOT

VARIABLES
  pc,             \* "boot" (intern_test), "init", or "run" (inited is true)
  arena_end,      \* the local of init
  keywords,       \* Global::keywords
  first_keyword, last_keyword,
  token           \* kind and name of the last identifier that was scanned

keywordVars == <<pc, arena_end, keywords, first_keyword, last_keyword, token>>
vars == <<allVars, keywordVars>>

(* No more keywords are interned than there are, and init and the token     *)
(* keep addresses.                                                         *)
KeywordsTypeOK ==
  /\ InternTypeOK
  /\ pc \in {"boot", "init", "run"}
  /\ arena_end \in Addr
  /\ keywords \in Seq(Addr) /\ Len(keywords) <= Len(KEYWORDS)
  /\ first_keyword \in Addr /\ last_keyword \in Addr
  /\ token \in [kind: {"NAME", "KEYWORD"}, name: Addr]

is_keyword_name(name) == first_keyword <= name /\ name <= last_keyword

-----------------------------------------------------------------------------
(* Before the first identifier the token names nothing; no entry has the   *)
(* null address.                                                           *)
Init ==
  /\ InternInit
  /\ pc = "boot"
  /\ arena_end = NULL
  /\ keywords = << >>
  /\ first_keyword = NULL /\ last_keyword = NULL
  /\ token = [kind |-> "NAME", name |-> NULL]

(* An add of intern_test returns p.  Which strings it adds is left open,   *)
(* so that the keywords start anywhere in a block of the arena.            *)
InternTest(s, p) ==
  /\ pc = "boot"
  /\ AddRange(s, p)
  /\ UNCHANGED keywordVars

(* init notes where the block in use ends. *)
InitBegins ==
  /\ pc = "boot" /\ status = "run"
  /\ pc' = "init"
  /\ arena_end' = end[StrArena]
  /\ UNCHANGED <<allVars, keywords, first_keyword, last_keyword, token>>

(* The next KEYWORD line of init. *)
KEYWORD(p) ==
  /\ pc = "init" /\ Len(keywords) < Len(KEYWORDS)
  /\ AddRange(KEYWORDS[Len(keywords) + 1], p)
  /\ keywords' = Append(keywords, p)
  /\ UNCHANGED <<pc, arena_end, first_keyword, last_keyword, token>>

(* A slip: init without its assert.                                        *)
InitEnds_unchecked ==
  /\ pc = "init" /\ Len(keywords) = Len(KEYWORDS) /\ status = "run"
  /\ first_keyword' = keywords[1]
  /\ last_keyword' = keywords[Len(keywords)]
  /\ pc' = "run"
  /\ UNCHANGED <<allVars, arena_end, keywords, token>>

(* The assert of init, and the assignments after it. *)
InitEnds ==
  /\ pc = "init" /\ Len(keywords) = Len(KEYWORDS) /\ status = "run"
  /\ \/ /\ end[StrArena] = arena_end
        /\ first_keyword' = keywords[1]
        /\ last_keyword' = keywords[Len(keywords)]
        /\ pc' = "run"
        /\ UNCHANGED allVars
     \/ /\ end[StrArena] # arena_end
        /\ status' = "abort"
        /\ UNCHANGED <<ptr, end, blocks, heap, freed, allocs, internVars>>
        /\ UNCHANGED <<first_keyword, last_keyword, pc>>
  /\ UNCHANGED <<arena_end, keywords, token>>

(* next_token at the identifier s. *)
Identifier(s, p) ==
  /\ pc = "run"
  /\ AddRange(s, p)
  /\ token' = [kind |-> IF is_keyword_name(p) THEN "KEYWORD" ELSE "NAME", name |-> p]
  /\ UNCHANGED <<pc, arena_end, keywords, first_keyword, last_keyword>>

(* The add under way does not return. *)
Dies ==
  /\ \/ pc = "boot" /\ \E s \in BOOT : AddRangeDies(s)
     \/ /\ pc = "init" /\ Len(keywords) < Len(KEYWORDS)
        /\ AddRangeDies(KEYWORDS[Len(keywords) + 1])
     \/ pc = "run" /\ \E s \in Strings : AddRangeDies(s)
  /\ UNCHANGED keywordVars

(* The parser builds syntax nodes between two tokens. *)
Parser == pc = "run" /\ OtherArena /\ UNCHANGED keywordVars

Next ==
  \/ \E s \in BOOT, p \in Addr : InternTest(s, p)
  \/ \E p \in Addr : KEYWORD(p)
  \/ InitBegins \/ InitEnds
  \/ \E s \in Strings, p \in Addr : Identifier(s, p)
  \/ Dies \/ Parser

Spec == Init /\ [][Next]_vars

-----------------------------------------------------------------------------
IsKeyword(s) == \E i \in DOMAIN KEYWORDS : KEYWORDS[i] = s

(* Once init has run, the range test of is_keyword_name holds of the       *)
(* pointers of the keywords and of no other string's, wherever malloc puts *)
(* the later blocks of the arena; and the token has the kind its text asks *)
(* for.                                                                    *)
KeywordsExact ==
  pc = "run" =>
    /\ \A it \in interns : is_keyword_name(it.str) <=> IsKeyword(text[it.str])
    /\ token.name # NULL => (token.kind = "KEYWORD" <=> IsKeyword(text[token.name]))
=============================================================================
