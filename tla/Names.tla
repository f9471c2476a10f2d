------------------------------- MODULE Names -------------------------------
(***************************************************************************)
(* The intern table as the whole front end shares it: the strings of       *)
(* intern_test and the keywords of init first, then the identifiers of a   *)
(* program and, with the names among them, the symbols of Resolve.cpp.     *)
(* This is the order of main (src/src/sorin.cpp:13-40), with scanner,      *)
(* parser and resolver taking turns once init has run.                     *)
(***************************************************************************)
EXTENDS Keywords, Symbols

NamesInit == Init /\ SymbolsInit

(* The parser takes a name for a declaration only from a token NAME, and   *)
(* the scanner makes none of a pointer in the range of the keywords.       *)
NamesNext ==
  \/ Next /\ UNCHANGED symVars
  \/ /\ pc = "run" /\ status = "run"
     /\ \/ \E it \in {it \in interns : ~is_keyword_name(it.str)} : Uses(it.str)
        \/ resolve_syms
     /\ UNCHANGED keywordVars

NamesSpec == NamesInit /\ [][NamesNext]_<<vars, symVars>>

-----------------------------------------------------------------------------
(* No symbol is spelled like a keyword: what the scanner told from the     *)
(* keywords by its address is still no keyword by its spelling, whatever   *)
(* was interned before init and between the token and the symbol.          *)
SymbolsAreNames == \A i \in DOMAIN syms : ~IsKeyword(text[syms[i].name])
=============================================================================
