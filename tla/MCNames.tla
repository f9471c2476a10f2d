------------------------------ MODULE MCNames ------------------------------
(* Two strings that may be there before the keywords, two keywords, and a  *)
(* name of eight characters, so that its null is the first byte of a word, *)
(* with one keyword for a prefix and one of the first for a suffix.  A     *)
(* block holds three of the short strings: the keywords straddle two       *)
(* blocks if none or both of the first are there.                          *)
EXTENDS Names

MCBoot == { <<"h">>, <<"x">> }
MCKeywordList == << <<"i">>, <<"d">> >>
MCStrings == { <<"h">>, <<"i">>, <<"d">>, <<"x">>, <<"i", "d", "i", "d", "i", "d", "i", "x">> }
MCSizes == { 2, 9 }
=============================================================================
