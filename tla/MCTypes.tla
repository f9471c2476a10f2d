------------------------------ MODULE MCTypes ------------------------------
(* Room for two types besides int and float, and for two arrays of types,  *)
(* which the callers keep (MCTypes.cfg) or use again (MCTypesRewrite.cfg). *)
EXTENDS Types, TLC

CONSTANTS a, b
MCTypeAddrs == {type_int, type_float, a, b}
MCSymmetry == Permutations({a, b})
=============================================================================
