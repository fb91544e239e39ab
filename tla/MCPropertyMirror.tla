------------------------- MODULE MCPropertyMirror -------------------------
(* PropertyMirror for TLC: the values are interchangeable.                 *)
EXTENDS PropertyMirror, TLC

ValuesSymmetry == Permutations(Values)
=============================================================================
