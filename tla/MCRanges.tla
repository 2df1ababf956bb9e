------------------------------ MODULE MCRanges ------------------------------
(* Constants for TLC. *)
EXTENDS RangesProps, TLC

Symmetry == Permutations(Values)
=============================================================================
