----------------------------- MODULE MCThreads ------------------------------
(***************************************************************************)
(* Threads.tla for TLC: threads that do the same are interchangeable.      *)
(***************************************************************************)
EXTENDS Threads

Symmetry == Permutations(Writers)
=============================================================================
