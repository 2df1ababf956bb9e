------------------------------- MODULE MCSst --------------------------------
(* Constants for TLC: block_size is too small for two entries, fits some, or *)
(* is so large that one block grows beyond what its offsets can count.       *)
EXTENDS SstProps

MCBlockSizes == {0, 2, 9}
=============================================================================
