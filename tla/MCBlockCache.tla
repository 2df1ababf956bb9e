---------------------------- MODULE MCBlockCache ----------------------------
(***************************************************************************)
(* BlockCacheUse.tla for TLC.                                              *)
(***************************************************************************)
EXTENDS BlockCacheUse, TLC

\* Keys, blocks and nodes are only compared.
CacheSymmetry ==
    Permutations(CacheKeys) \cup Permutations(Blocks) \cup Permutations(Nodes)
=============================================================================
