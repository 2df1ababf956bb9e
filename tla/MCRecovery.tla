----------------------------- MODULE MCRecovery -----------------------------
(***************************************************************************)
(* Recovery.tla for TLC: small sets in the place of the constants.         *)
(***************************************************************************)
EXTENDS RecoveryProps

OneKey  == {1}
TwoKeys == {1, 2}
=============================================================================
