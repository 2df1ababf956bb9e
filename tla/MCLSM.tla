------------------------------- MODULE MCLSM --------------------------------
(***************************************************************************)
(* LSM.tla for TLC: small sets in the place of the constants.              *)
(***************************************************************************)
EXTENDS LSMClaims

TwoKeys == {1, 2}
OneKey  == {1}
=============================================================================
