---------------------------- MODULE MCPYDStaking ----------------------------
(***************************************************************************)
(* Model values for the runs of PYDStaking.                                *)
(***************************************************************************)
EXTENDS PYDStaking, TLC

CONSTANTS u1, u2

StakerSymmetry == Permutations(Users)
=============================================================================
