-------------------------- MODULE MCFeeRecycling --------------------------
(***************************************************************************)
(* Model values for the runs of FeeRecycling.                              *)
(***************************************************************************)
EXTENDS FeeRecycling, TLC

CONSTANTS u1, s1, r1
=============================================================================
