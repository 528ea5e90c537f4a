---------------------------- MODULE MCPublishing ----------------------------
(***************************************************************************)
(* Model values for the run of Publishing.                                 *)
(***************************************************************************)
EXTENDS Publishing

CONSTANTS w1
=============================================================================
