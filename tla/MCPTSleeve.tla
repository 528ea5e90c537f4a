----------------------------- MODULE MCPTSleeve -----------------------------
(***************************************************************************)
(* The runs of PTSleeve.                                                   *)
(***************************************************************************)
EXTENDS PTSleeve, TLC
=============================================================================
