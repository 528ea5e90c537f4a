----------------------------- MODULE MCDNKeeper -----------------------------
(***************************************************************************)
(* Model values for the runs of DNKeeper.                                  *)
(***************************************************************************)
EXTENDS DNKeeper

CONSTANTS c1

Halts == {<<TRUE, FALSE>>, <<TRUE, TRUE>>}
=============================================================================
