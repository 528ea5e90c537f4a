------------------------------ MODULE MCDNCore ------------------------------
(***************************************************************************)
(* Model values for the runs of DNCore.                                    *)
(***************************************************************************)
EXTENDS DNCore

CONSTANTS c1

RunningOrPaused == {<<TRUE, FALSE>>, <<TRUE, TRUE>>}
=============================================================================
