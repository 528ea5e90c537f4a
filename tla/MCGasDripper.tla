---------------------------- MODULE MCGasDripper ----------------------------
(***************************************************************************)
(* Rows for the run of GasDripper: three on Arbitrum, the first of which   *)
(* cannot be paid, and two on HyperEVM.                                    *)
(***************************************************************************)
EXTENDS GasDripper

TwoQueues == {<<"arb", 1>>, <<"arb", 2>>, <<"arb", 3>>, <<"hype", 1>>, <<"hype", 2>>}
FirstRefuses == {<<"arb", 1>>}
=============================================================================
