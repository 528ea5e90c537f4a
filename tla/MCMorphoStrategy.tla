-------------------------- MODULE MCMorphoStrategy --------------------------
(***************************************************************************)
(* The instance of MorphoStrategy that is model-checked.                   *)
(***************************************************************************)
EXTENDS MorphoStrategy
=============================================================================
