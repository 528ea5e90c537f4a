-------------------------- MODULE MCProYieldVault --------------------------
(***************************************************************************)
(* Model values for the runs of ProYieldVault.                             *)
(***************************************************************************)
EXTENDS ProYieldVault, TLC

CONSTANTS u1, u2, s1, s2

DepositorSymmetry == Permutations(Users)
StrategySymmetry == Permutations(Strategies)
=============================================================================
