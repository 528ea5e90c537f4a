---------------------------- MODULE MCDeployment ----------------------------
(***************************************************************************)
(* Model values for the run of Deployment: the vault twice and one         *)
(* strategy, or once and three; the token suite twice, three executors,    *)
(* and one sandbox after one that died at its second contract.             *)
(***************************************************************************)
EXTENDS Deployment

MCRoom == [f \in Files |-> CASE f = "main" -> 5 [] f = "pyd" -> 8
                             [] f = "arb" -> 3 [] f = "sandbox" -> 10]
=============================================================================
