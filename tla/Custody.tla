------------------------------ MODULE Custody -------------------------------
(***************************************************************************)
(* What the deployment promises, whatever scripts it takes: a contract is  *)
(* built by the deployer's key and handed over once and for good; from     *)
(* then on it is configured under its new owner's signature alone; only    *)
(* contracts that were handed over are pointed to as strategies.           *)
(***************************************************************************)
EXTENDS Integers

CONSTANTS
    Contract,     \* the addresses contracts may get
    Blank         \* the configuration a contract is born with

VARIABLES
    stage,        \* "none", "building" or "handed"
    settings,     \* each contract's configuration
    published,    \* the strategies the outside is pointed to
    signer        \* who signed the last transaction

vars == <<stage, settings, published, signer>>

Init ==
    /\ stage = [c \in Contract |-> "none"]
    /\ settings = [c \in Contract |-> Blank]
    /\ published = {}
    /\ signer = "deployer"

Handed == {c \in Contract : stage[c] = "handed"}

\* The constructor may name the owner.
Create(c) ==
    /\ stage[c] = "none" /\ signer' = "deployer"
    /\ \E s \in {"building", "handed"} : stage' = [stage EXCEPT ![c] = s]
    /\ UNCHANGED <<settings, published>>

HandOver(c) ==
    /\ stage[c] = "building" /\ signer' = "deployer"
    /\ stage' = [stage EXCEPT ![c] = "handed"]
    /\ UNCHANGED <<settings, published>>

\* The owner of the contract sets something, and nothing else changes.
Configure(c) ==
    /\ \/ stage[c] = "building" /\ signer' = "deployer"
       \/ stage[c] = "handed" /\ signer' = "safe"
    /\ \A d \in Contract \ {c} : settings'[d] = settings[d]
    /\ UNCHANGED <<stage, published>>

Publish ==
    /\ published' \subseteq Handed
    /\ signer' \in {"deployer", "safe"}
    /\ UNCHANGED <<stage, settings>>

Next ==
    \/ \E c \in Contract : Create(c) \/ HandOver(c) \/ Configure(c)
    \/ Publish

Spec == Init /\ [][Next]_vars
=============================================================================
