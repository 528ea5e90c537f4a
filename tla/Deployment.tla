----------------------------- MODULE Deployment -----------------------------
(***************************************************************************)
(* The deployment scripts: what each sends, in its order, to the chain,    *)
(* what it writes to its manifest, and where it refuses.  A script is a    *)
(* table of steps; a run of it may die after any of them, and nothing is   *)
(* undone.  The operator runs one script at a time, as often as he likes,  *)
(* with FORCE=1 or without.                                                *)
(*                                                                         *)
(* Four manifest files, one per behaviour, since the scripts of one never  *)
(* touch the contracts of another: the vault and its strategies ("main"),  *)
(* the token suite ("pyd"), the executor on Arbitrum ("arb") and the       *)
(* sandbox ("sandbox").  Dry runs send and write nothing.  A manifest is   *)
(* written whole or not at all: a death inside writeFileSync would leave   *)
(* one that every later script refuses to parse.                           *)
(***************************************************************************)
EXTENDS Integers, Sequences

CONSTANTS
    MaxContracts,    \* bound: the addresses there are
    Room             \* bound: contracts deployed per manifest, abandoned ones included

Files == {"main", "pyd", "arb", "sandbox"}

ASSUME DeploymentAssumption ==
    MaxContracts \in Nat /\ Room \in [Files -> 0..MaxContracts]

VARIABLES
    file,         \* the manifest this behaviour is about
    chain,        \* the contracts, in the order of their addresses
    manifest,     \* the address it holds under each name, or 0
    listed,       \* vaults' strategyList: <<vault, strategy>>
    script,       \* the script that runs, or "none"
    pc,           \* the step it is at
    bound,        \* the manifest object in its memory
    signer        \* whose transaction was the last

run  == <<script, pc, bound>>
vars == <<file, chain, manifest, listed, run, signer>>

Names == {"vault", "distributor", "morpho", "sleeve", "dn",
          "token", "staking", "funder", "discount", "executor",
          "usdc", "delta", "oracle", "source"}
Strategies == {"morpho", "sleeve", "dn"}
Facts == {"caps", "keeper", "spot", "params", "market", "paused",
          "oracle", "funding source", "funded", "rewards", "position"}

\* Owners: the deployer's key, the treasury Safe, or a contract.
Deployer == -1
Safe     == -2

Address == 1..MaxContracts
Nothing == [n \in Names |-> 0]

-----------------------------------------------------------------------------
(* The steps.                                                              *)

Deploy(n)     == [op |-> "deploy", of |-> n, arg |-> "deployer"]
DeployFor(n)  == [op |-> "deploy", of |-> n, arg |-> "OWNER"]    \* an environment variable
Obtain(n)     == [op |-> "obtain", of |-> n, arg |-> "deployer"] \* or attach to an old one
Set(n, f)     == [op |-> "set",    of |-> n, arg |-> f]
MaySet(n, f)  == [op |-> "option", of |-> n, arg |-> f]
SetVault(n)   == [op |-> "link",   of |-> n, arg |-> "vault"]
Give(n, to)   == [op |-> "give",   of |-> n, arg |-> to]         \* transferOwnership
Hand(n)       == [op |-> "hand",   of |-> n, arg |-> "safe"]     \* unless it has it
Verify(n)     == [op |-> "verify", of |-> n, arg |-> "safe"]     \* owner == SAFE, or fail
AddStrategy(n) == [op |-> "list",  of |-> n, arg |-> "vault"]
Write         == [op |-> "write",  of |-> "vault", arg |-> "manifest"]

\* deploy_mainnet.js
MainnetSteps == <<Deploy("distributor"), DeployFor("vault"), Set("vault", "caps"), Write>>

\* transfer_ownership_mainnet.js
TransferSteps == <<Hand("vault"), Hand("distributor")>>

\* deploy_morpho_mainnet.js
MorphoSteps == <<Deploy("morpho"), Set("morpho", "keeper"), SetVault("morpho"),
                 Give("morpho", "safe"), Verify("morpho"), Write>>

\* deploy_pt_sleeve_mainnet.js
SleeveSteps == <<Obtain("sleeve"), Set("sleeve", "keeper"), SetVault("sleeve"),
                 MaySet("sleeve", "params"),
                 Give("sleeve", "safe"), Verify("sleeve"), Write>>

\* deploy_dn_mainnet.js: the Safe sets the vault
DnSteps == <<Deploy("dn"), Set("dn", "spot"), Set("dn", "keeper"),
             Give("dn", "safe"), Verify("dn"), Write>>

\* Mutant of PydSteps: the funder is handed over and paused afterwards.
PydStepsHandedEarly == <<Deploy("token"), Deploy("staking"), Deploy("funder"), Deploy("discount"),
              Give("staking", "funder"), Give("funder", "safe"), Set("funder", "paused"),
              Give("token", "safe"), Give("discount", "safe"), Write>>

\* deploy_pyd_mainnet.js; the token's owner is who holds the supply
PydSteps == <<Deploy("token"), Deploy("staking"), Deploy("funder"), Deploy("discount"),
              Give("staking", "funder"), Set("funder", "paused"), Give("token", "safe"),
              Give("funder", "safe"), Give("discount", "safe"), Write>>

\* deploy_pt_executor_arb.js
ExecutorSteps == <<DeployFor("executor"), MaySet("executor", "market"), Write>>

\* deploy_v2.js; what it deposits, allocates and harvests is the vault's module
SandboxSteps == <<Deploy("usdc"), Deploy("token"), Deploy("distributor"), Deploy("staking"),
                  Deploy("vault"), Deploy("delta"), Deploy("oracle"), Deploy("source"),
                  Set("delta", "oracle"), Set("delta", "funding source"),
                  Set("source", "funded"), Set("staking", "rewards"), Write,
                  AddStrategy("delta"), SetVault("delta"), MaySet("delta", "position")>>

Scripts == {"mainnet", "transfer", "morpho", "sleeve", "dn", "pyd", "executor", "sandbox"}

Steps(s) ==
    CASE s = "mainnet"  -> MainnetSteps
      [] s = "transfer" -> TransferSteps
      [] s = "morpho"   -> MorphoSteps
      [] s = "sleeve"   -> SleeveSteps
      [] s = "dn"       -> DnSteps
      [] s = "pyd"      -> PydSteps
      [] s = "executor" -> ExecutorSteps
      [] s = "sandbox"  -> SandboxSteps

ScriptsOf(f) ==
    CASE f = "main"    -> {"mainnet", "transfer", "morpho", "sleeve", "dn"}
      [] f = "pyd"     -> {"pyd"}
      [] f = "arb"     -> {"executor"}
      [] f = "sandbox" -> {"sandbox"}

Here == Steps(script)[pc]

-----------------------------------------------------------------------------
(* A run.                                                                  *)

\* What a script refuses for, beyond a wrong chain, key, asset or too little
\* gas, which only keep it from starting: its entry is there and FORCE is not
\* set, or what it builds on is missing.
MainnetGuard(force)  == force \/ manifest["vault"] = 0
TransferGuard        == manifest["vault"] # 0
MorphoGuard(force)   == manifest["vault"] # 0 /\ (force \/ manifest["morpho"] = 0)
SleeveGuard(force)   == manifest["vault"] # 0 /\ (force \/ manifest["sleeve"] = 0)
DnGuard(force)       == manifest["vault"] # 0 /\ (force \/ manifest["dn"] = 0)
PydGuard(force)      == force \/ manifest["token"] = 0
ExecutorGuard(force) == force \/ manifest["executor"] = 0

Guard(s, force) ==
    /\ s = "mainnet"  => MainnetGuard(force)
    /\ s = "transfer" => TransferGuard
    /\ s = "morpho"   => MorphoGuard(force)
    /\ s = "sleeve"   => SleeveGuard(force)
    /\ s = "dn"       => DnGuard(force)
    /\ s = "pyd"      => PydGuard(force)
    /\ s = "executor" => ExecutorGuard(force)

\* Mutant of Opened: every script extends the manifest it finds.
OpenedAlways(s) == manifest

\* A script that begins a manifest starts from an empty object, the others
\* from what the file holds.
Opened(s) == IF s \in {"mainnet", "pyd", "sandbox"} THEN Nothing ELSE manifest

Start(s, force) ==
    /\ script = "none" /\ s \in ScriptsOf(file) /\ Guard(s, force)
    /\ script' = s /\ pc' = 1 /\ bound' = Opened(s)
    /\ UNCHANGED <<file, chain, manifest, listed, signer>>

\* After its last step, or because a call reverts, a check fails, an RPC does
\* not answer or the process dies.
Stop ==
    /\ script # "none"
    /\ script' = "none" /\ pc' = 0 /\ bound' = Nothing
    /\ UNCHANGED <<file, chain, manifest, listed, signer>>

Doing(op) == script # "none" /\ pc \in 1..Len(Steps(script)) /\ Here.op = op

Onward == pc' = pc + 1 /\ UNCHANGED <<file, script>>

Sent(by) == signer' = by

\* Mutant of NewAddress: the address is predicted one nonce too low.
LastAddress == Len(chain)

NewAddress == Len(chain) + 1

Born(n, o) == [name |-> n, owner |-> o, facts |-> {}, vault |-> 0]

DoDeploy ==
    /\ Doing("deploy") \/ Doing("obtain")
    /\ Len(chain) < Room[file]
    /\ \E o \in {Deployer} \cup IF Here.arg = "OWNER" THEN {Safe} ELSE {} :
          chain' = Append(chain, Born(Here.of, o))
    /\ bound' = [bound EXCEPT ![Here.of] = NewAddress]
    /\ Onward /\ Sent("deployer")
    /\ UNCHANGED <<manifest, listed>>

\* PT_EXISTING_STRATEGY: whoever owns it by now.
Attach(a) ==
    /\ Doing("obtain") /\ a \in 1..Len(chain) /\ chain[a].name = Here.of
    /\ bound' = [bound EXCEPT ![Here.of] = a]
    /\ Onward
    /\ UNCHANGED <<chain, manifest, listed, signer>>

Target == bound[Here.of]

\* Mutant of OnlyOwner: anybody may.
Anybody(a) == a # 0

\* The modifier of the contract: otherwise the call reverts.
OnlyOwner(a) == a # 0 /\ chain[a].owner = Deployer

Skip ==
    /\ \/ Doing("option")
       \/ Doing("hand") /\ Target # 0 /\ chain[Target].owner = Safe
       \/ Doing("verify") /\ Target # 0 /\ chain[Target].owner = Safe
    /\ Onward
    /\ UNCHANGED <<chain, manifest, listed, bound, signer>>

DoSet ==
    /\ Doing("set") \/ Doing("option")
    /\ OnlyOwner(Target)
    /\ chain' = [chain EXCEPT ![Target].facts = @ \cup {Here.arg}]
    /\ Onward /\ Sent("deployer")
    /\ UNCHANGED <<manifest, listed, bound>>

DoLink ==
    /\ Doing("link") /\ OnlyOwner(Target) /\ bound["vault"] # 0
    /\ chain' = [chain EXCEPT ![Target].vault = bound["vault"]]
    /\ Onward /\ Sent("deployer")
    /\ UNCHANGED <<manifest, listed, bound>>

Recipient == IF Here.arg = "safe" THEN Safe ELSE bound[Here.arg]

\* Neither an owner nor a strategy may be the zero address.
DoGive ==
    /\ Doing("give") \/ Doing("hand")
    /\ OnlyOwner(Target) /\ Recipient # 0
    /\ chain' = [chain EXCEPT ![Target].owner = Recipient]
    /\ Onward /\ Sent("deployer")
    /\ UNCHANGED <<manifest, listed, bound>>

DoList ==
    /\ Doing("list") /\ OnlyOwner(bound["vault"]) /\ Target # 0
    /\ listed' = listed \cup {<<bound["vault"], Target>>}
    /\ Onward /\ Sent("deployer")
    /\ UNCHANGED <<chain, manifest, bound>>

\* The whole file is written from the object in memory.
DoWrite ==
    /\ Doing("write")
    /\ manifest' = bound
    /\ Onward
    /\ UNCHANGED <<chain, listed, bound, signer>>

-----------------------------------------------------------------------------
(* safe_exec_mainnet.js: one transaction of the treasury Safe about a      *)
(* strategy of the manifest, simulated first, so it never reverts.         *)

SafeOwns(n) == manifest[n] # 0 /\ chain[manifest[n]].owner = Safe

SafeExec(n) ==
    /\ file = "main" /\ script = "none" /\ manifest[n] # 0
    /\ \/ /\ SafeOwns("vault")
          /\ listed' = listed \cup {<<manifest["vault"], manifest[n]>>}
          /\ UNCHANGED chain
       \/ /\ SafeOwns(n) /\ manifest["vault"] # 0
          /\ chain' = [chain EXCEPT ![manifest[n]].vault = manifest["vault"]]
          /\ UNCHANGED listed
    /\ Sent("safe")
    /\ UNCHANGED <<file, manifest, run>>

-----------------------------------------------------------------------------
Init ==
    /\ file \in Files
    /\ chain = <<>> /\ manifest = Nothing /\ listed = {}
    /\ script = "none" /\ pc = 0 /\ bound = Nothing
    /\ signer = "deployer"

RunStep ==
    \/ DoDeploy \/ Skip \/ DoSet \/ DoLink \/ DoGive \/ DoList \/ DoWrite
    \/ \E a \in Address : Attach(a)

Next ==
    \/ \E s \in Scripts, force \in BOOLEAN : Start(s, force)
    \/ RunStep
    \/ Stop
    \/ \E n \in Strategies : SafeExec(n)

Spec == Init /\ [][Next]_vars

-----------------------------------------------------------------------------
(* Properties.                                                             *)

Contracts == [name : Names, owner : {Deployer, Safe} \cup Address,
              facts : SUBSET Facts, vault : 0..MaxContracts]

\* Every address under a name, in the file and in memory, is of a contract
\* of that kind.
NamesAContract(book) ==
    \A n \in Names : book[n] # 0 => book[n] <= Len(chain) /\ chain[book[n]].name = n

\* Types; and no name, in the file or in memory, leads to a contract of
\* another kind or to an address with nothing on it.
DeployTypeOK ==
    /\ file \in Files
    /\ chain \in Seq(Contracts) /\ Len(chain) <= MaxContracts
    /\ manifest \in [Names -> 0..MaxContracts] /\ bound \in [Names -> 0..MaxContracts]
    /\ listed \subseteq Address \X Address
    /\ script \in Scripts \cup {"none"} /\ pc \in Nat
    /\ signer \in {"deployer", "safe"}
    /\ NamesAContract(manifest) /\ NamesAContract(bound)

\* What a published contract needs to be usable.
Needs(n) ==
    CASE n = "vault" /\ file = "main"   -> {"caps"}
      [] n \in {"morpho", "sleeve"}     -> {"keeper"}
      [] n = "dn"                       -> {"keeper", "spot"}
      [] n = "funder"                   -> {"paused"}
      [] n = "delta"                    -> {"oracle", "funding source"}
      [] OTHER                          -> {}

\* Whatever runs died or were forced before: a contract the manifest names is
\* configured; its strategies that the scripts link obey the very vault it
\* names; and a strategy a vault lists has a keeper, belongs to the Safe and
\* obeys no other vault (deploy_mainnet.js:186-206, deploy_morpho_mainnet.js:
\* 103-139, deploy_pt_sleeve_mainnet.js:112-153, deploy_dn_mainnet.js:86-128).
PublishedIsConfigured ==
    /\ \A n \in Names : manifest[n] # 0 => Needs(n) \subseteq chain[manifest[n]].facts
    /\ \A n \in {"morpho", "sleeve"} :
          manifest[n] # 0 => chain[manifest[n]].vault = manifest["vault"]
    /\ file = "main" =>
          \A p \in listed :
              /\ "keeper" \in chain[p[2]].facts /\ chain[p[2]].owner = Safe
              /\ chain[p[2]].vault \in IF chain[p[2]].name = "dn" THEN {0, p[1]} ELSE {p[1]}

\* The Safe receives the funder dormant and the suite with it: by then the
\* funder is paused, it owns a staking contract, and the Safe holds a supply
\* (deploy_pyd_mainnet.js:188-211).
SafeGetsDormantFunder ==
    \A a \in 1..Len(chain) :
        chain[a].name = "funder" /\ chain[a].owner = Safe =>
            /\ "paused" \in chain[a].facts
            /\ \E c \in 1..Len(chain) : chain[c].name = "staking" /\ chain[c].owner = a
            /\ \E c \in 1..Len(chain) : chain[c].name = "token" /\ chain[c].owner = Safe

-----------------------------------------------------------------------------
(* The abstract specification.                                             *)

Stage(a) ==
    IF a > Len(chain) THEN "none"
    ELSE IF chain[a].owner = Deployer THEN "building" ELSE "handed"

Settings(a) == IF a > Len(chain) THEN <<{}, 0>> ELSE <<chain[a].facts, chain[a].vault>>

Published == {manifest[n] : n \in {m \in Strategies : manifest[m] # 0}}

C == INSTANCE Custody WITH
        Contract  <- Address,
        Blank     <- <<{}, 0>>,
        stage     <- [a \in Address |-> Stage(a)],
        settings  <- [a \in Address |-> Settings(a)],
        published <- Published

\* The scripts keep custody: what was handed over is never reconfigured by
\* the deployer's key, handed back or handed on, and only handed-over
\* strategies are published, through resumed, forced and half-finished runs
\* (deploy_pt_sleeve_mainnet.js:95-153, transfer_ownership_mainnet.js:28-45).
KeepsCustody == C!Spec
=============================================================================
