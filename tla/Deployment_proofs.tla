------------------------- MODULE Deployment_proofs --------------------------
(***************************************************************************)
(* Proofs about Deployment, for any number of contracts and any room for   *)
(* them: types, that every step of every script is one of Custody, that    *)
(* the Safe gets a dormant funder, and that what is published is           *)
(* configured.                                                             *)
(***************************************************************************)
EXTENDS Deployment, SequenceTheorems, TLAPS

(***************************************************************************)
(* The tables.                                                             *)
(***************************************************************************)

\* What the steps of any table are about.
StepOK(e) ==
    /\ e.of \in Names
    /\ e.op \in {"set", "option"} => e.arg \in Facts
    /\ e.op \in {"give", "hand"} => e.arg \in {"safe", "funder"}

\* Where the script of a strategy has made sure that the Safe owns it.
VerifyAt == [n \in Strategies |-> IF n = "sleeve" THEN 6 ELSE 5]

\* Where a step may stand.  A strategy's script makes the contract first,
\* verifies the hand-over and writes the manifest after that; the token suite
\* is wired in one order, and no other step gives a funder away.
PlaceOK(s, i, e) ==
    /\ e.of = "funder" /\ e.op \in {"deploy", "obtain"} => e.arg # "OWNER"
    /\ e.of = "funder" /\ e.op \in {"give", "hand"} => s = "pyd" /\ i = 8
    /\ s = "pyd" /\ i > 4 => e.op \notin {"deploy", "obtain"}
    /\ s = "pyd" /\ i = 5 => e.op = "give" /\ e.of = "staking" /\ e.arg = "funder"
    /\ s = "pyd" /\ i = 6 => e.op = "set" /\ e.of = "funder" /\ e.arg = "paused"
    /\ s = "pyd" /\ i = 7 => e.op = "give" /\ e.of = "token" /\ e.arg = "safe"
    /\ e.op \in {"deploy", "obtain"} /\ e.of \in Strategies => e.of = s /\ i = 1
    /\ s \in Strategies =>
          /\ e.op = "write" => i > VerifyAt[s]
          /\ i = VerifyAt[s] => e.op = "verify" /\ e.of = s

TableOK(s, table) ==
    \A i \in 1..Len(table) : StepOK(table[i]) /\ PlaceOK(s, i, table[i])

\* Every form of a step is about a contract and a fact of one.
LEMMA Forms ==
    /\ \A n \in Names : StepOK(Deploy(n)) /\ StepOK(DeployFor(n)) /\ StepOK(Obtain(n))
    /\ \A n \in Names : StepOK(SetVault(n)) /\ StepOK(Hand(n)) /\ StepOK(Verify(n))
    /\ \A n \in Names, f \in Facts : StepOK(Set(n, f)) /\ StepOK(MaySet(n, f))
    /\ \A n \in Names, t \in {"safe", "funder"} : StepOK(Give(n, t))
    /\ StepOK(AddStrategy("delta")) /\ StepOK(Write)
<1>1. \A n \in Names : StepOK(Deploy(n)) /\ StepOK(DeployFor(n)) /\ StepOK(Obtain(n))
  BY DEF StepOK, Deploy, DeployFor, Obtain
<1>2. \A n \in Names : StepOK(SetVault(n)) /\ StepOK(Hand(n)) /\ StepOK(Verify(n))
  BY DEF StepOK, SetVault, Hand, Verify
<1>3. \A n \in Names, f \in Facts : StepOK(Set(n, f)) /\ StepOK(MaySet(n, f))
  BY DEF StepOK, Set, MaySet
<1>4. \A n \in Names, t \in {"safe", "funder"} : StepOK(Give(n, t))
  BY DEF StepOK, Give
<1>5. StepOK(AddStrategy("delta")) /\ StepOK(Write)
  BY DEF StepOK, AddStrategy, Write, Names
<1> QED
  BY <1>1, <1>2, <1>3, <1>4, <1>5

\* The table of deploy_mainnet.js is in order.
LEMMA MainnetTable == TableOK("mainnet", MainnetSteps)
<1> DEFINE a == Deploy("distributor")
           b == DeployFor("vault")
           c == Set("vault", "caps")
<1>1. StepOK(a) /\ StepOK(b) /\ StepOK(c) /\ StepOK(Write)
  BY Forms DEF Names, Facts
<1>2. PlaceOK("mainnet", 1, a) /\ PlaceOK("mainnet", 2, b)
  BY DEF PlaceOK, Strategies, Deploy, DeployFor
<1>3. PlaceOK("mainnet", 3, c) /\ PlaceOK("mainnet", 4, Write)
  BY DEF PlaceOK, Strategies, Set, Write
<1>4. MainnetSteps = <<a, b, c, Write>>
  BY DEF MainnetSteps
<1> HIDE DEF a, b, c
<1> QED
  BY <1>1, <1>2, <1>3, <1>4 DEF TableOK

\* The table of deploy_morpho_mainnet.js is in order.
LEMMA MorphoTable == TableOK("morpho", MorphoSteps)
<1> DEFINE a == Deploy("morpho")
           b == Set("morpho", "keeper")
           c == SetVault("morpho")
           d == Give("morpho", "safe")
           e == Verify("morpho")
<1>1. StepOK(a) /\ StepOK(b) /\ StepOK(c) /\ StepOK(d) /\ StepOK(e) /\ StepOK(Write)
  BY Forms DEF Names, Facts
<1>2. PlaceOK("morpho", 1, a) /\ PlaceOK("morpho", 2, b) /\ PlaceOK("morpho", 3, c)
  BY DEF PlaceOK, Strategies, VerifyAt, Deploy, Set, SetVault
<1>3. PlaceOK("morpho", 4, d) /\ PlaceOK("morpho", 5, e) /\ PlaceOK("morpho", 6, Write)
  BY DEF PlaceOK, Strategies, VerifyAt, Give, Verify, Write
<1>4. MorphoSteps = <<a, b, c, d, e, Write>>
  BY DEF MorphoSteps
<1> HIDE DEF a, b, c, d, e
<1> QED
  BY <1>1, <1>2, <1>3, <1>4 DEF TableOK
\* The table of transfer_ownership_mainnet.js is in order.
LEMMA TransferTable == TableOK("transfer", TransferSteps)
<1> DEFINE a == Hand("vault")
           b == Hand("distributor")
<1>1. /\ StepOK(a) /\ StepOK(b)
  BY Forms DEF Names, Facts
<1>2. PlaceOK("transfer", 1, a) /\ PlaceOK("transfer", 2, b)
  BY DEF PlaceOK, Strategies, Hand
<1>3. TransferSteps = <<a, b>>
  BY DEF TransferSteps
<1> HIDE DEF a, b
<1> QED
  BY <1>1, <1>2, <1>3 DEF TableOK

\* The table of deploy_pt_sleeve_mainnet.js is in order.
LEMMA SleeveTable == TableOK("sleeve", SleeveSteps)
<1> DEFINE a == Obtain("sleeve")
           b == Set("sleeve", "keeper")
           c == SetVault("sleeve")
           d == MaySet("sleeve", "params")
           e == Give("sleeve", "safe")
           f == Verify("sleeve")
<1>1. /\ StepOK(a) /\ StepOK(b) /\ StepOK(c) /\ StepOK(d) /\ StepOK(e)
      /\ StepOK(f) /\ StepOK(Write)
  BY Forms DEF Names, Facts
<1>2. PlaceOK("sleeve", 1, a) /\ PlaceOK("sleeve", 2, b) /\ PlaceOK("sleeve", 3, c)
  BY DEF PlaceOK, Strategies, VerifyAt, Obtain, Set, SetVault
<1>3. PlaceOK("sleeve", 4, d) /\ PlaceOK("sleeve", 5, e) /\ PlaceOK("sleeve", 6, f)
  BY DEF PlaceOK, Strategies, VerifyAt, MaySet, Give, Verify
<1>4. PlaceOK("sleeve", 7, Write)
  BY DEF PlaceOK, Strategies, VerifyAt, Write
<1>5. SleeveSteps = <<a, b, c, d, e, f, Write>>
  BY DEF SleeveSteps
<1> HIDE DEF a, b, c, d, e, f
<1> QED
  BY <1>1, <1>2, <1>3, <1>4, <1>5 DEF TableOK

\* The table of deploy_dn_mainnet.js is in order.
LEMMA DnTable == TableOK("dn", DnSteps)
<1> DEFINE a == Deploy("dn")
           b == Set("dn", "spot")
           c == Set("dn", "keeper")
           d == Give("dn", "safe")
           e == Verify("dn")
<1>1. /\ StepOK(a) /\ StepOK(b) /\ StepOK(c) /\ StepOK(d) /\ StepOK(e)
      /\ StepOK(Write)
  BY Forms DEF Names, Facts
<1>2. PlaceOK("dn", 1, a) /\ PlaceOK("dn", 2, b) /\ PlaceOK("dn", 3, c)
  BY DEF PlaceOK, Strategies, VerifyAt, Deploy, Set
<1>3. PlaceOK("dn", 4, d) /\ PlaceOK("dn", 5, e) /\ PlaceOK("dn", 6, Write)
  BY DEF PlaceOK, Strategies, VerifyAt, Give, Verify, Write
<1>4. DnSteps = <<a, b, c, d, e, Write>>
  BY DEF DnSteps
<1> HIDE DEF a, b, c, d, e
<1> QED
  BY <1>1, <1>2, <1>3, <1>4 DEF TableOK

\* The table of deploy_pyd_mainnet.js is in order.
LEMMA PydTable == TableOK("pyd", PydSteps)
<1> DEFINE a == Deploy("token")
           b == Deploy("staking")
           c == Deploy("funder")
           d == Deploy("discount")
           e == Give("staking", "funder")
           f == Set("funder", "paused")
           g == Give("token", "safe")
           h == Give("funder", "safe")
           i == Give("discount", "safe")
<1>1. /\ StepOK(a) /\ StepOK(b) /\ StepOK(c) /\ StepOK(d) /\ StepOK(e)
      /\ StepOK(f) /\ StepOK(g) /\ StepOK(h) /\ StepOK(i) /\ StepOK(Write)
  BY Forms DEF Names, Facts
<1>2. PlaceOK("pyd", 1, a) /\ PlaceOK("pyd", 2, b) /\ PlaceOK("pyd", 3, c)
  BY DEF PlaceOK, Strategies, Deploy
<1>3. PlaceOK("pyd", 4, d) /\ PlaceOK("pyd", 5, e) /\ PlaceOK("pyd", 6, f)
  BY DEF PlaceOK, Strategies, Deploy, Give, Set
<1>4. PlaceOK("pyd", 7, g) /\ PlaceOK("pyd", 8, h) /\ PlaceOK("pyd", 9, i)
  BY DEF PlaceOK, Strategies, Give
<1>5. PlaceOK("pyd", 10, Write)
  BY DEF PlaceOK, Strategies, Write
<1>6. PydSteps = <<a, b, c, d, e, f, g, h, i, Write>>
  BY DEF PydSteps
<1> HIDE DEF a, b, c, d, e, f, g, h, i
<1> QED
  BY <1>1, <1>2, <1>3, <1>4, <1>5, <1>6 DEF TableOK

\* The table of deploy_pt_executor_arb.js is in order.
LEMMA ExecutorTable == TableOK("executor", ExecutorSteps)
<1> DEFINE a == DeployFor("executor")
           b == MaySet("executor", "market")
<1>1. /\ StepOK(a) /\ StepOK(b) /\ StepOK(Write)
  BY Forms DEF Names, Facts
<1>2. PlaceOK("executor", 1, a) /\ PlaceOK("executor", 2, b) /\ PlaceOK("executor", 3, Write)
  BY DEF PlaceOK, Strategies, DeployFor, MaySet, Write
<1>3. ExecutorSteps = <<a, b, Write>>
  BY DEF ExecutorSteps
<1> HIDE DEF a, b
<1> QED
  BY <1>1, <1>2, <1>3 DEF TableOK

\* The table of deploy_v2.js is in order.
LEMMA SandboxTable == TableOK("sandbox", SandboxSteps)
<1> DEFINE a == Deploy("usdc")
           b == Deploy("token")
           c == Deploy("distributor")
           d == Deploy("staking")
           e == Deploy("vault")
           f == Deploy("delta")
           g == Deploy("oracle")
           h == Deploy("source")
           i == Set("delta", "oracle")
           j == Set("delta", "funding source")
           k == Set("source", "funded")
           l == Set("staking", "rewards")
           n == AddStrategy("delta")
           o == SetVault("delta")
           p == MaySet("delta", "position")
<1>1. /\ StepOK(a) /\ StepOK(b) /\ StepOK(c) /\ StepOK(d) /\ StepOK(e)
      /\ StepOK(f) /\ StepOK(g) /\ StepOK(h) /\ StepOK(i) /\ StepOK(j)
      /\ StepOK(k) /\ StepOK(l) /\ StepOK(Write) /\ StepOK(n) /\ StepOK(o)
      /\ StepOK(p)
  BY Forms DEF Names, Facts
<1>2. PlaceOK("sandbox", 1, a) /\ PlaceOK("sandbox", 2, b) /\ PlaceOK("sandbox", 3, c)
  BY DEF PlaceOK, Strategies, Deploy
<1>3. PlaceOK("sandbox", 4, d) /\ PlaceOK("sandbox", 5, e) /\ PlaceOK("sandbox", 6, f)
  BY DEF PlaceOK, Strategies, Deploy
<1>4. PlaceOK("sandbox", 7, g) /\ PlaceOK("sandbox", 8, h) /\ PlaceOK("sandbox", 9, i)
  BY DEF PlaceOK, Strategies, Deploy, Set
<1>5. PlaceOK("sandbox", 10, j) /\ PlaceOK("sandbox", 11, k) /\ PlaceOK("sandbox", 12, l)
  BY DEF PlaceOK, Strategies, Set
<1>6. PlaceOK("sandbox", 13, Write) /\ PlaceOK("sandbox", 14, n) /\ PlaceOK("sandbox", 15, o)
  BY DEF PlaceOK, Strategies, Write, AddStrategy, SetVault
<1>7. PlaceOK("sandbox", 16, p)
  BY DEF PlaceOK, Strategies, MaySet
<1>8. SandboxSteps = <<a, b, c, d, e, f, g, h, i, j, k, l, Write, n, o, p>>
  BY DEF SandboxSteps
<1> HIDE DEF a, b, c, d, e, f, g, h, i, j, k, l, n, o, p
<1> QED
  BY <1>1, <1>2, <1>3, <1>4, <1>5, <1>6, <1>7, <1>8 DEF TableOK

\* So is every script's.
LEMMA Tables == \A s \in Scripts : TableOK(s, Steps(s))
  BY MainnetTable, TransferTable, MorphoTable, SleeveTable, DnTable, PydTable,
     ExecutorTable, SandboxTable DEF Scripts, Steps

(***************************************************************************)
(* Types.                                                                  *)
(***************************************************************************)

\* What stands under a name is a contract of that kind.
LEMMA Named ==
    ASSUME DeployTypeOK, NEW n \in Names
    PROVE  /\ manifest[n] # 0 => /\ manifest[n] \in 1..Len(chain)
                                 /\ chain[manifest[n]] \in Contracts
                                 /\ chain[manifest[n]].name = n
           /\ bound[n] # 0 => /\ bound[n] \in 1..Len(chain)
                              /\ chain[bound[n]] \in Contracts
                              /\ chain[bound[n]].name = n
<1>1. /\ chain \in Seq(Contracts) /\ Len(chain) \in Nat /\ MaxContracts \in Nat
      /\ manifest[n] \in 0..MaxContracts /\ bound[n] \in 0..MaxContracts
      /\ NamesAContract(manifest) /\ NamesAContract(bound)
  BY DeploymentAssumption DEF DeployTypeOK
<1>2. manifest[n] # 0 => manifest[n] \in 1..Len(chain) /\ chain[manifest[n]].name = n
  BY <1>1 DEF NamesAContract
<1>3. bound[n] # 0 => bound[n] \in 1..Len(chain) /\ chain[bound[n]].name = n
  BY <1>1 DEF NamesAContract
<1> QED
  BY <1>1, <1>2, <1>3

\* What a step of a run finds: its row of the table, about a contract of the
\* right name or none yet.
LEMMA HereIsOK ==
    ASSUME DeployTypeOK, NEW op, Doing(op)
    PROVE  /\ script \in Scripts /\ pc \in Nat /\ Here.op = op
           /\ StepOK(Here) /\ PlaceOK(script, pc, Here)
           /\ Target \in 0..Len(chain)
           /\ Target # 0 => chain[Target] \in Contracts /\ chain[Target].name = Here.of
<1>1. script \in Scripts /\ pc \in Nat /\ pc \in 1..Len(Steps(script)) /\ Here.op = op
  BY DEF DeployTypeOK, Doing
<1>2. StepOK(Here) /\ PlaceOK(script, pc, Here)
  BY <1>1, Tables DEF TableOK, Here
<1>3. Here.of \in Names
  BY <1>2 DEF StepOK
<1>4. Target \in 0..MaxContracts /\ (Target # 0 => Target <= Len(chain) /\ chain[Target].name = Here.of)
  BY <1>3 DEF DeployTypeOK, NamesAContract, Target
<1>5. chain \in Seq(Contracts) /\ Len(chain) \in Nat /\ MaxContracts \in Nat
  BY DeploymentAssumption DEF DeployTypeOK
<1>6. Target \in 0..Len(chain)
  BY <1>4, <1>5
<1>7. Target # 0 => chain[Target] \in Contracts
  BY <1>5, <1>6
<1> QED
  BY <1>1, <1>2, <1>4, <1>6, <1>7

\* A contract is deployed behind the others.
LEMMA OneMore ==
    ASSUME DeployTypeOK, NEW n \in Names, NEW o \in {Deployer, Safe},
           Len(chain) < Room[file], chain' = Append(chain, Born(n, o))
    PROVE  /\ chain' \in Seq(Contracts) /\ Len(chain') = Len(chain) + 1
           /\ Len(chain') <= MaxContracts
           /\ \A i \in 1..Len(chain) : chain'[i] = chain[i]
           /\ chain'[Len(chain) + 1] = Born(n, o)
<1>1. chain \in Seq(Contracts) /\ Len(chain) \in Nat /\ Room[file] \in 0..MaxContracts
  BY DeploymentAssumption DEF DeployTypeOK
<1>2. Born(n, o) \in Contracts
  BY DeploymentAssumption DEF Born, Contracts
<1>3. MaxContracts \in Nat
  BY DeploymentAssumption
<1>4. Len(chain) + 1 <= MaxContracts
  BY <1>1, <1>3
<1> HIDE DEF Born
<1> QED
  BY <1>1, <1>2, <1>4, AppendProperties

\* A contract is changed where it stands.
LEMMA OneChanged ==
    ASSUME DeployTypeOK, NEW a \in 1..Len(chain), NEW c \in Contracts,
           chain' = [chain EXCEPT ![a] = c]
    PROVE  /\ chain' \in Seq(Contracts) /\ Len(chain') = Len(chain)
           /\ chain'[a] = c
           /\ \A i \in 1..Len(chain) : i # a => chain'[i] = chain[i]
<1>1. chain \in Seq(Contracts) /\ Len(chain) \in Nat
  BY DEF DeployTypeOK
<1> QED
  BY <1>1, ExceptSeq

\* What the contract of a row becomes.
Reset(f) == [chain[Target] EXCEPT !.facts = @ \cup {f}]
Relinked(a, v) == [chain[a] EXCEPT !.vault = v]
Passed(o) == [chain[Target] EXCEPT !.owner = o]

\* The transactions of a script change one contract of the deployer's: its
\* configuration or its owner, who is then another.
LEMMA SetEffect ==
    ASSUME DeployTypeOK, DoSet
    PROVE  /\ Target \in 1..Len(chain) /\ chain[Target].owner = Deployer
           /\ Reset(Here.arg) \in Contracts
           /\ chain' = [chain EXCEPT ![Target] = Reset(Here.arg)]
<1>1. PICK op \in {"set", "option"} : Doing(op)
  BY Zenon DEF DoSet
<1>2. StepOK(Here) /\ Here.op = op /\ Target \in 0..Len(chain)
      /\ (Target # 0 => chain[Target] \in Contracts)
  BY <1>1, HereIsOK
<1>3. Target # 0 /\ chain[Target].owner = Deployer
  BY DEF DoSet, OnlyOwner
<1>4. Here.arg \in Facts
  BY <1>1, <1>2 DEF StepOK
<1>5. Reset(Here.arg) \in Contracts
  BY <1>2, <1>3, <1>4 DEF Reset, Contracts
<1>6. chain' = [chain EXCEPT ![Target] = Reset(Here.arg)]
  BY DEF DoSet, Reset
<1>7. Target \in 1..Len(chain)
  BY <1>2, <1>3 DEF DeployTypeOK
<1> QED
  BY <1>3, <1>5, <1>6, <1>7

LEMMA LinkEffect ==
    ASSUME DeployTypeOK, DoLink
    PROVE  /\ Target \in 1..Len(chain) /\ chain[Target].owner = Deployer
           /\ Relinked(Target, bound["vault"]) \in Contracts
           /\ chain' = [chain EXCEPT ![Target] = Relinked(Target, bound["vault"])]
<1>1. Doing("link")
  BY DEF DoLink
<1>2. Target \in 0..Len(chain) /\ (Target # 0 => chain[Target] \in Contracts)
  BY <1>1, HereIsOK
<1>3. Target # 0 /\ chain[Target].owner = Deployer
  BY DEF DoLink, OnlyOwner
<1>4. bound["vault"] \in 0..MaxContracts
  BY DEF DeployTypeOK, Names
<1>5. Relinked(Target, bound["vault"]) \in Contracts
  BY <1>2, <1>3, <1>4 DEF Relinked, Contracts
<1>6. chain' = [chain EXCEPT ![Target] = Relinked(Target, bound["vault"])]
  BY DEF DoLink, Relinked
<1>7. Target \in 1..Len(chain)
  BY <1>2, <1>3 DEF DeployTypeOK
<1> QED
  BY <1>3, <1>5, <1>6, <1>7

LEMMA GiveEffect ==
    ASSUME DeployTypeOK, DoGive
    PROVE  /\ Target \in 1..Len(chain) /\ chain[Target].owner = Deployer
           /\ Recipient \in {Safe} \cup Address
           /\ Passed(Recipient) \in Contracts
           /\ chain' = [chain EXCEPT ![Target] = Passed(Recipient)]
<1>1. PICK op \in {"give", "hand"} : Doing(op)
  BY Zenon DEF DoGive
<1>2. StepOK(Here) /\ Here.op = op /\ Target \in 0..Len(chain)
      /\ (Target # 0 => chain[Target] \in Contracts)
  BY <1>1, HereIsOK
<1>3. Target # 0 /\ chain[Target].owner = Deployer /\ Recipient # 0
  BY DEF DoGive, OnlyOwner
<1>4. Here.arg \in {"safe", "funder"}
  BY <1>1, <1>2 DEF StepOK
<1>5. bound["funder"] \in 0..MaxContracts
  BY DEF DeployTypeOK, Names
<1>6. Recipient \in {Safe} \cup Address
  BY <1>3, <1>4, <1>5, DeploymentAssumption DEF Recipient, Address
<1>7. Passed(Recipient) \in Contracts
  BY <1>2, <1>3, <1>6 DEF Passed, Contracts
<1>8. chain' = [chain EXCEPT ![Target] = Passed(Recipient)]
  BY DEF DoGive, Passed
<1>9. Target \in 1..Len(chain)
  BY <1>2, <1>3 DEF DeployTypeOK
<1> QED
  BY <1>3, <1>6, <1>7, <1>8, <1>9
\* Contracts that stay keep their names, so the books that name them do.
LEMMA NamesStay ==
    ASSUME chain \in Seq(Contracts), chain' \in Seq(Contracts), Len(chain') >= Len(chain),
           \A i \in 1..Len(chain) : chain'[i].name = chain[i].name,
           NEW book \in [Names -> 0..MaxContracts], NamesAContract(book)
    PROVE  \A n \in Names : book[n] # 0 => book[n] <= Len(chain') /\ chain'[book[n]].name = n
<1>1. Len(chain) \in Nat /\ Len(chain') \in Nat /\ MaxContracts \in Nat
  BY DeploymentAssumption
<1> SUFFICES ASSUME NEW n \in Names, book[n] # 0
             PROVE  book[n] <= Len(chain') /\ chain'[book[n]].name = n
  OBVIOUS
<1>2. book[n] \in Nat /\ book[n] <= Len(chain) /\ chain[book[n]].name = n
  BY <1>1 DEF NamesAContract
<1>3. book[n] \in 1..Len(chain)
  BY <1>1, <1>2
<1> QED
  BY <1>1, <1>2, <1>3

\* So types hold after a step that changes one contract and not its name.
LEMMA TypeOfChange ==
    ASSUME DeployTypeOK, NEW a \in 1..Len(chain), NEW c \in Contracts,
           chain' = [chain EXCEPT ![a] = c], c.name = chain[a].name,
           manifest' = manifest, bound' = bound, file' = file,
           listed' \subseteq Address \X Address,
           script' \in Scripts \cup {"none"}, pc' \in Nat, signer' \in {"deployer", "safe"}
    PROVE  DeployTypeOK'
<1>1. /\ chain' \in Seq(Contracts) /\ Len(chain') = Len(chain)
      /\ chain'[a] = c
      /\ \A i \in 1..Len(chain) : i # a => chain'[i] = chain[i]
  BY OneChanged
<1>2. chain \in Seq(Contracts) /\ Len(chain) \in Nat /\ Len(chain) <= MaxContracts
  BY DEF DeployTypeOK
<1>3. \A i \in 1..Len(chain) : chain'[i].name = chain[i].name
  BY <1>1
<1>4. /\ manifest \in [Names -> 0..MaxContracts] /\ NamesAContract(manifest)
      /\ bound \in [Names -> 0..MaxContracts] /\ NamesAContract(bound)
  BY DEF DeployTypeOK
<1>5. NamesAContract(manifest)' /\ NamesAContract(bound)'
  <2>1. Len(chain') >= Len(chain)
    BY <1>1, <1>2
  <2> QED
    BY <1>1, <1>2, <1>3, <1>4, <2>1, NamesStay DEF NamesAContract
<1> QED
  BY <1>1, <1>2, <1>4, <1>5 DEF DeployTypeOK

\* Types hold at the start ...
LEMMA TypeInit == Init => DeployTypeOK
<1> SUFFICES ASSUME Init PROVE DeployTypeOK
  OBVIOUS
<1>1. chain \in Seq(Contracts) /\ Len(chain) = 0
  BY DEF Init
<1>2. Nothing \in [Names -> 0..MaxContracts] /\ \A n \in Names : Nothing[n] = 0
  BY DeploymentAssumption DEF Nothing
<1> QED
  BY <1>1, <1>2, DeploymentAssumption DEF Init, DeployTypeOK, NamesAContract

\* ... and after every step.
LEMMA TypeNext == DeployTypeOK /\ [Next]_vars => DeployTypeOK'
<1> SUFFICES ASSUME DeployTypeOK, [Next]_vars PROVE DeployTypeOK'
  OBVIOUS
<1>0. Nothing \in [Names -> 0..MaxContracts] /\ \A n \in Names : Nothing[n] = 0
  BY DeploymentAssumption DEF Nothing
<1>p. pc \in Nat /\ pc + 1 \in Nat
  BY DEF DeployTypeOK
<1>1. CASE UNCHANGED vars
  BY <1>1 DEF vars, run, DeployTypeOK, NamesAContract
<1>2. ASSUME NEW s \in Scripts, NEW force \in BOOLEAN, Start(s, force) PROVE DeployTypeOK'
  <2>1. bound' = Nothing \/ bound' = manifest
    BY <1>2 DEF Start, Opened
  <2>2. bound' \in [Names -> 0..MaxContracts]
        /\ \A n \in Names : bound'[n] # 0 => bound'[n] <= Len(chain) /\ chain[bound'[n]].name = n
    BY <2>1, <1>0 DEF DeployTypeOK, NamesAContract
  <2> QED
    BY <1>2, <2>2 DEF Start, DeployTypeOK, NamesAContract
<1>3. CASE Stop
  BY <1>3, <1>0 DEF Stop, DeployTypeOK, NamesAContract
<1>4. CASE DoDeploy
  <2>1. PICK op \in {"deploy", "obtain"} : Doing(op)
    BY <1>4, Zenon DEF DoDeploy
  <2>2. Here.of \in Names /\ script \in Scripts
    BY <2>1, HereIsOK DEF StepOK
  <2>3. PICK o \in {Deployer, Safe} : chain' = Append(chain, Born(Here.of, o))
    BY <1>4 DEF DoDeploy
  <2>4. /\ Len(chain) < Room[file] /\ bound' = [bound EXCEPT ![Here.of] = Len(chain) + 1]
        /\ script' = script /\ file' = file /\ pc' = pc + 1 /\ signer' = "deployer"
        /\ manifest' = manifest /\ listed' = listed
    BY <1>4 DEF DoDeploy, NewAddress, Onward, Sent
  <2>5. /\ chain' \in Seq(Contracts) /\ Len(chain') = Len(chain) + 1
        /\ Len(chain') <= MaxContracts
        /\ \A i \in 1..Len(chain) : chain'[i] = chain[i]
        /\ chain'[Len(chain) + 1] = Born(Here.of, o)
    BY <2>2, <2>3, <2>4, OneMore
  <2>6. chain \in Seq(Contracts) /\ Len(chain) \in Nat /\ MaxContracts \in Nat
    BY DeploymentAssumption DEF DeployTypeOK
  <2>7. /\ manifest \in [Names -> 0..MaxContracts] /\ NamesAContract(manifest)
        /\ bound \in [Names -> 0..MaxContracts] /\ NamesAContract(bound)
    BY DEF DeployTypeOK
  <2>8. bound' \in [Names -> 0..MaxContracts]
    BY <2>2, <2>4, <2>5, <2>6, <2>7
  <2>9. Len(chain') >= Len(chain) /\ \A i \in 1..Len(chain) : chain'[i].name = chain[i].name
    BY <2>5, <2>6
  <2>10. NamesAContract(manifest)'
    BY <2>4, <2>5, <2>6, <2>7, <2>9, NamesStay DEF NamesAContract
  <2>11. NamesAContract(bound)'
    <3>1. \A n \in Names : bound[n] # 0 => bound[n] <= Len(chain') /\ chain'[bound[n]].name = n
      BY <2>5, <2>6, <2>7, <2>9, NamesStay
    <3>2. chain'[Len(chain) + 1].name = Here.of
      BY <2>5 DEF Born
    <3> SUFFICES ASSUME NEW n \in Names, bound'[n] # 0
                 PROVE  bound'[n] <= Len(chain') /\ chain'[bound'[n]].name = n
      BY DEF NamesAContract
    <3>3. CASE n = Here.of
      BY <3>2, <3>3, <2>4, <2>5, <2>6, <2>7
    <3>4. CASE n # Here.of
      BY <3>1, <3>4, <2>4, <2>7
    <3> QED
      BY <3>3, <3>4
  <2> QED
    BY <2>2, <2>4, <2>5, <2>7, <2>8, <2>10, <2>11, <1>p DEF DeployTypeOK
<1>5. ASSUME NEW a \in Address, Attach(a) PROVE DeployTypeOK'
  <2>1. Doing("obtain") /\ a \in 1..Len(chain) /\ chain[a].name = Here.of
        /\ bound' = [bound EXCEPT ![Here.of] = a] /\ pc' = pc + 1
        /\ UNCHANGED <<file, chain, manifest, listed, script, signer>>
    BY <1>5 DEF Attach, Onward
  <2>2. Here.of \in Names
    BY <2>1, HereIsOK DEF StepOK
  <2>3. bound' \in [Names -> 0..MaxContracts]
    BY <2>1, <2>2 DEF DeployTypeOK, Address
  <2>4. \A n \in Names : bound'[n] # 0 => bound'[n] <= Len(chain) /\ chain[bound'[n]].name = n
    BY <2>1, <2>2 DEF DeployTypeOK, NamesAContract
  <2> QED
    BY <2>1, <2>3, <2>4, <1>p DEF DeployTypeOK, NamesAContract
<1>6. CASE Skip
  BY <1>6, <1>p DEF Skip, Onward, DeployTypeOK, NamesAContract
<1>7. CASE DoSet
  <2>1. Target \in 1..Len(chain) /\ Reset(Here.arg) \in Contracts
        /\ chain' = [chain EXCEPT ![Target] = Reset(Here.arg)]
    BY <1>7, SetEffect
  <2>2. Reset(Here.arg).name = chain[Target].name
    BY <2>1 DEF Reset, Contracts, DeployTypeOK
  <2> QED
    BY <1>7, <2>1, <2>2, <1>p, TypeOfChange DEF DoSet, Onward, Sent, DeployTypeOK
<1>8. CASE DoLink
  <2>1. Target \in 1..Len(chain) /\ Relinked(Target, bound["vault"]) \in Contracts
        /\ chain' = [chain EXCEPT ![Target] = Relinked(Target, bound["vault"])]
    BY <1>8, LinkEffect
  <2>2. Relinked(Target, bound["vault"]).name = chain[Target].name
    BY <2>1 DEF Relinked, Contracts, DeployTypeOK
  <2> QED
    BY <1>8, <2>1, <2>2, <1>p, TypeOfChange DEF DoLink, Onward, Sent, DeployTypeOK
<1>9. CASE DoGive
  <2>1. Target \in 1..Len(chain) /\ Passed(Recipient) \in Contracts
        /\ chain' = [chain EXCEPT ![Target] = Passed(Recipient)]
    BY <1>9, GiveEffect
  <2>2. Passed(Recipient).name = chain[Target].name
    BY <2>1 DEF Passed, Contracts, DeployTypeOK
  <2> QED
    BY <1>9, <2>1, <2>2, <1>p, TypeOfChange DEF DoGive, Onward, Sent, DeployTypeOK
<1>10. CASE DoList
  <2>1. Target \in 0..Len(chain)
    BY <1>10, HereIsOK DEF DoList
  <2>2. bound["vault"] \in 0..MaxContracts /\ bound["vault"] # 0 /\ Target # 0
    BY <1>10 DEF DoList, OnlyOwner, DeployTypeOK, Names
  <2>3. Len(chain) \in Nat /\ Len(chain) <= MaxContracts
    BY DEF DeployTypeOK
  <2>4. bound["vault"] \in Address /\ Target \in Address
    BY <2>1, <2>2, <2>3, DeploymentAssumption DEF Address
  <2> QED
    BY <1>10, <2>4, <1>p DEF DoList, Onward, Sent, DeployTypeOK, NamesAContract
<1>11. CASE DoWrite
  BY <1>11, <1>p DEF DoWrite, Onward, DeployTypeOK, NamesAContract
<1>12. ASSUME NEW n \in Strategies, SafeExec(n) PROVE DeployTypeOK'
  <2>0. n \in Names /\ "vault" \in Names
    BY DEF Strategies, Names
  <2>1. manifest[n] \in 1..Len(chain)
    BY <1>12, <2>0, DeploymentAssumption DEF SafeExec, DeployTypeOK, NamesAContract
  <2>2. manifest["vault"] \in 0..MaxContracts
    BY <2>0 DEF DeployTypeOK
  <2>3. /\ manifest' = manifest /\ bound' = bound /\ file' = file /\ script' = script
        /\ pc' = pc /\ signer' = "safe"
    BY <1>12 DEF SafeExec, Sent, run
  <2>4. CASE UNCHANGED chain /\ SafeOwns("vault")
             /\ listed' = listed \cup {<<manifest["vault"], manifest[n]>>}
    <3>1. manifest["vault"] \in Address /\ manifest[n] \in Address
      BY <2>1, <2>2, <2>4, DeploymentAssumption DEF SafeOwns, Address, DeployTypeOK
    <3> QED
      BY <2>3, <2>4, <3>1 DEF DeployTypeOK, NamesAContract
  <2>5. CASE UNCHANGED listed
             /\ chain' = [chain EXCEPT ![manifest[n]].vault = manifest["vault"]]
    <3>1. chain[manifest[n]] \in Contracts
      BY <2>1 DEF DeployTypeOK
    <3>2. Relinked(manifest[n], manifest["vault"]) \in Contracts
          /\ Relinked(manifest[n], manifest["vault"]).name = chain[manifest[n]].name
      BY <2>2, <3>1 DEF Relinked, Contracts
    <3>3. chain' = [chain EXCEPT ![manifest[n]] = Relinked(manifest[n], manifest["vault"])]
      BY <2>5 DEF Relinked
    <3> QED
      BY <2>1, <2>3, <2>5, <3>2, <3>3, TypeOfChange DEF DeployTypeOK
  <2> QED
    BY <1>12, <2>4, <2>5 DEF SafeExec
<1> QED
  BY <1>1, <1>2, <1>3, <1>4, <1>5, <1>6, <1>7, <1>8, <1>9, <1>10, <1>11, <1>12 DEF Next, RunStep
\* Every behaviour is of the right types.
THEOREM DeployTypeCorrect == Spec => []DeployTypeOK
  BY TypeInit, TypeNext, PTL DEF Spec

(***************************************************************************)
(* Custody.                                                                *)
(***************************************************************************)

\* A strategy in the manifest was handed over, and one in a script's memory
\* too, or the script has still to verify it.
CustodyInv ==
    \A n \in Strategies :
        /\ manifest[n] # 0 => chain[manifest[n]].owner # Deployer
        /\ bound[n] # 0 => (chain[bound[n]].owner # Deployer
                              \/ (script = n /\ pc <= VerifyAt[n]))

\* A step keeps the invariant when the contracts that stay do not fall back
\* to the deployer and the books and the run are left alone.
LEMMA CustodyStays ==
    ASSUME DeployTypeOK, CustodyInv,
           \A i \in 1..Len(chain) : chain[i].owner # Deployer => chain'[i].owner # Deployer,
           manifest' = manifest, bound' = bound, script' = script,
           pc' \in Nat, pc' <= pc \/ script \notin Strategies
               \/ (pc' = pc + 1 /\ pc # VerifyAt[script])
    PROVE  CustodyInv'
<1> SUFFICES ASSUME NEW n \in Strategies
             PROVE  /\ manifest[n] # 0 => chain'[manifest[n]].owner # Deployer
                    /\ bound[n] # 0 => (chain'[bound[n]].owner # Deployer
                              \/ (script = n /\ pc' <= VerifyAt[n]))
  BY DEF CustodyInv
<1>0. n \in Names /\ VerifyAt[n] \in Nat /\ pc \in Nat /\ Len(chain) \in Nat
  <2>1. VerifyAt[n] \in Nat /\ n \in Names
    BY DEF Strategies, VerifyAt, Names
  <2>2. chain \in Seq(Contracts) /\ pc \in Nat
    BY DEF DeployTypeOK
  <2> QED
    BY <2>1, <2>2
<1>1. (manifest[n] # 0 => manifest[n] \in 1..Len(chain))
      /\ (bound[n] # 0 => bound[n] \in 1..Len(chain))
  BY <1>0, DeploymentAssumption DEF DeployTypeOK, NamesAContract
<1>2. /\ manifest[n] # 0 => chain[manifest[n]].owner # Deployer
      /\ bound[n] # 0 => (chain[bound[n]].owner # Deployer
                              \/ (script = n /\ pc <= VerifyAt[n]))
  BY DEF CustodyInv
<1>3. script = n /\ pc <= VerifyAt[n] => pc' <= VerifyAt[n]
  BY <1>0
<1> QED
  BY <1>1, <1>2, <1>3
\* A script that has got to its verification does nothing else there.
LEMMA OnlyVerifies ==
    ASSUME DeployTypeOK, NEW op, Doing(op), op # "verify", script \in Strategies
    PROVE  pc # VerifyAt[script]
  BY HereIsOK DEF PlaceOK

\* The invariant holds at the start ...
LEMMA CustodyInit == Init => CustodyInv
  BY DEF Init, CustodyInv, Nothing, Strategies, Names

\* ... and after every step.
LEMMA CustodyNext == DeployTypeOK /\ CustodyInv /\ [Next]_vars => CustodyInv'
<1> SUFFICES ASSUME DeployTypeOK, CustodyInv, [Next]_vars PROVE CustodyInv'
  OBVIOUS
<1>n. \A n \in Strategies : n \in Names /\ Nothing[n] = 0 /\ VerifyAt[n] \in Nat /\ VerifyAt[n] > 1
  BY DEF Strategies, Names, Nothing, VerifyAt
<1>p. pc \in Nat /\ pc + 1 \in Nat /\ chain \in Seq(Contracts) /\ Len(chain) \in Nat
  BY DEF DeployTypeOK
<1>1. CASE UNCHANGED vars
  BY <1>1 DEF vars, run, CustodyInv
<1>2. ASSUME NEW s \in Scripts, NEW force \in BOOLEAN, Start(s, force) PROVE CustodyInv'
  <2>1. (bound' = Nothing \/ bound' = manifest) /\ manifest' = manifest /\ chain' = chain
    BY <1>2 DEF Start, Opened
  <2> QED
    BY <2>1, <1>n DEF CustodyInv
<1>3. CASE Stop
  BY <1>3, <1>n DEF Stop, CustodyInv
<1>4. CASE DoDeploy
  <2>1. PICK op \in {"deploy", "obtain"} : Doing(op)
    BY <1>4, Zenon DEF DoDeploy
  <2>2. Here.of \in Names /\ PlaceOK(script, pc, Here) /\ Here.op = op
    BY <2>1, HereIsOK DEF StepOK
  <2>3. PICK o \in {Deployer, Safe} : chain' = Append(chain, Born(Here.of, o))
    BY <1>4 DEF DoDeploy
  <2>4. /\ Len(chain) < Room[file] /\ bound' = [bound EXCEPT ![Here.of] = Len(chain) + 1]
        /\ script' = script /\ pc' = pc + 1 /\ manifest' = manifest
    BY <1>4 DEF DoDeploy, NewAddress, Onward
  <2>5. \A i \in 1..Len(chain) : chain'[i] = chain[i]
    BY <2>2, <2>3, <2>4, OneMore
  <2>6. Here.of \in Strategies => Here.of = script /\ pc = 1
    BY <2>1, <2>2 DEF PlaceOK
  <2>7. script \in Strategies => pc # VerifyAt[script]
    BY <2>1, OnlyVerifies
  <2> SUFFICES ASSUME NEW n \in Strategies
               PROVE  /\ manifest[n] # 0 => chain'[manifest[n]].owner # Deployer
                      /\ bound'[n] # 0 => (chain'[bound'[n]].owner # Deployer
                                             \/ (script = n /\ pc' <= VerifyAt[n]))
    BY <2>4 DEF CustodyInv
  <2>8. (manifest[n] # 0 => manifest[n] \in 1..Len(chain))
        /\ (bound[n] # 0 => bound[n] \in 1..Len(chain))
    BY <1>n, <1>p, DeploymentAssumption DEF DeployTypeOK, NamesAContract
  <2>9. /\ manifest[n] # 0 => chain[manifest[n]].owner # Deployer
        /\ bound[n] # 0 => (chain[bound[n]].owner # Deployer
                              \/ (script = n /\ pc <= VerifyAt[n]))
    BY DEF CustodyInv
  <2>10. CASE n = Here.of
    BY <2>4, <2>5, <2>6, <2>8, <2>9, <2>10, <1>n, <1>p
  <2>11. CASE n # Here.of
    <3>1. bound'[n] = bound[n]
      BY <2>4, <2>11, <1>n DEF DeployTypeOK
    <3> QED
      BY <3>1, <2>4, <2>5, <2>7, <2>8, <2>9, <1>n, <1>p
  <2> QED
    BY <2>10, <2>11
<1>5. ASSUME NEW a \in Address, Attach(a) PROVE CustodyInv'
  <2>1. Doing("obtain") /\ bound' = [bound EXCEPT ![Here.of] = a] /\ pc' = pc + 1
        /\ UNCHANGED <<chain, manifest, script>>
    BY <1>5 DEF Attach, Onward
  <2>2. Here.of \in Names /\ PlaceOK(script, pc, Here) /\ Here.op = "obtain"
    BY <2>1, HereIsOK DEF StepOK
  <2>3. Here.of \in Strategies => Here.of = script /\ pc = 1
    BY <2>2 DEF PlaceOK
  <2>4. script \in Strategies => pc # VerifyAt[script]
    BY <2>1, OnlyVerifies
  <2> SUFFICES ASSUME NEW n \in Strategies
               PROVE  bound'[n] # 0 => (chain[bound'[n]].owner # Deployer
                                          \/ (script = n /\ pc' <= VerifyAt[n]))
    BY <2>1 DEF CustodyInv
  <2>5. bound[n] # 0 => (chain[bound[n]].owner # Deployer \/ (script = n /\ pc <= VerifyAt[n]))
    BY DEF CustodyInv
  <2>6. CASE n = Here.of
    BY <2>1, <2>3, <2>6, <1>n, <1>p
  <2>7. CASE n # Here.of
    <3>1. bound'[n] = bound[n]
      BY <2>1, <2>7, <1>n DEF DeployTypeOK
    <3> QED
      BY <3>1, <2>1, <2>4, <2>5, <1>n, <1>p
  <2> QED
    BY <2>6, <2>7
<1>6. CASE Skip
  <2>1. pc' = pc + 1 /\ UNCHANGED <<script, chain, manifest, bound>>
    BY <1>6 DEF Skip, Onward
  <2>2. CASE script \in Strategies /\ pc = VerifyAt[script]
    <3>1. Doing("verify") /\ chain[Target].owner = Safe
      BY <1>6, <2>2, OnlyVerifies DEF Skip
    <3>2. Target = bound[script]
      BY <3>1, <2>2, HereIsOK DEF PlaceOK, Target
    <3>3. chain[bound[script]].owner # Deployer
      BY <3>1, <3>2 DEF Safe, Deployer
    <3> QED
      BY <2>1, <3>3 DEF CustodyInv
  <2>3. CASE ~(script \in Strategies /\ pc = VerifyAt[script])
    BY <2>1, <2>3, <1>p, CustodyStays
  <2> QED
    BY <2>2, <2>3
<1>7. ASSUME DoSet \/ DoLink \/ DoGive PROVE CustodyInv'
  <2>1. PICK op \in {"set", "option", "link", "give", "hand"} : Doing(op)
    BY <1>7, Zenon DEF DoSet, DoLink, DoGive
  <2>2. UNCHANGED <<manifest, bound, script>> /\ pc' = pc + 1
    BY <1>7, Zenon DEF DoSet, DoLink, DoGive, Onward
  <2>3. Target \in 1..Len(chain) /\ chain[Target].owner = Deployer
    BY <1>7, SetEffect, LinkEffect, GiveEffect
  <2>4. \A i \in 1..Len(chain) : i # Target => chain'[i] = chain[i]
    BY <1>7, SetEffect, LinkEffect, GiveEffect, OneChanged
  <2>5. \A i \in 1..Len(chain) : chain[i].owner # Deployer => chain'[i].owner # Deployer
    BY <2>3, <2>4
  <2>6. script \in Strategies => pc # VerifyAt[script]
    BY <2>1, OnlyVerifies
  <2> QED
    BY <2>2, <2>5, <2>6, <1>p, CustodyStays
<1>8. CASE DoList
  <2>1. Doing("list") /\ UNCHANGED <<manifest, bound, script, chain>> /\ pc' = pc + 1
    BY <1>8 DEF DoList, Onward
  <2>2. script \in Strategies => pc # VerifyAt[script]
    BY <2>1, OnlyVerifies
  <2> QED
    BY <2>1, <2>2, <1>p, CustodyStays
<1>9. CASE DoWrite
  <2>1. Doing("write") /\ manifest' = bound /\ UNCHANGED <<bound, script, chain>>
    BY <1>9 DEF DoWrite, Onward
  <2>2. script \in Strategies => pc > VerifyAt[script]
    BY <2>1, HereIsOK DEF PlaceOK
  <2>3. \A n \in Strategies : bound[n] # 0 => chain[bound[n]].owner # Deployer
    BY <2>2, <1>n, <1>p DEF CustodyInv
  <2> QED
    BY <2>1, <2>3 DEF CustodyInv
<1>10. ASSUME NEW n \in Strategies, SafeExec(n) PROVE CustodyInv'
  <2>1. UNCHANGED <<manifest, bound, script, pc>>
    BY <1>10 DEF SafeExec, run
  <2>2. manifest[n] \in 1..Len(chain)
    BY <1>10, <1>n, <1>p, DeploymentAssumption DEF SafeExec, DeployTypeOK, NamesAContract
  <2>3. chain' = chain \/ chain' = [chain EXCEPT ![manifest[n]].vault = manifest["vault"]]
    BY <1>10 DEF SafeExec
  <2>4. chain[manifest[n]] \in Contracts
    BY <2>2, <1>p
  <2>5. ASSUME chain' = [chain EXCEPT ![manifest[n]].vault = manifest["vault"]]
        PROVE  \A i \in 1..Len(chain) : chain'[i].owner = chain[i].owner
    <3>1. Relinked(manifest[n], manifest["vault"]).owner = chain[manifest[n]].owner
      BY <2>4 DEF Relinked, Contracts
    <3>2. chain' = [chain EXCEPT ![manifest[n]] = Relinked(manifest[n], manifest["vault"])]
      BY <2>5 DEF Relinked
    <3> QED
      BY <2>2, <3>1, <3>2, <1>p
  <2>6. \A i \in 1..Len(chain) : chain'[i].owner = chain[i].owner
    BY <2>3, <2>5
  <2> QED
    BY <2>1, <2>6, <1>p, CustodyStays
<1> QED
  BY <1>1, <1>2, <1>3, <1>4, <1>5, <1>6, <1>7, <1>8, <1>9, <1>10 DEF Next, RunStep
\* The mapping of a behaviour's states into Custody's.
Stages == [a \in Address |-> Stage(a)]
AllSettings == [a \in Address |-> Settings(a)]

\* A contract that changes leaves the others as they are in the abstract.
LEMMA OthersStay ==
    ASSUME chain \in Seq(Contracts), Len(chain') = Len(chain), NEW a \in Address,
           \A i \in 1..Len(chain) : i # a => chain'[i] = chain[i]
    PROVE  \A i \in Address : i # a => Stage(i)' = Stage(i) /\ Settings(i)' = Settings(i)
<1> SUFFICES ASSUME NEW i \in Address, i # a
             PROVE  Stage(i)' = Stage(i) /\ Settings(i)' = Settings(i)
  OBVIOUS
<1>1. Len(chain) \in Nat /\ i \in Nat /\ i >= 1
  BY DeploymentAssumption DEF Address
<1>2. CASE i > Len(chain)
  BY <1>2 DEF Stage, Settings
<1>3. CASE i \in 1..Len(chain)
  BY <1>3 DEF Stage, Settings
<1> QED
  BY <1>1, <1>2, <1>3

\* A deployed contract, and one of the deployer's.
LEMMA StageOf ==
    ASSUME DeployTypeOK, NEW a \in 1..Len(chain)
    PROVE  /\ a \in Address
           /\ Stage(a) = IF chain[a].owner = Deployer THEN "building" ELSE "handed"
           /\ Settings(a) = <<chain[a].facts, chain[a].vault>>
<1>1. chain \in Seq(Contracts) /\ Len(chain) \in Nat /\ Len(chain) <= MaxContracts
      /\ MaxContracts \in Nat
  BY DeploymentAssumption DEF DeployTypeOK
<1> QED
  BY <1>1 DEF Address, Stage, Settings
\* The initial state is Custody's.
LEMMA CustodyInitMaps == Init => C!Init
<1> SUFFICES ASSUME Init PROVE C!Init
  OBVIOUS
<1>1. Len(chain) = 0 /\ signer = "deployer"
  BY DEF Init
<1>2. \A a \in Address : Stage(a) = "none" /\ Settings(a) = <<{}, 0>>
  BY <1>1, DeploymentAssumption DEF Address, Stage, Settings
<1>3. Published = {}
  BY DEF Init, Published, Nothing, Strategies, Names
<1> QED
  BY <1>1, <1>2, <1>3 DEF C!Init

\* A change of one contract by its owner is a Configure.
LEMMA ConfigureMaps ==
    ASSUME DeployTypeOK, NEW a \in 1..Len(chain), NEW c \in Contracts,
           chain' = [chain EXCEPT ![a] = c], c.owner = chain[a].owner,
           manifest' = manifest,
           \/ chain[a].owner = Deployer /\ signer' = "deployer"
           \/ chain[a].owner # Deployer /\ signer' = "safe"
    PROVE  C!Next
<1>1. /\ chain' \in Seq(Contracts) /\ Len(chain') = Len(chain) /\ chain'[a] = c
      /\ \A i \in 1..Len(chain) : i # a => chain'[i] = chain[i]
  BY OneChanged
<1>2. chain \in Seq(Contracts) /\ Len(chain) \in Nat
  BY DEF DeployTypeOK
<1>3. a \in Address /\ Stage(a) = (IF chain[a].owner = Deployer THEN "building" ELSE "handed")
  BY StageOf
<1>4. Stage(a)' = Stage(a)
  BY <1>1, <1>2 DEF Stage
<1>5. \A i \in Address : i # a => Stage(i)' = Stage(i) /\ Settings(i)' = Settings(i)
  BY <1>1, <1>2, <1>3, OthersStay
<1>6. Stages' = Stages /\ Published' = Published
  BY <1>4, <1>5 DEF Stages, Published, Address
<1>7. \A d \in Address \ {a} : AllSettings'[d] = AllSettings[d]
  BY <1>5 DEF AllSettings, Address
<1>8. Stages[a] = (IF chain[a].owner = Deployer THEN "building" ELSE "handed")
  BY <1>3 DEF Stages
<1>9. C!Configure(a)
  BY <1>6, <1>7, <1>8 DEF C!Configure, Stages, AllSettings
<1> QED
  BY <1>3, <1>9 DEF C!Next

\* A contract that appears is a Create.
LEMMA CreateMaps ==
    ASSUME DeployTypeOK, NEW n \in Names, NEW o \in {Deployer, Safe}, NEW a, a = Len(chain) + 1,
           Len(chain) < Room[file], chain' = Append(chain, Born(n, o)),
           manifest' = manifest, signer' = "deployer"
    PROVE  C!Next
<1>1. /\ Len(chain') = a /\ a <= MaxContracts
      /\ \A i \in 1..Len(chain) : chain'[i] = chain[i]
      /\ chain'[a] = Born(n, o)
  BY OneMore
<1>2. chain \in Seq(Contracts) /\ Len(chain) \in Nat
  BY DEF DeployTypeOK
<1>3. a \in Address /\ a \in Nat /\ a > Len(chain)
  BY <1>1, <1>2, DeploymentAssumption DEF Address
<1>4. Stage(a) = "none" /\ Settings(a) = <<{}, 0>>
  BY <1>3 DEF Stage, Settings
<1>5. Stage(a)' \in {"building", "handed"} /\ Settings(a)' = <<{}, 0>>
  <2>1. Born(n, o).facts = {} /\ Born(n, o).vault = 0
    BY DEF Born
  <2>2. ~(a > Len(chain'))
    BY <1>1, <1>3
  <2> QED
    BY <1>1, <2>1, <2>2 DEF Stage, Settings
<1>6. \A i \in Address : i # a => Stage(i)' = Stage(i) /\ Settings(i)' = Settings(i)
  <2> SUFFICES ASSUME NEW i \in Address, i # a
               PROVE  Stage(i)' = Stage(i) /\ Settings(i)' = Settings(i)
    OBVIOUS
  <2>1. i \in Nat /\ i >= 1
    BY DeploymentAssumption DEF Address
  <2>2. CASE i > Len(chain)
    <3>1. i > Len(chain')
      BY <1>1, <1>2, <2>1, <2>2
    <3> QED
      BY <2>2, <3>1 DEF Stage, Settings
  <2>3. CASE i <= Len(chain)
    <3>1. ~(i > Len(chain')) /\ ~(i > Len(chain)) /\ chain'[i] = chain[i]
      BY <1>1, <1>2, <2>1, <2>3
    <3> QED
      BY <3>1 DEF Stage, Settings
  <2> QED
    BY <1>2, <2>1, <2>2, <2>3
<1>7. Published' = Published
  BY DEF Published
<1>8. AllSettings' = AllSettings
  <2>1. \A i \in Address : Settings(i)' = Settings(i)
    BY <1>4, <1>5, <1>6
  <2> QED
    BY <2>1 DEF AllSettings, Address
<1>9. PICK s \in {"building", "handed"} : s = Stage(a)'
  BY <1>5
<1>10. Stages' = [Stages EXCEPT ![a] = s]
  BY <1>3, <1>6, <1>9 DEF Stages, Address
<1>11. Stages[a] = "none"
  BY <1>3, <1>4 DEF Stages
<1>12. C!Create(a)
  BY <1>7, <1>8, <1>9, <1>10, <1>11 DEF C!Create, Stages, AllSettings
<1> QED
  BY <1>3, <1>12 DEF C!Next

\* A contract of the deployer's that gets another owner is a HandOver.
LEMMA HandMaps ==
    ASSUME DeployTypeOK, NEW a \in 1..Len(chain), NEW c \in Contracts,
           chain' = [chain EXCEPT ![a] = c], chain[a].owner = Deployer, c.owner # Deployer,
           c.facts = chain[a].facts, c.vault = chain[a].vault,
           manifest' = manifest, signer' = "deployer"
    PROVE  C!Next
<1>1. /\ chain' \in Seq(Contracts) /\ Len(chain') = Len(chain) /\ chain'[a] = c
      /\ \A i \in 1..Len(chain) : i # a => chain'[i] = chain[i]
  BY OneChanged
<1>2. chain \in Seq(Contracts) /\ Len(chain) \in Nat
  BY DEF DeployTypeOK
<1>3. a \in Address /\ Stage(a) = "building" /\ ~(a > Len(chain))
  BY <1>2, StageOf
<1>4. Stage(a)' = "handed" /\ Settings(a)' = Settings(a)
  BY <1>1, <1>3 DEF Stage, Settings
<1>5. \A i \in Address : i # a => Stage(i)' = Stage(i) /\ Settings(i)' = Settings(i)
  BY <1>1, <1>2, <1>3, OthersStay
<1>6. Stages' = [Stages EXCEPT ![a] = "handed"]
  BY <1>3, <1>4, <1>5 DEF Stages, Address
<1>7. AllSettings' = AllSettings
  BY <1>4, <1>5 DEF AllSettings, Address
<1>8. Stages[a] = "building" /\ Published' = Published
  BY <1>3 DEF Stages, Published
<1>9. C!HandOver(a)
  BY <1>6, <1>7, <1>8 DEF C!HandOver, Stages, AllSettings
<1> QED
  BY <1>3, <1>9 DEF C!Next

\* A transaction that changes no contract, and the manifest to nothing but
\* handed-over strategies, is a Publish.
LEMMA PublishMaps ==
    ASSUME DeployTypeOK, CustodyInv', DeployTypeOK', chain' = chain,
           signer' \in {"deployer", "safe"}
    PROVE  C!Next
<1>1. Stages' = Stages /\ AllSettings' = AllSettings
  BY DEF Stages, AllSettings, Stage, Settings, Address
<1>2. Published' \subseteq {a \in Address : Stages'[a] = "handed"}
  <2> SUFFICES ASSUME NEW n \in Strategies, manifest'[n] # 0
               PROVE  manifest'[n] \in Address /\ Stages'[manifest'[n]] = "handed"
    BY DEF Published
  <2>1. n \in Names /\ chain \in Seq(Contracts)
    BY DEF Strategies, Names, DeployTypeOK
  <2>2. manifest'[n] \in 1..Len(chain)
    BY <2>1, DeploymentAssumption DEF DeployTypeOK, NamesAContract
  <2>3. chain[manifest'[n]].owner # Deployer
    BY DEF CustodyInv
  <2>4. manifest'[n] \in Address /\ Stage(manifest'[n]) = "handed"
    BY <2>2, <2>3, StageOf
  <2> QED
    BY <2>4, <1>1 DEF Stages
<1>3. C!Publish
  BY <1>1, <1>2 DEF C!Publish, C!Handed, Stages, AllSettings, Address
<1> QED
  BY <1>3 DEF C!Next
\* Every step is one of Custody, or none.
LEMMA CustodyStep ==
    DeployTypeOK /\ CustodyInv /\ DeployTypeOK' /\ CustodyInv' /\ [Next]_vars => [C!Next]_(C!vars)
<1> SUFFICES ASSUME DeployTypeOK, CustodyInv, DeployTypeOK', CustodyInv', [Next]_vars
             PROVE  [C!Next]_(C!vars)
  OBVIOUS
<1>p. chain \in Seq(Contracts) /\ Len(chain) \in Nat
  BY DEF DeployTypeOK
<1>1. ASSUME UNCHANGED <<chain, manifest, signer>> PROVE UNCHANGED C!vars
  <2>1. UNCHANGED <<Stages, AllSettings, Published>>
    BY <1>1 DEF Stages, AllSettings, Stage, Settings, Published, Address
  <2> QED
    BY <1>1, <2>1 DEF C!vars, Stages, AllSettings
<1>2. CASE UNCHANGED vars
  BY <1>1, <1>2 DEF vars
<1>3. ASSUME NEW s \in Scripts, NEW force \in BOOLEAN, Start(s, force) PROVE UNCHANGED C!vars
  BY <1>1, <1>3 DEF Start
<1>4. CASE Stop
  BY <1>1, <1>4 DEF Stop
<1>5. CASE Skip
  BY <1>1, <1>5 DEF Skip
<1>6. ASSUME NEW a \in Address, Attach(a) PROVE UNCHANGED C!vars
  BY <1>1, <1>6 DEF Attach
<1>7. CASE DoDeploy
  <2>1. PICK op \in {"deploy", "obtain"} : Doing(op)
    BY <1>7, Zenon DEF DoDeploy
  <2>2. Here.of \in Names
    BY <2>1, HereIsOK DEF StepOK
  <2>3. PICK o \in {Deployer, Safe} : chain' = Append(chain, Born(Here.of, o))
    BY <1>7 DEF DoDeploy
  <2>4. Len(chain) < Room[file] /\ manifest' = manifest /\ signer' = "deployer"
    BY <1>7 DEF DoDeploy, Sent
  <2> QED
    BY <2>2, <2>3, <2>4, CreateMaps
<1>8. CASE DoSet
  <2>1. Target \in 1..Len(chain) /\ chain[Target].owner = Deployer
        /\ Reset(Here.arg) \in Contracts /\ chain' = [chain EXCEPT ![Target] = Reset(Here.arg)]
    BY <1>8, SetEffect
  <2>2. Reset(Here.arg).owner = chain[Target].owner
    BY <2>1, <1>p DEF Reset, Contracts
  <2>3. manifest' = manifest /\ signer' = "deployer"
    BY <1>8 DEF DoSet, Sent
  <2> QED
    BY <2>1, <2>2, <2>3, ConfigureMaps
<1>9. CASE DoLink
  <2>1. Target \in 1..Len(chain) /\ chain[Target].owner = Deployer
        /\ Relinked(Target, bound["vault"]) \in Contracts
        /\ chain' = [chain EXCEPT ![Target] = Relinked(Target, bound["vault"])]
    BY <1>9, LinkEffect
  <2>2. Relinked(Target, bound["vault"]).owner = chain[Target].owner
    BY <2>1, <1>p DEF Relinked, Contracts
  <2>3. manifest' = manifest /\ signer' = "deployer"
    BY <1>9 DEF DoLink, Sent
  <2> QED
    BY <2>1, <2>2, <2>3, ConfigureMaps
<1>10. CASE DoGive
  <2>1. Target \in 1..Len(chain) /\ chain[Target].owner = Deployer
        /\ Recipient \in {Safe} \cup Address
        /\ Passed(Recipient) \in Contracts /\ chain' = [chain EXCEPT ![Target] = Passed(Recipient)]
    BY <1>10, GiveEffect
  <2>2. manifest' = manifest /\ signer' = "deployer"
    BY <1>10 DEF DoGive, Sent
  <2>3. Recipient # Deployer
    BY <2>1, DeploymentAssumption DEF Safe, Deployer, Address
  <2>4. chain[Target] \in Contracts
    BY <2>1, <1>p
  <2>5. Passed(Recipient).owner = Recipient /\ Passed(Recipient).facts = chain[Target].facts
        /\ Passed(Recipient).vault = chain[Target].vault
    BY <2>4 DEF Passed, Contracts
  <2> QED
    BY <2>1, <2>2, <2>3, <2>5, HandMaps
<1>11. CASE DoList
  BY <1>11, PublishMaps DEF DoList, Sent
<1>12. CASE DoWrite
  <2>1. chain' = chain /\ signer' \in {"deployer", "safe"}
    BY <1>12 DEF DoWrite, DeployTypeOK
  <2> QED
    BY <2>1, PublishMaps
<1>13. ASSUME NEW n \in Strategies, SafeExec(n) PROVE C!Next
  <2>1. manifest' = manifest /\ signer' = "safe" /\ n \in Names /\ "vault" \in Names
    BY <1>13 DEF SafeExec, Sent, Strategies, Names
  <2>2. CASE chain' = chain
    BY <2>1, <2>2, PublishMaps
  <2>3. CASE SafeOwns(n) /\ chain' = [chain EXCEPT ![manifest[n]].vault = manifest["vault"]]
    <3>1. manifest[n] \in 1..Len(chain) /\ chain[manifest[n]].owner # Deployer
      BY <2>1, <2>3, <1>p, DeploymentAssumption
      DEF SafeOwns, Safe, Deployer, DeployTypeOK, NamesAContract
    <3>2. manifest["vault"] \in 0..MaxContracts /\ chain[manifest[n]] \in Contracts
      BY <2>1, <3>1, <1>p DEF DeployTypeOK
    <3>3. Relinked(manifest[n], manifest["vault"]) \in Contracts
          /\ Relinked(manifest[n], manifest["vault"]).owner = chain[manifest[n]].owner
      BY <3>2 DEF Relinked, Contracts
    <3>4. chain' = [chain EXCEPT ![manifest[n]] = Relinked(manifest[n], manifest["vault"])]
      BY <2>3 DEF Relinked
    <3> QED
      BY <2>1, <3>1, <3>3, <3>4, ConfigureMaps
  <2> QED
    BY <1>13, <2>2, <2>3 DEF SafeExec
<1> QED
  BY <1>2, <1>3, <1>4, <1>5, <1>6, <1>7, <1>8, <1>9, <1>10, <1>11, <1>12, <1>13 DEF Next, RunStep

\* The deployment scripts implement Custody, for any number of contracts.
THEOREM DeploymentKeepsCustody == Spec => KeepsCustody
<1>1. Spec => [](DeployTypeOK /\ CustodyInv)
  BY TypeInit, TypeNext, CustodyInit, CustodyNext, PTL DEF Spec
<1>2. Spec => C!Init /\ [][C!Next]_(C!vars)
  BY <1>1, CustodyInitMaps, CustodyStep, PTL DEF Spec
<1> QED
  BY <1>2 DEF KeepsCustody, C!Spec
(***************************************************************************)
(* The token suite.                                                        *)
(***************************************************************************)

\* What a step never takes back: contracts, their configuration, and, but
\* from the deployer, their owner.
Forward ==
    /\ Len(chain) <= Len(chain')
    /\ \A i \in 1..Len(chain) :
          /\ chain'[i].name = chain[i].name
          /\ chain'[i].owner # chain[i].owner => DoGive /\ chain[i].owner = Deployer
          /\ chain[i].facts \subseteq chain'[i].facts

\* A change of one contract takes nothing back when that one does not.
LEMMA ForwardOne ==
    ASSUME DeployTypeOK, NEW a \in 1..Len(chain), NEW c \in Contracts,
           chain' = [chain EXCEPT ![a] = c], c.name = chain[a].name,
           c.owner # chain[a].owner => DoGive /\ chain[a].owner = Deployer,
           chain[a].facts \subseteq c.facts
    PROVE  Forward
<1>1. chain \in Seq(Contracts) /\ Len(chain) \in Nat
  BY DEF DeployTypeOK
<1>2. /\ Len(chain') = Len(chain) /\ chain'[a] = c
      /\ \A i \in 1..Len(chain) : i # a => chain'[i] = chain[i]
  BY OneChanged
<1> QED
  BY <1>1, <1>2 DEF Forward

\* No step takes anything back.
LEMMA StepsGoForward == DeployTypeOK /\ [Next]_vars => Forward
<1> SUFFICES ASSUME DeployTypeOK, [Next]_vars PROVE Forward
  OBVIOUS
<1>p. chain \in Seq(Contracts) /\ Len(chain) \in Nat
  BY DEF DeployTypeOK
<1>1. ASSUME chain' = chain PROVE Forward
  BY <1>1, <1>p DEF Forward
<1>2. CASE DoDeploy
  <2>1. PICK op \in {"deploy", "obtain"} : Doing(op)
    BY <1>2, Zenon DEF DoDeploy
  <2>2. Here.of \in Names
    BY <2>1, HereIsOK DEF StepOK
  <2>3. PICK o \in {Deployer, Safe} : chain' = Append(chain, Born(Here.of, o))
    BY <1>2 DEF DoDeploy
  <2>4. Len(chain) < Room[file]
    BY <1>2 DEF DoDeploy
  <2>5. Len(chain') = Len(chain) + 1 /\ \A i \in 1..Len(chain) : chain'[i] = chain[i]
    BY <2>2, <2>3, <2>4, OneMore
  <2> QED
    BY <2>5, <1>p DEF Forward
<1>3. CASE DoSet
  <2>1. Target \in 1..Len(chain) /\ Reset(Here.arg) \in Contracts
        /\ chain' = [chain EXCEPT ![Target] = Reset(Here.arg)]
    BY <1>3, SetEffect
  <2>2. chain[Target] \in Contracts
    BY <2>1, <1>p
  <2>3. Reset(Here.arg).name = chain[Target].name /\ Reset(Here.arg).owner = chain[Target].owner
        /\ chain[Target].facts \subseteq Reset(Here.arg).facts
    BY <2>2 DEF Reset, Contracts
  <2> QED
    BY <2>1, <2>3, ForwardOne
<1>4. CASE DoLink
  <2> DEFINE c == Relinked(Target, bound["vault"])
  <2>1. Target \in 1..Len(chain) /\ c \in Contracts /\ chain' = [chain EXCEPT ![Target] = c]
    BY <1>4, LinkEffect
  <2>2. chain[Target] \in Contracts
    BY <2>1, <1>p
  <2>3. c.name = chain[Target].name /\ c.owner = chain[Target].owner
        /\ chain[Target].facts \subseteq c.facts
    BY <2>2 DEF Relinked, Contracts
  <2> QED
    BY <2>1, <2>3, ForwardOne
<1>5. CASE DoGive
  <2>1. Target \in 1..Len(chain) /\ Passed(Recipient) \in Contracts
        /\ chain[Target].owner = Deployer
        /\ chain' = [chain EXCEPT ![Target] = Passed(Recipient)]
    BY <1>5, GiveEffect
  <2>2. chain[Target] \in Contracts
    BY <2>1, <1>p
  <2>3. Passed(Recipient).name = chain[Target].name
        /\ chain[Target].facts \subseteq Passed(Recipient).facts
    BY <2>2 DEF Passed, Contracts
  <2> QED
    BY <1>5, <2>1, <2>3, ForwardOne
<1>6. ASSUME NEW n \in Strategies, SafeExec(n) PROVE Forward
  <2>1. n \in Names /\ "vault" \in Names
    BY DEF Strategies, Names
  <2>2. manifest[n] \in 1..Len(chain) /\ manifest["vault"] \in 0..MaxContracts
    BY <1>6, <2>1, <1>p, DeploymentAssumption DEF SafeExec, DeployTypeOK, NamesAContract
  <2> DEFINE c == Relinked(manifest[n], manifest["vault"])
  <2>3. chain[manifest[n]] \in Contracts
    BY <2>2, <1>p
  <2>4. c \in Contracts /\ c.name = chain[manifest[n]].name
        /\ c.owner = chain[manifest[n]].owner /\ c.facts = chain[manifest[n]].facts
    BY <2>2, <2>3 DEF Relinked, Contracts
  <2>5. chain' = chain \/ chain' = [chain EXCEPT ![manifest[n]] = c]
    BY <1>6 DEF SafeExec, Relinked
  <2> HIDE DEF c
  <2> QED
    BY <2>2, <2>4, <2>5, <1>1, ForwardOne
<1>7. CASE UNCHANGED vars
  BY <1>1, <1>7 DEF vars
<1>8. ASSUME NEW s \in Scripts, NEW force \in BOOLEAN, Start(s, force) PROVE Forward
  BY <1>1, <1>8 DEF Start
<1>9. CASE Stop \/ Skip \/ DoList \/ DoWrite
  BY <1>1, <1>9 DEF Stop, Skip, DoList, DoWrite
<1>10. ASSUME NEW a \in Address, Attach(a) PROVE Forward
  BY <1>1, <1>10 DEF Attach
<1> QED
  BY <1>2, <1>3, <1>4, <1>5, <1>6, <1>7, <1>8, <1>9, <1>10 DEF Next, RunStep

\* How far the run of deploy_pyd_mainnet.js has wired the suite.
SuiteInv ==
    script = "pyd" =>
        /\ pc > 5 => bound["staking"] # 0 /\ chain[bound["staking"]].owner = bound["funder"]
        /\ pc > 6 => bound["funder"] # 0 /\ "paused" \in chain[bound["funder"]].facts
        /\ pc > 7 => bound["token"] # 0 /\ chain[bound["token"]].owner = Safe

\* What stands at the steps that wire the suite.
LEMMA SuiteSteps ==
    ASSUME DeployTypeOK, NEW op, Doing(op), script = "pyd"
    PROVE  /\ pc > 4 => op \notin {"deploy", "obtain"}
           /\ pc = 5 => op = "give" /\ Here.of = "staking" /\ Here.arg = "funder"
           /\ pc = 6 => op = "set" /\ Here.of = "funder" /\ Here.arg = "paused"
           /\ pc = 7 => op = "give" /\ Here.of = "token" /\ Here.arg = "safe"
  BY HereIsOK DEF PlaceOK

\* A step that leaves the memory alone keeps what has been wired.
LEMMA SuiteStays ==
    ASSUME DeployTypeOK, SuiteInv, Forward, script = "pyd",
           script' = script, bound' = bound, pc' = pc + 1,
           pc = 5 => bound["staking"] # 0 /\ chain'[bound["staking"]].owner = bound["funder"],
           pc = 6 => bound["funder"] # 0 /\ "paused" \in chain'[bound["funder"]].facts,
           pc = 7 => bound["token"] # 0 /\ chain'[bound["token"]].owner = Safe
    PROVE  SuiteInv'
<1>1. \A n \in {"staking", "funder", "token"} :
         bound[n] \in 0..MaxContracts /\ (bound[n] # 0 => bound[n] \in 1..Len(chain))
  <2> SUFFICES ASSUME NEW n \in {"staking", "funder", "token"}
               PROVE  bound[n] \in 0..MaxContracts /\ (bound[n] # 0 => bound[n] \in 1..Len(chain))
    OBVIOUS
  <2>1. n \in Names /\ chain \in Seq(Contracts)
    BY DEF Names, DeployTypeOK
  <2> QED
    BY <2>1, DeploymentAssumption DEF DeployTypeOK, NamesAContract
<1>2. bound["funder"] # Deployer /\ Safe # Deployer
  BY <1>1, DeploymentAssumption DEF Deployer, Safe
<1>3. pc \in Nat
  BY DEF DeployTypeOK
<1>4. pc > 5 => chain'[bound["staking"]].owner = bound["funder"] /\ bound["staking"] # 0
  BY <1>1, <1>2 DEF SuiteInv, Forward
<1>5. pc > 6 => "paused" \in chain'[bound["funder"]].facts /\ bound["funder"] # 0
  BY <1>1 DEF SuiteInv, Forward
<1>6. pc > 7 => chain'[bound["token"]].owner = Safe /\ bound["token"] # 0
  BY <1>1, <1>2 DEF SuiteInv, Forward
<1> QED
  BY <1>3, <1>4, <1>5, <1>6 DEF SuiteInv

\* The run of deploy_pyd_mainnet.js keeps its order.
LEMMA SuiteNext == DeployTypeOK /\ SuiteInv /\ [Next]_vars => SuiteInv'
<1> SUFFICES ASSUME DeployTypeOK, SuiteInv, [Next]_vars, script' = "pyd" PROVE SuiteInv'
  BY DEF SuiteInv
<1>f. Forward
  BY StepsGoForward
<1>p. pc \in Nat /\ chain \in Seq(Contracts)
  BY DEF DeployTypeOK
<1>1. CASE UNCHANGED vars
  BY <1>1 DEF vars, run, SuiteInv
<1>2. ASSUME NEW s \in Scripts, NEW force \in BOOLEAN, Start(s, force) PROVE SuiteInv'
  BY <1>2 DEF Start, SuiteInv
<1>3. CASE Stop
  BY <1>3 DEF Stop
<1>4. ASSUME NEW n \in Strategies, SafeExec(n) PROVE SuiteInv'
  BY <1>4 DEF SafeExec, run
<1>5. ASSUME DoDeploy \/ \E a \in Address : Attach(a) PROVE SuiteInv'
  <2>1. PICK op \in {"deploy", "obtain"} : Doing(op)
    BY <1>5, Zenon DEF DoDeploy, Attach
  <2>2. script' = script /\ pc' = pc + 1
    BY <1>5 DEF DoDeploy, Attach, Onward
  <2>3. pc <= 4
    BY <2>1, <2>2, <1>p, SuiteSteps
  <2> QED
    BY <2>2, <2>3, <1>p DEF SuiteInv
<1>6. CASE Skip
  <2>1. PICK op \in {"option", "hand", "verify"} : Doing(op)
    BY <1>6, Zenon DEF Skip
  <2>2. script' = script /\ pc' = pc + 1 /\ bound' = bound
    BY <1>6 DEF Skip, Onward
  <2>3. pc # 5 /\ pc # 6 /\ pc # 7
    BY <2>1, <2>2, SuiteSteps
  <2> QED
    BY <2>2, <2>3, <1>f, SuiteStays
<1>7. CASE DoLink \/ DoList \/ DoWrite
  <2>1. PICK op \in {"link", "list", "write"} : Doing(op)
    BY <1>7, Zenon DEF DoLink, DoList, DoWrite
  <2>2. script' = script /\ pc' = pc + 1 /\ bound' = bound
    BY <1>7 DEF DoLink, DoList, DoWrite, Onward
  <2>3. pc # 5 /\ pc # 6 /\ pc # 7
    BY <2>1, <2>2, SuiteSteps
  <2> QED
    BY <2>2, <2>3, <1>f, SuiteStays
<1>8. CASE DoSet
  <2>1. PICK op \in {"set", "option"} : Doing(op)
    BY <1>8, Zenon DEF DoSet
  <2>2. script' = script /\ pc' = pc + 1 /\ bound' = bound
    BY <1>8 DEF DoSet, Onward
  <2>3. pc # 5 /\ pc # 7
    BY <2>1, <2>2, SuiteSteps
  <2>4. Target \in 1..Len(chain) /\ Reset(Here.arg) \in Contracts
        /\ chain' = [chain EXCEPT ![Target] = Reset(Here.arg)]
    BY <1>8, SetEffect
  <2>5. chain'[Target] = Reset(Here.arg) /\ chain[Target] \in Contracts
    BY <2>4, <1>p
  <2>6. Here.arg \in chain'[Target].facts
    BY <2>5 DEF Reset, Contracts
  <2>7. pc = 6 => bound["funder"] # 0 /\ "paused" \in chain'[bound["funder"]].facts
    BY <2>1, <2>2, <2>4, <2>6, <1>p, SuiteSteps DEF Target
  <2> QED
    BY <2>2, <2>3, <2>7, <1>f, SuiteStays
<1>9. CASE DoGive
  <2>1. PICK op \in {"give", "hand"} : Doing(op)
    BY <1>9, Zenon DEF DoGive
  <2>2. script' = script /\ pc' = pc + 1 /\ bound' = bound
    BY <1>9 DEF DoGive, Onward
  <2>3. pc # 6
    BY <2>1, <2>2, SuiteSteps
  <2>4. Target \in 1..Len(chain) /\ Passed(Recipient) \in Contracts
        /\ chain' = [chain EXCEPT ![Target] = Passed(Recipient)]
    BY <1>9, GiveEffect
  <2>5. chain'[Target] = Passed(Recipient) /\ chain[Target] \in Contracts
    BY <2>4, <1>p
  <2>6. chain'[Target].owner = Recipient
    BY <2>5 DEF Passed, Contracts
  <2>7. pc = 5 => bound["staking"] # 0 /\ chain'[bound["staking"]].owner = bound["funder"]
    BY <2>1, <2>2, <2>4, <2>6, <1>p, SuiteSteps DEF Target, Recipient
  <2>8. pc = 7 => bound["token"] # 0 /\ chain'[bound["token"]].owner = Safe
    BY <2>1, <2>2, <2>4, <2>6, <1>p, SuiteSteps DEF Target, Recipient
  <2> QED
    BY <2>2, <2>3, <2>7, <2>8, <1>f, SuiteStays
<1> QED
  BY <1>1, <1>2, <1>3, <1>4, <1>5, <1>6, <1>7, <1>8, <1>9 DEF Next, RunStep

\* So the Safe gets the funder as it should.
LEMMA DormantNext ==
    DeployTypeOK /\ SuiteInv /\ SafeGetsDormantFunder /\ DeployTypeOK' /\ [Next]_vars
    => SafeGetsDormantFunder'
<1> SUFFICES ASSUME DeployTypeOK, SuiteInv, SafeGetsDormantFunder, DeployTypeOK', [Next]_vars,
                    NEW a \in 1..Len(chain'), chain'[a].name = "funder", chain'[a].owner = Safe
             PROVE  /\ "paused" \in chain'[a].facts
                    /\ \E c \in 1..Len(chain') : chain'[c].name = "staking" /\ chain'[c].owner = a
                    /\ \E c \in 1..Len(chain') : chain'[c].name = "token" /\ chain'[c].owner = Safe
  BY DEF SafeGetsDormantFunder
<1>f. Forward
  BY StepsGoForward
<1>p. Len(chain) \in Nat /\ Len(chain') \in Nat /\ chain \in Seq(Contracts) /\ Len(chain') <= MaxContracts
  BY DEF DeployTypeOK
<1>d. Safe # Deployer /\ a # Deployer
  BY <1>p DEF Safe, Deployer
\* What is needed of the state before, and it stays.
<1>1. ASSUME a \in 1..Len(chain), "paused" \in chain[a].facts,
             NEW c \in 1..Len(chain), chain[c].name = "staking", chain[c].owner = a,
             NEW d \in 1..Len(chain), chain[d].name = "token", chain[d].owner = Safe
      PROVE  /\ "paused" \in chain'[a].facts
             /\ \E x \in 1..Len(chain') : chain'[x].name = "staking" /\ chain'[x].owner = a
             /\ \E x \in 1..Len(chain') : chain'[x].name = "token" /\ chain'[x].owner = Safe
  <2>1. c \in 1..Len(chain') /\ d \in 1..Len(chain')
    BY <1>f, <1>p DEF Forward
  <2>2. chain'[c].name = "staking" /\ chain'[c].owner = a
    BY <1>1, <1>f, <1>d DEF Forward
  <2>3. chain'[d].name = "token" /\ chain'[d].owner = Safe
    BY <1>1, <1>f, <1>d DEF Forward
  <2> QED
    BY <1>1, <1>f, <2>1, <2>2, <2>3 DEF Forward
<1>2. CASE a \in 1..Len(chain) /\ chain[a].owner = Safe
  BY <1>1, <1>2, <1>f DEF SafeGetsDormantFunder, Forward
<1>3. CASE a \in 1..Len(chain) /\ chain[a].owner # Safe
  <2>1. DoGive /\ chain[a].name = "funder"
    BY <1>3, <1>f DEF Forward
  <2>2. Target \in 1..Len(chain) /\ chain' = [chain EXCEPT ![Target] = Passed(Recipient)]
    BY <2>1, GiveEffect
  <2>3. Target = a
    BY <2>2, <1>3, <1>p
  <2>4. PICK op \in {"give", "hand"} : Doing(op)
    BY <2>1, Zenon DEF DoGive
  <2>5. Here.of = "funder" /\ Here.op = op /\ PlaceOK(script, pc, Here)
    BY <2>1, <2>2, <2>3, <2>4, <1>3, HereIsOK
  <2>6. script = "pyd" /\ pc = 8
    BY <2>5 DEF PlaceOK
  <2>7. bound["funder"] = a
    BY <2>3, <2>5 DEF Target
  <2>8. /\ bound["staking"] # 0 /\ chain[bound["staking"]].owner = a
        /\ "paused" \in chain[a].facts
        /\ bound["token"] # 0 /\ chain[bound["token"]].owner = Safe
    BY <2>6, <2>7 DEF SuiteInv
  <2>9. "staking" \in Names /\ "token" \in Names
    BY DEF Names
  <2>10. /\ bound["staking"] \in 1..Len(chain) /\ chain[bound["staking"]].name = "staking"
         /\ bound["token"] \in 1..Len(chain) /\ chain[bound["token"]].name = "token"
    BY <2>8, <2>9, Named
  <2> QED
    BY <1>1, <1>3, <2>8, <2>10
<1>4. CASE a \notin 1..Len(chain)
  <2>1. CASE DoDeploy
    <3>1. PICK op \in {"deploy", "obtain"} : Doing(op)
      BY <2>1, Zenon DEF DoDeploy
    <3>2. Here.of \in Names /\ PlaceOK(script, pc, Here) /\ Here.op = op
      BY <3>1, HereIsOK DEF StepOK
    <3>3. PICK o \in {Deployer, Safe} :
             (o = Safe => Here.arg = "OWNER") /\ chain' = Append(chain, Born(Here.of, o))
      BY <2>1, <1>d DEF DoDeploy
    <3>4. Len(chain) < Room[file]
      BY <2>1 DEF DoDeploy
    <3>5. Len(chain') = Len(chain) + 1 /\ chain'[Len(chain) + 1] = Born(Here.of, o)
      BY <3>2, <3>3, <3>4, OneMore
    <3>6. a = Len(chain) + 1
      BY <1>4, <1>p, <3>5
    <3>7. Here.of = "funder" /\ o = Safe
      BY <3>5, <3>6 DEF Born
    <3> QED
      BY <3>1, <3>2, <3>3, <3>7 DEF PlaceOK
  <2>2. CASE Len(chain') = Len(chain)
    BY <2>2, <1>4
  <2>3. CASE DoSet
    BY <2>2, <2>3, SetEffect, OneChanged
  <2>4. CASE DoLink
    BY <2>2, <2>4, LinkEffect, OneChanged
  <2>5. CASE DoGive
    BY <2>2, <2>5, GiveEffect, OneChanged
  <2>6. ASSUME NEW n \in Strategies, SafeExec(n) PROVE Len(chain') = Len(chain)
    <3>1. chain' = chain \/ chain' = [chain EXCEPT ![manifest[n]].vault = manifest["vault"]]
      BY <2>6 DEF SafeExec
    <3> QED
      BY <3>1, <1>p
  <2>7. ASSUME chain' = chain PROVE Len(chain') = Len(chain)
    BY <2>7
  <2>8. ASSUME NEW s \in Scripts, NEW force \in BOOLEAN, Start(s, force) PROVE chain' = chain
    BY <2>8 DEF Start
  <2>9. ASSUME Stop \/ Skip \/ DoList \/ DoWrite \/ UNCHANGED vars PROVE chain' = chain
    BY <2>9 DEF Stop, Skip, DoList, DoWrite, vars
  <2>10. ASSUME NEW b \in Address, Attach(b) PROVE chain' = chain
    BY <2>10 DEF Attach
  <2> QED
    BY <2>1, <2>2, <2>3, <2>4, <2>5, <2>6, <2>7, <2>8, <2>9, <2>10 DEF Next, RunStep
<1> QED
  BY <1>2, <1>3, <1>4

\* The Safe never owns a funder that is not dormant and part of a suite.
THEOREM DormantWhenHanded == Spec => []SafeGetsDormantFunder
<1>1. Init => SuiteInv /\ SafeGetsDormantFunder
  BY DEF Init, SuiteInv, SafeGetsDormantFunder
<1>2. Spec => []DeployTypeOK
  BY DeployTypeCorrect
<1> QED
  BY <1>1, <1>2, SuiteNext, DormantNext, PTL DEF Spec

(***************************************************************************)
(* What is published is configured.                                        *)
(***************************************************************************)

\* Where the script that makes a contract sees to a need of it: after it makes
\* it and before it writes.  Its manifest has no other that makes one.
Sees(maker, n, f, at, s, i, e) ==
    /\ s = maker /\ i = at => e.op = "set" /\ e.of = n /\ e.arg = f
    /\ s = maker /\ e.op = "write" => i > at
    /\ e.op \in {"deploy", "obtain"} /\ e.of = n =>
          (s = maker /\ i < at) \/ (n = "vault" /\ s = "sandbox")

FillOK(s, i, e) ==
    /\ Sees("mainnet", "vault", "caps", 3, s, i, e)
    /\ Sees("morpho", "morpho", "keeper", 2, s, i, e)
    /\ Sees("sleeve", "sleeve", "keeper", 2, s, i, e)
    /\ Sees("dn", "dn", "spot", 2, s, i, e)
    /\ Sees("dn", "dn", "keeper", 3, s, i, e)
    /\ Sees("pyd", "funder", "paused", 6, s, i, e)
    /\ Sees("sandbox", "delta", "oracle", 9, s, i, e)
    /\ Sees("sandbox", "delta", "funding source", 10, s, i, e)

Maker(n) == CASE n = "vault" -> "mainnet" [] n = "funder" -> "pyd" [] n = "delta" -> "sandbox"
              [] OTHER -> n

FillAt(n, f) == CASE f = "caps" -> 3 [] f = "spot" -> 2 [] f = "paused" -> 6 [] f = "oracle" -> 9
                  [] f = "funding source" -> 10
                  [] f = "keeper" -> IF n = "dn" THEN 3 ELSE 2

LinkAt == 3

\* It links a strategy it makes, too; only the scripts that begin a manifest
\* make a vault; and a strategy goes to the Safe.
LinkOK(s, i, e) ==
    /\ e.op \in {"deploy", "obtain"} /\ e.of = "vault" => s \in {"mainnet", "sandbox"}
    /\ e.op = "obtain" => e.of = "sleeve"
    /\ s \in {"morpho", "sleeve"} =>
          /\ i = LinkAt => e.op = "link" /\ e.of = s
          /\ e.op \in {"deploy", "obtain"} => i < LinkAt
          /\ e.op = "write" => i > LinkAt
    /\ e.op = "link" => e.of \notin Strategies \/ (e.of = s /\ s \in {"morpho", "sleeve"})
    /\ e.op = "list" => s = "sandbox"
    /\ e.op \in {"give", "hand"} /\ e.of \in Strategies => e.arg = "safe"

\* The vault a strategy of a book obeys; the delta-neutral one may still obey
\* none.
Obeys(book, n) ==
    chain[book[n]].vault \in IF n = "dn" THEN {0, book["vault"]} ELSE {book["vault"]}

\* What a run has in hand, or is still going to configure or to link.
HandInv ==
    script # "none" =>
        /\ script \in ScriptsOf(file)
        /\ \A n \in Names : bound[n] # 0 =>
              \A f \in Needs(n) :
                  \/ f \in chain[bound[n]].facts
                  \/ script = Maker(n) /\ pc <= FillAt(n, f)
        /\ \A n \in Strategies : bound[n] # 0 =>
              \/ Obeys(bound, n)
              \/ n \in {"morpho", "sleeve"} /\ script = n /\ pc <= LinkAt
        /\ script \in {"mainnet", "sandbox"} => \A n \in Strategies : bound[n] = 0
        /\ script \in Strategies => bound["vault"] = manifest["vault"]
        /\ file = "main" => \A p \in listed : p[2] = bound["dn"] => p[1] = bound["vault"]

\* The manifest, and the vaults' lists.
BookInv ==
    /\ \A n \in Names : manifest[n] # 0 => Needs(n) \subseteq chain[manifest[n]].facts
    /\ \A n \in Strategies : manifest[n] # 0 => Obeys(manifest, n)
    /\ \A a \in 1..Len(chain) : chain[a].name \in Strategies => chain[a].owner \in {Deployer, Safe}
    /\ file = "main" =>
          \A p \in listed :
              /\ p[2] \in 1..Len(chain)
              /\ "keeper" \in chain[p[2]].facts /\ chain[p[2]].owner = Safe
              /\ chain[p[2]].vault \in IF chain[p[2]].name = "dn" THEN {0, p[1]} ELSE {p[1]}
              /\ p[2] = manifest["dn"] => p[1] = manifest["vault"]

FillsOK(s, table) ==
    \A i \in 1..Len(table) : FillOK(s, i, table[i]) /\ LinkOK(s, i, table[i])

\* deploy_mainnet.js sees to what it makes.
LEMMA MainnetFills == FillsOK("mainnet", MainnetSteps)
<1> DEFINE a == Deploy("distributor")
           b == DeployFor("vault")
           c == Set("vault", "caps")
<1>1. FillOK("mainnet", 1, a) /\ FillOK("mainnet", 2, b) /\ FillOK("mainnet", 3, c)
  BY DEF FillOK, Sees, Deploy, DeployFor, Set
<1>2. LinkOK("mainnet", 1, a) /\ LinkOK("mainnet", 2, b) /\ LinkOK("mainnet", 3, c)
  BY DEF LinkOK, LinkAt, Strategies, Deploy, DeployFor, Set
<1>3. FillOK("mainnet", 4, Write)
  BY DEF FillOK, Sees, Write
<1>4. LinkOK("mainnet", 4, Write)
  BY DEF LinkOK, LinkAt, Strategies, Write
<1>5. MainnetSteps = <<a, b, c, Write>>
  BY DEF MainnetSteps
<1> HIDE DEF a, b, c
<1> QED
  BY <1>1, <1>2, <1>3, <1>4, <1>5 DEF FillsOK

\* transfer_ownership_mainnet.js sees to what it makes.
LEMMA TransferFills == FillsOK("transfer", TransferSteps)
<1> DEFINE a == Hand("vault")
           b == Hand("distributor")
<1>1. FillOK("transfer", 1, a) /\ FillOK("transfer", 2, b)
  BY DEF FillOK, Sees, Hand
<1>2. LinkOK("transfer", 1, a) /\ LinkOK("transfer", 2, b)
  BY DEF LinkOK, LinkAt, Strategies, Hand
<1>3. TransferSteps = <<a, b>>
  BY DEF TransferSteps
<1> HIDE DEF a, b
<1> QED
  BY <1>1, <1>2, <1>3 DEF FillsOK

\* deploy_morpho_mainnet.js sees to what it makes.
LEMMA MorphoFills == FillsOK("morpho", MorphoSteps)
<1> DEFINE a == Deploy("morpho")
           b == Set("morpho", "keeper")
           c == SetVault("morpho")
           d == Give("morpho", "safe")
           e == Verify("morpho")
<1>1. FillOK("morpho", 1, a) /\ FillOK("morpho", 2, b) /\ FillOK("morpho", 3, c)
  BY DEF FillOK, Sees, Deploy, Set, SetVault
<1>2. LinkOK("morpho", 1, a) /\ LinkOK("morpho", 2, b) /\ LinkOK("morpho", 3, c)
  BY DEF LinkOK, LinkAt, Strategies, Deploy, Set, SetVault
<1>3. FillOK("morpho", 4, d) /\ FillOK("morpho", 5, e) /\ FillOK("morpho", 6, Write)
  BY DEF FillOK, Sees, Give, Verify, Write
<1>4. LinkOK("morpho", 4, d) /\ LinkOK("morpho", 5, e) /\ LinkOK("morpho", 6, Write)
  BY DEF LinkOK, LinkAt, Strategies, Give, Verify, Write
<1>5. MorphoSteps = <<a, b, c, d, e, Write>>
  BY DEF MorphoSteps
<1> HIDE DEF a, b, c, d, e
<1> QED
  BY <1>1, <1>2, <1>3, <1>4, <1>5 DEF FillsOK

\* deploy_pt_sleeve_mainnet.js sees to what it makes.
LEMMA SleeveFills == FillsOK("sleeve", SleeveSteps)
<1> DEFINE a == Obtain("sleeve")
           b == Set("sleeve", "keeper")
           c == SetVault("sleeve")
           d == MaySet("sleeve", "params")
           e == Give("sleeve", "safe")
           f == Verify("sleeve")
<1>1. FillOK("sleeve", 1, a) /\ FillOK("sleeve", 2, b) /\ FillOK("sleeve", 3, c)
  BY DEF FillOK, Sees, Obtain, Set, SetVault
<1>2. LinkOK("sleeve", 1, a) /\ LinkOK("sleeve", 2, b) /\ LinkOK("sleeve", 3, c)
  BY DEF LinkOK, LinkAt, Strategies, Obtain, Set, SetVault
<1>3. FillOK("sleeve", 4, d) /\ FillOK("sleeve", 5, e) /\ FillOK("sleeve", 6, f)
  BY DEF FillOK, Sees, MaySet, Give, Verify
<1>4. LinkOK("sleeve", 4, d) /\ LinkOK("sleeve", 5, e) /\ LinkOK("sleeve", 6, f)
  BY DEF LinkOK, LinkAt, Strategies, MaySet, Give, Verify
<1>5. FillOK("sleeve", 7, Write)
  BY DEF FillOK, Sees, Write
<1>6. LinkOK("sleeve", 7, Write)
  BY DEF LinkOK, LinkAt, Strategies, Write
<1>7. SleeveSteps = <<a, b, c, d, e, f, Write>>
  BY DEF SleeveSteps
<1> HIDE DEF a, b, c, d, e, f
<1> QED
  BY <1>1, <1>2, <1>3, <1>4, <1>5, <1>6, <1>7 DEF FillsOK

\* deploy_dn_mainnet.js sees to what it makes.
LEMMA DnFills == FillsOK("dn", DnSteps)
<1> DEFINE a == Deploy("dn")
           b == Set("dn", "spot")
           c == Set("dn", "keeper")
           d == Give("dn", "safe")
           e == Verify("dn")
<1>1. FillOK("dn", 1, a) /\ FillOK("dn", 2, b) /\ FillOK("dn", 3, c)
  BY DEF FillOK, Sees, Deploy, Set
<1>2. LinkOK("dn", 1, a) /\ LinkOK("dn", 2, b) /\ LinkOK("dn", 3, c)
  BY DEF LinkOK, LinkAt, Strategies, Deploy, Set
<1>3. FillOK("dn", 4, d) /\ FillOK("dn", 5, e) /\ FillOK("dn", 6, Write)
  BY DEF FillOK, Sees, Give, Verify, Write
<1>4. LinkOK("dn", 4, d) /\ LinkOK("dn", 5, e) /\ LinkOK("dn", 6, Write)
  BY DEF LinkOK, LinkAt, Strategies, Give, Verify, Write
<1>5. DnSteps = <<a, b, c, d, e, Write>>
  BY DEF DnSteps
<1> HIDE DEF a, b, c, d, e
<1> QED
  BY <1>1, <1>2, <1>3, <1>4, <1>5 DEF FillsOK

\* deploy_pyd_mainnet.js sees to what it makes.
LEMMA PydFills == FillsOK("pyd", PydSteps)
<1> DEFINE a == Deploy("token")
           b == Deploy("staking")
           c == Deploy("funder")
           d == Deploy("discount")
           e == Give("staking", "funder")
           f == Set("funder", "paused")
           g == Give("token", "safe")
           h == Give("funder", "safe")
           i == Give("discount", "safe")
<1>1. FillOK("pyd", 1, a) /\ FillOK("pyd", 2, b) /\ FillOK("pyd", 3, c)
  BY DEF FillOK, Sees, Deploy
<1>2. LinkOK("pyd", 1, a) /\ LinkOK("pyd", 2, b) /\ LinkOK("pyd", 3, c)
  BY DEF LinkOK, LinkAt, Strategies, Deploy
<1>3. FillOK("pyd", 4, d) /\ FillOK("pyd", 5, e) /\ FillOK("pyd", 6, f)
  BY DEF FillOK, Sees, Deploy, Give, Set
<1>4. LinkOK("pyd", 4, d) /\ LinkOK("pyd", 5, e) /\ LinkOK("pyd", 6, f)
  BY DEF LinkOK, LinkAt, Strategies, Deploy, Give, Set
<1>5. FillOK("pyd", 7, g) /\ FillOK("pyd", 8, h) /\ FillOK("pyd", 9, i)
  BY DEF FillOK, Sees, Give
<1>6. LinkOK("pyd", 7, g) /\ LinkOK("pyd", 8, h) /\ LinkOK("pyd", 9, i)
  BY DEF LinkOK, LinkAt, Strategies, Give
<1>7. FillOK("pyd", 10, Write)
  BY DEF FillOK, Sees, Write
<1>8. LinkOK("pyd", 10, Write)
  BY DEF LinkOK, LinkAt, Strategies, Write
<1>9. PydSteps = <<a, b, c, d, e, f, g, h, i, Write>>
  BY DEF PydSteps
<1> HIDE DEF a, b, c, d, e, f, g, h, i
<1> QED
  BY <1>1, <1>2, <1>3, <1>4, <1>5, <1>6, <1>7, <1>8, <1>9 DEF FillsOK

\* deploy_pt_executor_arb.js sees to what it makes.
LEMMA ExecutorFills == FillsOK("executor", ExecutorSteps)
<1> DEFINE a == DeployFor("executor")
           b == MaySet("executor", "market")
<1>1. FillOK("executor", 1, a) /\ FillOK("executor", 2, b) /\ FillOK("executor", 3, Write)
  BY DEF FillOK, Sees, DeployFor, MaySet, Write
<1>2. LinkOK("executor", 1, a) /\ LinkOK("executor", 2, b) /\ LinkOK("executor", 3, Write)
  BY DEF LinkOK, LinkAt, Strategies, DeployFor, MaySet, Write
<1>3. ExecutorSteps = <<a, b, Write>>
  BY DEF ExecutorSteps
<1> HIDE DEF a, b
<1> QED
  BY <1>1, <1>2, <1>3 DEF FillsOK

\* deploy_v2.js sees to what it makes.
LEMMA SandboxFills == FillsOK("sandbox", SandboxSteps)
<1> DEFINE a == Deploy("usdc")
           b == Deploy("token")
           c == Deploy("distributor")
           d == Deploy("staking")
           e == Deploy("vault")
           f == Deploy("delta")
           g == Deploy("oracle")
           h == Deploy("source")
           i == Set("delta", "oracle")
           j == Set("delta", "funding source")
           k == Set("source", "funded")
           l == Set("staking", "rewards")
           n == AddStrategy("delta")
           o == SetVault("delta")
           p == MaySet("delta", "position")
<1>1. FillOK("sandbox", 1, a) /\ FillOK("sandbox", 2, b) /\ FillOK("sandbox", 3, c)
  BY DEF FillOK, Sees, Deploy
<1>2. LinkOK("sandbox", 1, a) /\ LinkOK("sandbox", 2, b) /\ LinkOK("sandbox", 3, c)
  BY DEF LinkOK, LinkAt, Strategies, Deploy
<1>3. FillOK("sandbox", 4, d) /\ FillOK("sandbox", 5, e) /\ FillOK("sandbox", 6, f)
  BY DEF FillOK, Sees, Deploy
<1>4. LinkOK("sandbox", 4, d) /\ LinkOK("sandbox", 5, e) /\ LinkOK("sandbox", 6, f)
  BY DEF LinkOK, LinkAt, Strategies, Deploy
<1>5. FillOK("sandbox", 7, g) /\ FillOK("sandbox", 8, h) /\ FillOK("sandbox", 9, i)
  BY DEF FillOK, Sees, Deploy, Set
<1>6. LinkOK("sandbox", 7, g) /\ LinkOK("sandbox", 8, h) /\ LinkOK("sandbox", 9, i)
  BY DEF LinkOK, LinkAt, Strategies, Deploy, Set
<1>7. FillOK("sandbox", 10, j) /\ FillOK("sandbox", 11, k) /\ FillOK("sandbox", 12, l)
  BY DEF FillOK, Sees, Set
<1>8. LinkOK("sandbox", 10, j) /\ LinkOK("sandbox", 11, k) /\ LinkOK("sandbox", 12, l)
  BY DEF LinkOK, LinkAt, Strategies, Set
<1>9. FillOK("sandbox", 13, Write) /\ FillOK("sandbox", 14, n) /\ FillOK("sandbox", 15, o)
  BY DEF FillOK, Sees, Write, AddStrategy, SetVault
<1>10. LinkOK("sandbox", 13, Write) /\ LinkOK("sandbox", 14, n) /\ LinkOK("sandbox", 15, o)
  BY DEF LinkOK, LinkAt, Strategies, Write, AddStrategy, SetVault
<1>11. FillOK("sandbox", 16, p)
  BY DEF FillOK, Sees, MaySet
<1>12. LinkOK("sandbox", 16, p)
  BY DEF LinkOK, LinkAt, Strategies, MaySet
<1>13. SandboxSteps = <<a, b, c, d, e, f, g, h, i, j, k, l, Write, n, o, p>>
  BY DEF SandboxSteps
<1> HIDE DEF a, b, c, d, e, f, g, h, i, j, k, l, n, o, p
<1> QED
  BY <1>1, <1>2, <1>3, <1>4, <1>5, <1>6, <1>7, <1>8, <1>9, <1>10, <1>11, <1>12, <1>13 DEF FillsOK

\* So does every script.
LEMMA AllFill == \A s \in Scripts : FillsOK(s, Steps(s))
  BY MainnetFills, TransferFills, MorphoFills, SleeveFills, DnFills, PydFills,
     ExecutorFills, SandboxFills DEF Scripts, Steps

\* What a contract may need.
LEMMA NeedOf ==
    ASSUME NEW n \in Names, NEW f \in Needs(n)
    PROVE  \/ n = "vault" /\ f = "caps" /\ file = "main"
           \/ n = "morpho" /\ f = "keeper"
           \/ n = "sleeve" /\ f = "keeper"
           \/ n = "dn" /\ f = "spot"
           \/ n = "dn" /\ f = "keeper"
           \/ n = "funder" /\ f = "paused"
           \/ n = "delta" /\ f = "oracle"
           \/ n = "delta" /\ f = "funding source"
  BY DEF Needs

\* So at every step its maker sees to it.
LEMMA SeesTo ==
    ASSUME DeployTypeOK, HandInv, NEW op, Doing(op), NEW n \in Names, NEW f \in Needs(n)
    PROVE  /\ script = Maker(n) /\ pc = FillAt(n, f) => op = "set" /\ Here.of = n /\ Here.arg = f
           /\ script = Maker(n) /\ op = "write" => pc > FillAt(n, f)
           /\ op \in {"deploy", "obtain"} /\ Here.of = n => script = Maker(n) /\ pc < FillAt(n, f)
<1>1. /\ script \in Scripts /\ pc \in 1..Len(Steps(script)) /\ Here.op = op
      /\ script \in ScriptsOf(file) /\ script # "none"
  BY DEF DeployTypeOK, Doing, HandInv
<1>2. FillOK(script, pc, Here)
  BY <1>1, AllFill DEF FillsOK, Here
<1>3. file = "main" => script # "sandbox"
  BY <1>1 DEF ScriptsOf
<1>4. Sees(Maker(n), n, f, FillAt(n, f), script, pc, Here) /\ (n = "vault" => file = "main")
  <2>1. CASE n = "vault" /\ f = "caps" /\ file = "main"
    BY <1>2, <2>1 DEF FillOK, Maker, FillAt
  <2>2. CASE n = "morpho" /\ f = "keeper"
    BY <1>2, <2>2 DEF FillOK, Maker, FillAt
  <2>3. CASE n = "sleeve" /\ f = "keeper"
    BY <1>2, <2>3 DEF FillOK, Maker, FillAt
  <2>4. CASE n = "dn" /\ f = "spot"
    BY <1>2, <2>4 DEF FillOK, Maker, FillAt
  <2>5. CASE n = "dn" /\ f = "keeper"
    BY <1>2, <2>5 DEF FillOK, Maker, FillAt
  <2>6. CASE n = "funder" /\ f = "paused"
    BY <1>2, <2>6 DEF FillOK, Maker, FillAt
  <2>7. CASE n = "delta" /\ f = "oracle"
    BY <1>2, <2>7 DEF FillOK, Maker, FillAt
  <2>8. CASE n = "delta" /\ f = "funding source"
    BY <1>2, <2>8 DEF FillOK, Maker, FillAt
  <2> QED
    BY <2>1, <2>2, <2>3, <2>4, <2>5, <2>6, <2>7, <2>8, NeedOf
<1> QED
  BY <1>1, <1>3, <1>4 DEF Sees

\* What a row may link, obtain, list and hand over.
LEMMA LinksTo ==
    ASSUME DeployTypeOK, NEW op, Doing(op) PROVE LinkOK(script, pc, Here) /\ Here.op = op
<1>1. script \in Scripts /\ pc \in 1..Len(Steps(script)) /\ Here.op = op
  BY DEF DeployTypeOK, Doing
<1> QED
  BY <1>1, AllFill DEF FillsOK, Here

\* The places to set and to link are numbers.
LEMMA FillAtType == ASSUME NEW n \in Names, NEW f \in Needs(n) PROVE FillAt(n, f) \in Nat
  BY NeedOf DEF FillAt

\* A step that leaves the memory alone keeps what the run has in hand.
LEMMA HandStays ==
    ASSUME DeployTypeOK, HandInv, Forward, script # "none",
           UNCHANGED <<file, script, bound>>, pc' = pc + 1,
           manifest' \in {manifest, bound}, listed' = listed \/ file # "main",
           \A n \in Names : \A f \in Needs(n) :
              script = Maker(n) /\ pc = FillAt(n, f) /\ bound[n] # 0 =>
                 f \in chain'[bound[n]].facts,
           \A n \in Strategies : bound[n] # 0 =>
              chain'[bound[n]].vault \in {chain[bound[n]].vault, bound["vault"]},
           \A n \in {"morpho", "sleeve"} :
              script = n /\ pc = LinkAt /\ bound[n] # 0 => chain'[bound[n]].vault = bound["vault"]
    PROVE  HandInv'
<1>1. pc \in Nat /\ bound' = bound /\ script' = script
  BY DEF DeployTypeOK
<1>2. ASSUME NEW n \in Names, bound[n] # 0, NEW f \in Needs(n)
      PROVE  f \in chain'[bound[n]].facts \/ (script = Maker(n) /\ pc + 1 <= FillAt(n, f))
  <2>1. bound[n] \in 1..Len(chain)
    BY <1>2, Named
  <2>2. chain[bound[n]].facts \subseteq chain'[bound[n]].facts
    BY <2>1 DEF Forward
  <2>3. f \in chain[bound[n]].facts \/ (script = Maker(n) /\ pc <= FillAt(n, f))
    BY <1>2 DEF HandInv
  <2>4. FillAt(n, f) \in Nat
    BY FillAtType
  <2> QED
    BY <1>1, <1>2, <2>2, <2>3, <2>4
<1>3. ASSUME NEW n \in Strategies, bound[n] # 0
      PROVE  \/ Obeys(bound, n)'
             \/ n \in {"morpho", "sleeve"} /\ script = n /\ pc + 1 <= LinkAt
  <2>1. CASE Obeys(bound, n)
    BY <1>1, <1>3, <2>1 DEF Obeys
  <2>2. CASE n \in {"morpho", "sleeve"} /\ script = n /\ pc <= LinkAt
    <3>1. CASE pc = LinkAt
      BY <1>1, <1>3, <2>2, <3>1 DEF Obeys
    <3>2. CASE pc # LinkAt
      BY <1>1, <2>2, <3>2 DEF LinkAt
    <3> QED
      BY <3>1, <3>2
  <2> QED
    BY <1>3, <2>1, <2>2 DEF HandInv
<1>4. \A n \in Names : Needs(n)' = Needs(n)
  BY DEF Needs
<1>5. script \in Strategies => bound["vault"] = manifest'["vault"]
  BY DEF HandInv
<1> QED
  BY <1>1, <1>2, <1>3, <1>4, <1>5 DEF HandInv, ScriptsOf

\* A step that leaves the manifest alone keeps what it says.
LEMMA BookStays ==
    ASSUME DeployTypeOK, BookInv, Forward, UNCHANGED <<file, manifest>>,
           listed' = listed \/ file # "main",
           \A n \in Strategies : manifest[n] # 0 =>
              chain'[manifest[n]].vault \in {chain[manifest[n]].vault, manifest["vault"]},
           \A a \in 1..Len(chain') :
              chain'[a].name \in Strategies => chain'[a].owner \in {Deployer, Safe},
           file = "main" => \A p \in listed : chain'[p[2]].vault \in {chain[p[2]].vault, p[1]}
    PROVE  BookInv'
<1>1. ASSUME NEW n \in Names, manifest[n] # 0 PROVE Needs(n)' \subseteq chain'[manifest[n]].facts
  <2>1. manifest[n] \in 1..Len(chain)
    BY <1>1, Named
  <2>2. chain[manifest[n]].facts \subseteq chain'[manifest[n]].facts
    BY <2>1 DEF Forward
  <2>3. Needs(n)' = Needs(n)
    BY DEF Needs
  <2> QED
    BY <1>1, <2>2, <2>3 DEF BookInv
<1>2. \A n \in Strategies : manifest[n] # 0 => Obeys(manifest, n)'
  BY DEF BookInv, Obeys
<1>3. ASSUME file = "main", NEW p \in listed
      PROVE  /\ p[2] \in 1..Len(chain')
             /\ "keeper" \in chain'[p[2]].facts /\ chain'[p[2]].owner = Safe
             /\ chain'[p[2]].vault \in IF chain'[p[2]].name = "dn" THEN {0, p[1]} ELSE {p[1]}
             /\ p[2] = manifest["dn"] => p[1] = manifest["vault"]
  <2>1. /\ p[2] \in 1..Len(chain)
        /\ "keeper" \in chain[p[2]].facts /\ chain[p[2]].owner = Safe
        /\ chain[p[2]].vault \in IF chain[p[2]].name = "dn" THEN {0, p[1]} ELSE {p[1]}
        /\ p[2] = manifest["dn"] => p[1] = manifest["vault"]
    BY <1>3 DEF BookInv
  <2>2. Len(chain) \in Nat
    BY DEF DeployTypeOK
  <2>3. Safe # Deployer
    BY DEF Safe, Deployer
  <2>4. /\ chain'[p[2]].name = chain[p[2]].name
        /\ chain[p[2]].facts \subseteq chain'[p[2]].facts
        /\ chain'[p[2]].owner = chain[p[2]].owner
    BY <2>1, <2>3 DEF Forward
  <2>5. p[2] \in 1..Len(chain')
    BY <2>1, <2>2 DEF Forward
  <2>6. chain'[p[2]].vault \in {chain[p[2]].vault, p[1]}
    BY <1>3
  <2> QED
    BY <2>1, <2>4, <2>5, <2>6
<1> QED
  BY <1>1, <1>2, <1>3 DEF BookInv

\* A strategy stays with the deployer or the Safe.
LEMMA OwnersStay ==
    ASSUME DeployTypeOK, BookInv, NEW a \in 1..Len(chain), NEW c \in Contracts,
           chain' = [chain EXCEPT ![a] = c], c.name = chain[a].name,
           c.owner = chain[a].owner \/ (c.name \in Strategies => c.owner = Safe)
    PROVE  \A i \in 1..Len(chain') :
              chain'[i].name \in Strategies => chain'[i].owner \in {Deployer, Safe}
<1>1. /\ Len(chain') = Len(chain) /\ chain'[a] = c
      /\ \A i \in 1..Len(chain) : i # a => chain'[i] = chain[i]
  BY OneChanged
<1>2. \A i \in 1..Len(chain) : chain[i].name \in Strategies => chain[i].owner \in {Deployer, Safe}
  BY DEF BookInv
<1> SUFFICES ASSUME NEW i \in 1..Len(chain), chain'[i].name \in Strategies
             PROVE  chain'[i].owner \in {Deployer, Safe}
  BY <1>1
<1>3. CASE i = a
  BY <1>1, <1>2, <1>3
<1>4. CASE i # a
  BY <1>1, <1>2, <1>4
<1> QED
  BY <1>3, <1>4

\* A step that changes no contract keeps both.
LEMMA QuietPublished ==
    ASSUME DeployTypeOK, HandInv, BookInv, Skip \/ DoList PROVE HandInv' /\ BookInv'
<1>1. PICK op \in {"option", "hand", "verify", "list"} : Doing(op)
  BY Zenon DEF Skip, DoList
<1>2. /\ UNCHANGED <<file, script, bound, manifest, chain>> /\ pc' = pc + 1 /\ script # "none"
      /\ listed' = listed \/ DoList
  BY <1>1 DEF Skip, DoList, Onward, Doing
<1>3. Forward
  BY <1>2 DEF Forward, DeployTypeOK
<1>4. listed' = listed \/ file # "main"
  <2> SUFFICES ASSUME DoList PROVE file # "main"
    BY <1>2
  <2>1. Doing("list")
    BY DEF DoList
  <2>2. script = "sandbox" /\ script \in ScriptsOf(file)
    BY <1>2, <2>1, LinksTo DEF LinkOK, HandInv
  <2> QED
    BY <2>2 DEF ScriptsOf
<1>5. /\ \A n \in Names : \A f \in Needs(n) : ~(script = Maker(n) /\ pc = FillAt(n, f))
      /\ \A n \in {"morpho", "sleeve"} : ~(script = n /\ pc = LinkAt)
  BY <1>1, SeesTo, LinksTo DEF LinkOK
<1>6. HandInv'
  BY <1>2, <1>3, <1>4, <1>5, HandStays
<1>7. \A a \in 1..Len(chain') :
         chain'[a].name \in Strategies => chain'[a].owner \in {Deployer, Safe}
  BY <1>2 DEF BookInv
<1>8. BookInv'
  BY <1>2, <1>3, <1>4, <1>7, BookStays
<1> QED
  BY <1>6, <1>8

\* The script writes when it has seen to everything.
LEMMA WritePublished ==
    ASSUME DeployTypeOK, HandInv, BookInv, DoWrite PROVE HandInv' /\ BookInv'
<1>1. /\ Doing("write") /\ UNCHANGED <<file, script, bound, listed, chain>> /\ manifest' = bound
      /\ pc' = pc + 1 /\ script # "none"
  BY DEF DoWrite, Onward, Doing
<1>2. Forward
  BY <1>1 DEF Forward, DeployTypeOK
<1>3. /\ \A n \in Names : \A f \in Needs(n) : ~(script = Maker(n) /\ pc = FillAt(n, f))
      /\ \A n \in Names : \A f \in Needs(n) : script = Maker(n) => pc > FillAt(n, f)
      /\ \A n \in {"morpho", "sleeve"} : script = n => pc > LinkAt
  BY <1>1, SeesTo, LinksTo DEF LinkOK
<1>4. pc \in Nat /\ \A n \in {"morpho", "sleeve"} : ~(script = n /\ pc <= LinkAt)
  BY <1>3 DEF LinkAt, DeployTypeOK
<1>5. HandInv'
  BY <1>1, <1>2, <1>3, <1>4, HandStays DEF LinkAt
<1>6. \A n \in Names : bound[n] # 0 => Needs(n)' \subseteq chain'[bound[n]].facts
  <2> SUFFICES ASSUME NEW n \in Names, bound[n] # 0, NEW f \in Needs(n)
               PROVE  f \in chain[bound[n]].facts
    BY <1>1 DEF Needs
  <2>1. f \in chain[bound[n]].facts \/ (script = Maker(n) /\ pc <= FillAt(n, f))
    BY <1>1 DEF HandInv
  <2>2. FillAt(n, f) \in Nat
    BY FillAtType
  <2> QED
    BY <1>3, <1>4, <2>1, <2>2
<1>7. \A n \in Strategies : bound[n] # 0 => Obeys(manifest, n)'
  BY <1>1, <1>4 DEF HandInv, Obeys
<1> QED
  BY <1>1, <1>5, <1>6, <1>7 DEF BookInv, HandInv

\* A setting, and a hand-over.
LEMMA SetPublished ==
    ASSUME DeployTypeOK, HandInv, BookInv, Forward, DoSet PROVE HandInv' /\ BookInv'
<1>1. PICK op \in {"set", "option"} : Doing(op)
  BY Zenon DEF DoSet
<1>2. /\ UNCHANGED <<file, script, bound, manifest, listed>> /\ pc' = pc + 1 /\ script # "none"
  BY <1>1 DEF DoSet, Onward, Doing
<1> DEFINE c == Reset(Here.arg)
<1>3. /\ Target \in 1..Len(chain) /\ c \in Contracts /\ chain' = [chain EXCEPT ![Target] = c]
  BY SetEffect
<1>4. chain[Target] \in Contracts
  BY <1>3 DEF DeployTypeOK
<1>5. c.name = chain[Target].name /\ c.vault = chain[Target].vault
      /\ c.owner = chain[Target].owner /\ Here.arg \in c.facts
  BY <1>3, <1>4 DEF Reset, Contracts
<1> HIDE DEF c
<1>6. /\ chain'[Target] = c
      /\ \A i \in 1..Len(chain) : i # Target => chain'[i] = chain[i]
  BY <1>3, OneChanged
<1>7. \A i \in 1..Len(chain) : chain'[i].vault = chain[i].vault
  BY <1>5, <1>6
<1>8. \A i \in 1..Len(chain') :
         chain'[i].name \in Strategies => chain'[i].owner \in {Deployer, Safe}
  BY <1>3, <1>5, OwnersStay
<1>9. ASSUME NEW n \in Names, NEW f \in Needs(n), script = Maker(n), pc = FillAt(n, f),
             bound[n] # 0
      PROVE  f \in chain'[bound[n]].facts
  <2>1. Here.of = n /\ Here.arg = f
    BY <1>1, <1>9, SeesTo
  <2> QED
    BY <1>5, <1>6, <2>1 DEF Target
<1>10. \A n \in {"morpho", "sleeve"} : ~(script = n /\ pc = LinkAt)
  BY <1>1, LinksTo DEF LinkOK
<1>11. Strategies \subseteq Names
  BY DEF Strategies, Names
<1>12. HandInv'
  <2>1. \A n \in Strategies : bound[n] # 0 => chain'[bound[n]].vault = chain[bound[n]].vault
    BY <1>7, <1>11, Named
  <2> QED
    BY <1>2, <1>9, <1>10, <2>1, HandStays
<1>13. BookInv'
  <2>1. \A n \in Strategies : manifest[n] # 0 => chain'[manifest[n]].vault = chain[manifest[n]].vault
    BY <1>7, <1>11, Named
  <2>2. file = "main" => \A p \in listed : chain'[p[2]].vault = chain[p[2]].vault
    BY <1>7 DEF BookInv
  <2> QED
    BY <1>2, <1>8, <2>1, <2>2, BookStays
<1> QED
  BY <1>12, <1>13

LEMMA GivePublished ==
    ASSUME DeployTypeOK, HandInv, BookInv, Forward, DoGive PROVE HandInv' /\ BookInv'
<1>1. PICK op \in {"give", "hand"} : Doing(op)
  BY Zenon DEF DoGive
<1>2. /\ UNCHANGED <<file, script, bound, manifest, listed>> /\ pc' = pc + 1 /\ script # "none"
  BY <1>1 DEF DoGive, Onward, Doing
<1> DEFINE c == Passed(Recipient)
<1>3. /\ Target \in 1..Len(chain) /\ c \in Contracts /\ chain' = [chain EXCEPT ![Target] = c]
  BY GiveEffect
<1>4. chain[Target] \in Contracts /\ chain[Target].name = Here.of
  BY <1>1, <1>3, HereIsOK DEF DeployTypeOK
<1>5. c.name = chain[Target].name /\ c.vault = chain[Target].vault /\ c.owner = Recipient
  BY <1>3, <1>4 DEF Passed, Contracts
<1>6. c.name \in Strategies => c.owner = Safe
  BY <1>1, <1>4, <1>5, LinksTo DEF LinkOK, Recipient
<1> HIDE DEF c
<1>7. \A i \in 1..Len(chain) : chain'[i].vault = chain[i].vault
  <2>1. /\ chain'[Target] = c
        /\ \A i \in 1..Len(chain) : i # Target => chain'[i] = chain[i]
    BY <1>3, OneChanged
  <2> QED
    BY <1>5, <2>1
<1>8. \A i \in 1..Len(chain') :
         chain'[i].name \in Strategies => chain'[i].owner \in {Deployer, Safe}
  BY <1>3, <1>5, <1>6, OwnersStay
<1>9. /\ \A n \in Names : \A f \in Needs(n) : ~(script = Maker(n) /\ pc = FillAt(n, f))
      /\ \A n \in {"morpho", "sleeve"} : ~(script = n /\ pc = LinkAt)
  BY <1>1, SeesTo, LinksTo DEF LinkOK
<1>11. Strategies \subseteq Names
  BY DEF Strategies, Names
<1>12. HandInv'
  <2>1. \A n \in Strategies : bound[n] # 0 => chain'[bound[n]].vault = chain[bound[n]].vault
    BY <1>7, <1>11, Named
  <2> QED
    BY <1>2, <1>9, <2>1, HandStays
<1>13. BookInv'
  <2>1. \A n \in Strategies : manifest[n] # 0 => chain'[manifest[n]].vault = chain[manifest[n]].vault
    BY <1>7, <1>11, Named
  <2>2. file = "main" => \A p \in listed : chain'[p[2]].vault = chain[p[2]].vault
    BY <1>7 DEF BookInv
  <2> QED
    BY <1>2, <1>8, <2>1, <2>2, BookStays
<1> QED
  BY <1>12, <1>13

\* A link: of the strategy the script makes, and not of a listed one, which
\* the deployer has no more.
LEMMA LinkPublished ==
    ASSUME DeployTypeOK, HandInv, BookInv, Forward, DoLink PROVE HandInv' /\ BookInv'
<1>1. Doing("link")
  BY DEF DoLink
<1>2. /\ UNCHANGED <<file, script, bound, manifest, listed>> /\ pc' = pc + 1 /\ script # "none"
  BY <1>1 DEF DoLink, Onward, Doing
<1> DEFINE c == Relinked(Target, bound["vault"])
<1>3. /\ Target \in 1..Len(chain) /\ c \in Contracts /\ chain' = [chain EXCEPT ![Target] = c]
      /\ chain[Target].owner = Deployer
  BY LinkEffect
<1>4. chain[Target] \in Contracts /\ chain[Target].name = Here.of
  BY <1>1, <1>3, HereIsOK DEF DeployTypeOK
<1>5. c.name = chain[Target].name /\ c.vault = bound["vault"] /\ c.owner = chain[Target].owner
  BY <1>3, <1>4 DEF Relinked, Contracts
<1> HIDE DEF c
<1>6. /\ chain'[Target] = c
      /\ \A i \in 1..Len(chain) : i # Target => chain'[i] = chain[i]
  BY <1>3, OneChanged
<1>7. \A i \in 1..Len(chain) : chain'[i].vault \in {chain[i].vault, bound["vault"]}
  BY <1>5, <1>6
<1>8. \A i \in 1..Len(chain') :
         chain'[i].name \in Strategies => chain'[i].owner \in {Deployer, Safe}
  BY <1>3, <1>5, OwnersStay
<1>9. /\ \A n \in Names : \A f \in Needs(n) : ~(script = Maker(n) /\ pc = FillAt(n, f))
      /\ \A n \in {"morpho", "sleeve"} : script = n /\ pc = LinkAt => Here.of = n
      /\ Here.of \in Strategies => script \in Strategies
  BY <1>1, SeesTo, LinksTo DEF LinkOK, Strategies
<1>11. Strategies \subseteq Names
  BY DEF Strategies, Names
<1>12. HandInv'
  <2>1. \A n \in Strategies : bound[n] # 0 =>
           chain'[bound[n]].vault \in {chain[bound[n]].vault, bound["vault"]}
    BY <1>7, <1>11, Named
  <2>2. \A n \in {"morpho", "sleeve"} :
           script = n /\ pc = LinkAt /\ bound[n] # 0 => chain'[bound[n]].vault = bound["vault"]
    BY <1>5, <1>6, <1>9 DEF Target
  <2> QED
    BY <1>2, <1>9, <2>1, <2>2, HandStays
<1>13. BookInv'
  <2>1. ASSUME NEW n \in Strategies, manifest[n] # 0
        PROVE  chain'[manifest[n]].vault \in {chain[manifest[n]].vault, manifest["vault"]}
    <3>1. manifest[n] \in 1..Len(chain) /\ chain[manifest[n]].name = n
      BY <1>11, <2>1, Named
    <3>2. CASE manifest[n] = Target
      <4>1. Here.of = n
        BY <1>4, <3>1, <3>2
      <4>2. bound["vault"] = manifest["vault"]
        BY <1>2, <1>9, <4>1 DEF HandInv
      <4> QED
        BY <1>7, <3>1, <4>2
    <3>3. CASE manifest[n] # Target
      BY <1>6, <3>1, <3>3
    <3> QED
      BY <3>2, <3>3
  <2>2. ASSUME file = "main", NEW p \in listed PROVE chain'[p[2]].vault = chain[p[2]].vault
    <3>1. p[2] \in 1..Len(chain) /\ chain[p[2]].owner = Safe
      BY <2>2 DEF BookInv
    <3>2. p[2] # Target
      BY <1>3, <3>1 DEF Safe, Deployer
    <3> QED
      BY <1>6, <3>1, <3>2
  <2> QED
    BY <1>2, <1>8, <2>1, <2>2, BookStays
<1> QED
  BY <1>12, <1>13

\* A contract that is made, or found again, is still to be seen to.
LEMMA MadeInHand ==
    ASSUME DeployTypeOK, HandInv, BookInv, NEW op \in {"deploy", "obtain"}, Doing(op), NEW a,
           bound' = [bound EXCEPT ![Here.of] = a], pc' = pc + 1,
           \A i \in 1..Len(chain) : chain'[i] = chain[i],
           UNCHANGED <<file, script, manifest, listed>>,
           Here.of = "dn" => a \notin 1..Len(chain) /\ chain'[a].vault = 0
    PROVE  HandInv'
<1> DEFINE m == Here.of
<1>1. /\ script # "none" /\ script \in Scripts /\ pc \in Nat /\ Here.op = op /\ m \in Names
      /\ PlaceOK(script, pc, Here) /\ LinkOK(script, pc, Here)
      /\ bound \in [Names -> 0..MaxContracts]
  BY HereIsOK, LinksTo DEF Doing, StepOK, DeployTypeOK
<1>2. m \in Strategies => m = script /\ pc = 1
  BY <1>1 DEF PlaceOK
<1>3. m = "vault" => script \in {"mainnet", "sandbox"}
  BY <1>1 DEF LinkOK
<1>4. ~(script \in {"morpho", "sleeve"} /\ pc = LinkAt)
  BY <1>1 DEF LinkOK
<1>5. Strategies \subseteq Names /\ "vault" \in Names /\ "vault" \notin Strategies
      /\ "dn" \in Strategies
  BY DEF Strategies, Names
<1>6. \A n \in Names : bound'[n] = IF n = m THEN a ELSE bound[n]
  BY <1>1
<1>7. ASSUME NEW n \in Names, bound'[n] # 0, NEW f \in Needs(n)
      PROVE  f \in chain'[bound'[n]].facts \/ (script = Maker(n) /\ pc + 1 <= FillAt(n, f))
  <2>1. FillAt(n, f) \in Nat
    BY FillAtType
  <2>2. CASE n = m
    <3>1. script = Maker(n) /\ pc < FillAt(n, f)
      BY <2>2, SeesTo
    <3> QED
      BY <1>1, <2>1, <3>1
  <2>3. CASE n # m
    <3>1. bound'[n] = bound[n] /\ bound[n] \in 1..Len(chain)
      BY <1>6, <1>7, <2>3, Named
    <3>2. f \in chain[bound[n]].facts \/ (script = Maker(n) /\ pc <= FillAt(n, f))
      BY <1>1, <1>7, <3>1 DEF HandInv
    <3>3. ~(script = Maker(n) /\ pc = FillAt(n, f))
      BY SeesTo
    <3> QED
      BY <1>1, <2>1, <3>1, <3>2, <3>3
  <2> QED
    BY <2>2, <2>3
<1>8. ASSUME NEW n \in Strategies, bound'[n] # 0
      PROVE  \/ Obeys(bound, n)'
             \/ n \in {"morpho", "sleeve"} /\ script = n /\ pc + 1 <= LinkAt
  <2>1. CASE n = m /\ n = "dn"
    BY <1>5, <1>6, <2>1 DEF Obeys
  <2>2. CASE n = m /\ n # "dn"
    BY <1>2, <2>2 DEF LinkAt, Strategies
  <2>3. CASE n # m
    <3>1. bound'[n] = bound[n] /\ bound[n] \in 1..Len(chain)
      BY <1>5, <1>6, <1>8, <2>3, Named
    <3>2. m # "vault"
      BY <1>1, <1>3, <1>8, <3>1 DEF HandInv
    <3>3. bound'["vault"] = bound["vault"]
      BY <1>5, <1>6, <3>2
    <3>4. CASE Obeys(bound, n)
      BY <3>1, <3>3, <3>4 DEF Obeys
    <3>5. CASE n \in {"morpho", "sleeve"} /\ script = n /\ pc <= LinkAt
      BY <1>1, <1>4, <3>5 DEF LinkAt
    <3> QED
      BY <1>1, <1>8, <3>1, <3>4, <3>5 DEF HandInv
  <2> QED
    BY <2>1, <2>2, <2>3
<1>9. script \in {"mainnet", "sandbox"} => \A n \in Strategies : bound'[n] = 0
  BY <1>1, <1>2, <1>5, <1>6 DEF HandInv, Strategies
<1>10. script \in Strategies => bound'["vault"] = manifest["vault"]
  BY <1>1, <1>3, <1>5, <1>6 DEF HandInv, Strategies
<1>11. ASSUME file = "main", NEW p \in listed, p[2] = bound'["dn"] PROVE p[1] = bound'["vault"]
  <2>1. p[2] \in 1..Len(chain)
    BY <1>11 DEF BookInv
  <2>2. m # "dn"
    BY <1>5, <1>6, <1>11, <2>1
  <2>3. bound'["dn"] = bound["dn"] /\ bound["dn"] # 0
    BY <1>5, <1>6, <1>11, <2>1, <2>2
  <2>4. m # "vault"
    BY <1>1, <1>3, <1>5, <2>3 DEF HandInv
  <2> QED
    BY <1>1, <1>5, <1>6, <1>11, <2>3, <2>4 DEF HandInv
<1>12. \A n \in Names : Needs(n)' = Needs(n)
  BY DEF Needs
<1> HIDE DEF m
<1> QED
  BY <1>1, <1>7, <1>8, <1>9, <1>10, <1>11, <1>12 DEF HandInv, ScriptsOf

LEMMA DeployPublished ==
    ASSUME DeployTypeOK, HandInv, BookInv, DoDeploy PROVE HandInv' /\ BookInv'
<1>1. PICK op \in {"deploy", "obtain"} : Doing(op)
  BY Zenon DEF DoDeploy
<1>2. Here.of \in Names
  BY <1>1, HereIsOK DEF StepOK
<1>3. PICK o \in {Deployer, Safe} : chain' = Append(chain, Born(Here.of, o))
  BY DEF DoDeploy
<1>4. /\ Len(chain) < Room[file] /\ bound' = [bound EXCEPT ![Here.of] = Len(chain) + 1]
      /\ UNCHANGED <<file, script, manifest, listed>> /\ pc' = pc + 1
  BY DEF DoDeploy, NewAddress, Onward
<1>5. /\ Len(chain') = Len(chain) + 1
      /\ \A i \in 1..Len(chain) : chain'[i] = chain[i]
      /\ chain'[Len(chain) + 1] = Born(Here.of, o)
  BY <1>2, <1>3, <1>4, OneMore
<1>6. Len(chain) \in Nat
  BY DEF DeployTypeOK
<1>7. Forward
  BY <1>5, <1>6 DEF Forward
<1>8. HandInv'
  <2>1. Len(chain) + 1 \notin 1..Len(chain) /\ chain'[Len(chain) + 1].vault = 0
    BY <1>5, <1>6 DEF Born
  <2> QED
    BY <1>1, <1>4, <1>5, <2>1, MadeInHand
<1>9. \A i \in 1..Len(chain') :
         chain'[i].name \in Strategies => chain'[i].owner \in {Deployer, Safe}
  <2> SUFFICES ASSUME NEW i \in 1..Len(chain'), chain'[i].name \in Strategies
               PROVE  chain'[i].owner \in {Deployer, Safe}
    OBVIOUS
  <2>1. CASE i \in 1..Len(chain)
    BY <1>5, <2>1 DEF BookInv
  <2>2. CASE i = Len(chain) + 1
    BY <1>5, <2>2 DEF Born
  <2> QED
    BY <1>5, <1>6, <2>1, <2>2
<1>10. BookInv'
  <2>1. \A n \in Strategies : manifest[n] # 0 => chain'[manifest[n]].vault = chain[manifest[n]].vault
    BY <1>5, Named DEF Strategies, Names
  <2>2. file = "main" => \A p \in listed : chain'[p[2]].vault = chain[p[2]].vault
    BY <1>5 DEF BookInv
  <2> QED
    BY <1>4, <1>7, <1>9, <2>1, <2>2, BookStays
<1> QED
  BY <1>8, <1>10

LEMMA AttachPublished ==
    ASSUME DeployTypeOK, HandInv, BookInv, NEW a, Attach(a) PROVE HandInv' /\ BookInv'
<1>1. /\ Doing("obtain") /\ bound' = [bound EXCEPT ![Here.of] = a] /\ pc' = pc + 1
      /\ UNCHANGED <<file, script, manifest, listed, chain>>
  BY DEF Attach, Onward
<1>2. Here.of = "sleeve"
  BY <1>1, LinksTo DEF LinkOK
<1>3. HandInv'
  BY <1>1, <1>2, MadeInHand
<1>4. BookInv'
  BY <1>1 DEF BookInv, Needs, Obeys
<1> QED
  BY <1>3, <1>4

LEMMA StartPublished ==
    ASSUME DeployTypeOK, BookInv, NEW s \in Scripts, NEW force, Start(s, force)
    PROVE  HandInv' /\ BookInv'
<1>1. /\ script' = s /\ pc' = 1 /\ bound' = Opened(s) /\ s \in ScriptsOf(file)
      /\ UNCHANGED <<file, manifest, listed, chain>>
  BY DEF Start
<1>2. BookInv'
  BY <1>1 DEF BookInv, Needs, Obeys
<1>3. CASE s \in {"mainnet", "pyd", "sandbox"}
  <2>1. \A n \in Names : bound'[n] = 0
    BY <1>1, <1>3 DEF Opened, Nothing
  <2>2. s \notin Strategies /\ Strategies \subseteq Names
    BY <1>3 DEF Strategies, Names
  <2>3. bound'["dn"] = 0
    BY <2>1 DEF Names
  <2>4. file = "main" => \A p \in listed : p[2] \in 1..Len(chain)
    BY DEF BookInv
  <2>5. \A i \in 1..Len(chain) : i # 0
    BY DEF DeployTypeOK
  <2>6. file = "main" => \A p \in listed : p[2] # bound'["dn"]
    BY <2>3, <2>4, <2>5
  <2> QED
    BY <1>1, <1>2, <2>1, <2>2, <2>6 DEF HandInv, ScriptsOf
<1>4. CASE s \notin {"mainnet", "pyd", "sandbox"}
  <2>1. bound' = manifest
    BY <1>1, <1>4 DEF Opened
  <2>2. \A n \in Names : manifest[n] # 0 => \A f \in Needs(n)' : f \in chain'[manifest[n]].facts
    BY <1>1 DEF BookInv, Needs
  <2>3. \A n \in Strategies : manifest[n] # 0 => Obeys(bound, n)'
    BY <1>1, <2>1 DEF BookInv, Obeys
  <2>4. file = "main" => \A p \in listed : p[2] = manifest["dn"] => p[1] = manifest["vault"]
    BY DEF BookInv
  <2> QED
    BY <1>1, <1>2, <1>4, <2>1, <2>2, <2>3, <2>4 DEF HandInv, ScriptsOf
<1> QED
  BY <1>3, <1>4

\* The Safe lists a strategy that is configured, its own, and of that vault,
\* and never turns a listed one to another.
LEMMA SafeExecPublished ==
    ASSUME DeployTypeOK, CustodyInv, BookInv, Forward, NEW n \in Strategies, SafeExec(n)
    PROVE  HandInv' /\ BookInv'
<1>1. /\ script' = "none" /\ UNCHANGED <<file, manifest>> /\ manifest[n] # 0 /\ n \in Names
      /\ Strategies \subseteq Names
  BY DEF SafeExec, run, Strategies, Names
<1>2. /\ manifest[n] \in 1..Len(chain) /\ chain[manifest[n]] \in Contracts
      /\ chain[manifest[n]].name = n
  BY <1>1, Named
<1>3. HandInv'
  BY <1>1 DEF HandInv
<1>4. CASE UNCHANGED chain /\ listed' = listed \cup {<<manifest["vault"], manifest[n]>>}
  <2> DEFINE q == <<manifest["vault"], manifest[n]>>
  <2>1. "keeper" \in Needs(n) /\ Needs(n) \subseteq chain[manifest[n]].facts
    BY <1>1 DEF BookInv, Needs, Strategies
  <2>2. chain[manifest[n]].owner = Safe
    BY <1>1, <1>2 DEF BookInv, CustodyInv
  <2>3. chain[manifest[n]].vault \in
           IF chain[manifest[n]].name = "dn" THEN {0, manifest["vault"]} ELSE {manifest["vault"]}
    BY <1>1, <1>2 DEF BookInv, Obeys
  <2>4. ASSUME file = "main", NEW p \in listed'
        PROVE  /\ p[2] \in 1..Len(chain)
               /\ "keeper" \in chain[p[2]].facts /\ chain[p[2]].owner = Safe
               /\ chain[p[2]].vault \in IF chain[p[2]].name = "dn" THEN {0, p[1]} ELSE {p[1]}
               /\ p[2] = manifest["dn"] => p[1] = manifest["vault"]
    <3>1. CASE p \in listed
      BY <2>4, <3>1 DEF BookInv
    <3>2. CASE p = q
      <4>1. p[1] = manifest["vault"] /\ p[2] = manifest[n]
        BY <3>2
      <4> QED
        BY <1>2, <2>1, <2>2, <2>3, <4>1
    <3> QED
      BY <1>4, <3>1, <3>2
  <2> QED
    BY <1>1, <1>3, <1>4, <2>4 DEF BookInv, Needs, Obeys
<1>5. CASE /\ listed' = listed
           /\ chain' = [chain EXCEPT ![manifest[n]].vault = manifest["vault"]]
  <2> DEFINE c == Relinked(manifest[n], manifest["vault"])
  <2>1. manifest["vault"] \in 0..MaxContracts
    BY DEF DeployTypeOK, Names
  <2>2. /\ c \in Contracts /\ c.name = n /\ c.owner = chain[manifest[n]].owner
        /\ c.vault = manifest["vault"]
    BY <1>2, <2>1 DEF Relinked, Contracts
  <2>3. chain' = [chain EXCEPT ![manifest[n]] = c]
    BY <1>5 DEF Relinked
  <2> HIDE DEF c
  <2>4. /\ chain'[manifest[n]] = c
        /\ \A i \in 1..Len(chain) : i # manifest[n] => chain'[i] = chain[i]
    BY <1>2, <2>2, <2>3, OneChanged
  <2>5. \A i \in 1..Len(chain) : chain'[i].vault \in {chain[i].vault, manifest["vault"]}
    BY <2>2, <2>4
  <2>6. \A d \in Strategies : manifest[d] # 0 =>
           chain'[manifest[d]].vault \in {chain[manifest[d]].vault, manifest["vault"]}
    BY <1>1, <2>5, Named
  <2>7. \A i \in 1..Len(chain') :
           chain'[i].name \in Strategies => chain'[i].owner \in {Deployer, Safe}
    BY <1>2, <2>2, <2>3, OwnersStay
  <2>8. ASSUME file = "main", NEW p \in listed
        PROVE  chain'[p[2]].vault \in {chain[p[2]].vault, p[1]}
    <3>1. /\ p[2] \in 1..Len(chain) /\ (p[2] = manifest["dn"] => p[1] = manifest["vault"])
          /\ chain[p[2]].vault \in IF chain[p[2]].name = "dn" THEN {0, p[1]} ELSE {p[1]}
      BY <2>8 DEF BookInv
    <3>2. CASE p[2] # manifest[n]
      BY <2>4, <3>1, <3>2
    <3>3. CASE p[2] = manifest[n] /\ n = "dn"
      BY <2>2, <2>4, <3>1, <3>3
    <3>4. CASE p[2] = manifest[n] /\ n # "dn"
      <4>1. chain[manifest[n]].vault = manifest["vault"]
        BY <1>1, <3>4 DEF BookInv, Obeys
      <4> QED
        BY <2>2, <2>4, <3>4, <4>1
    <3> QED
      BY <3>2, <3>3, <3>4
  <2> QED
    BY <1>1, <1>3, <1>5, <2>6, <2>7, <2>8, BookStays
<1> QED
  BY <1>4, <1>5 DEF SafeExec

\* No step publishes what is not configured.
LEMMA PublishedStep ==
    DeployTypeOK /\ CustodyInv /\ HandInv /\ BookInv /\ [Next]_vars => HandInv' /\ BookInv'
<1> SUFFICES ASSUME DeployTypeOK, CustodyInv, HandInv, BookInv, [Next]_vars
             PROVE  HandInv' /\ BookInv'
  OBVIOUS
<1>1. Forward
  BY StepsGoForward
<1>2. CASE UNCHANGED vars
  BY <1>2 DEF vars, run, HandInv, BookInv, Needs, Obeys, ScriptsOf
<1>3. CASE Stop
  BY <1>3 DEF Stop, HandInv, BookInv, Needs, Obeys
<1> QED
  BY <1>1, <1>2, <1>3, QuietPublished, WritePublished, SetPublished, GivePublished,
     LinkPublished, DeployPublished, AttachPublished, StartPublished, SafeExecPublished
  DEF Next, RunStep

\* Whatever runs died or were forced before, a contract the manifest names is
\* configured, its strategies obey the vault it names, and a listed strategy
\* has its keeper, belongs to the Safe and obeys no other vault: for any number
\* of contracts.
THEOREM PublishedWhenConfigured == Spec => []PublishedIsConfigured
<1>1. Init => HandInv /\ BookInv
  <2> SUFFICES ASSUME Init PROVE HandInv /\ BookInv
    OBVIOUS
  <2>1. script = "none" /\ listed = {} /\ Len(chain) = 0
        /\ \A n \in Names : manifest[n] = 0
    BY DEF Init, Nothing
  <2> QED
    BY <2>1 DEF HandInv, BookInv, Strategies, Names
<1>2. Spec => [](DeployTypeOK /\ CustodyInv)
  BY TypeInit, TypeNext, CustodyInit, CustodyNext, PTL DEF Spec
<1>3. BookInv => PublishedIsConfigured
  BY DEF BookInv, PublishedIsConfigured, Obeys, Strategies
<1> QED
  BY <1>1, <1>2, <1>3, PublishedStep, PTL DEF Spec
=============================================================================
