# TLA+ models of the ProYield contracts and keepers

Models of the Solidity contracts under `contracts/` and of the keeper scripts
that drive, deploy and report on them, the TLC runs that check them on small
instances, and proofs of the main invariants for every instance.

## The system

A depositor puts USDC into **ProYieldVault** and gets shares. The vault's owner
allocates idle USDC to **strategies**, harvests their profit, takes a
performance fee to the **FeeDistributor**, and credits external yield back. A
strategy holds USDC on HyperEVM and moves it on to its **venue** (HyperCore,
Pendle on Arbitrum over CCTP, a Morpho market) through off-chain **keepers**,
which send one transaction at a time and read state in between. Token holders
stake PYD in **PYDStaking**, which **PYDFunder** tops up. Around them run the jobs
of the operator: a gas queue, a sentinel, a website feed, a daily attestation, and
the scripts that deploy the contracts and hand them to the treasury **Safe**.

| component | state it keeps | operations | talks to |
|---|---|---|---|
| ProYieldVault | shares, totalShares, totalAssets, strategy list and breakers, caps, fee | deposit, withdraw, withdrawUpTo, harvest, harvestStrategy, allocate, creditYield, reportLoss, emergencyWithdraw, owner setters | strategies (transfer, recall, harvest), FeeDistributor (transfer) |
| BaseStrategy | vault, isActive | recall, harvest, setVault, setActive | vault |
| FeeDistributor | totalFeesReceived, totalFeesRouted | receiveFees, route | vault, recycler |
| recycle_fees.js | local variables only | reconcile, split, route, credit (one retry) | FeeDistributor, vault |
| DNCoreStrategy, DNCoreBase | corePrincipal6, profitRealized, profitSwept, bufferBps, isActive, paused, perpAsset, spotAsset | bridgeUsdcToCore, bridgeBackToEvm, syncCore, harvest, recall, order wrappers | HyperCore by an asynchronous queue that drops what it cannot do |
| dn_keeper.js | none across passes | sync, loss alert, bridge profit, unwind, open, rebalance | DNCoreStrategy |
| PTSleeveStrategy | sent, in-transit and reported Arbitrum value | deployToArb, completeInbound, ackArrival, syncArbValue, pushIdle, recall | CCTP, executor's keeper |
| PTSleeveExecutor | market settings, caps | buyPT, sellPT, bridgeBack, confirmStrategyReturn | Pendle, CCTP |
| pt_loop.js | none across stages | deploy, receive, buy, sell, return | both sleeves |
| PYDStaking | stakes, reward per token, period, rewardsStored | stake, withdraw, getReward, exit, fundRewards | PYDToken, PYDFunder |
| PYDFunder | swapper, cap, pause | topUp | swapper, PYDStaking |
| PYDFeeDiscount | tiers, stakes, rebates | stake, unstake, exit, snapshotHarvest, claimRebate | FeeDistributor, PYDToken |
| MorphoStrategy | bufferBps, lastHarvestPosition, isActive, the position at the market | deploy, recall, harvest, setters | Morpho Blue, vault |
| DeltaNeutralStrategy | positions, funding index, accruedFunding | openPosition, closePosition, updateFunding, harvest | mock perp venue |
| gas_dripper.js | none across runs; the queue's status column | read the queue, send, wait, mark | D1, the tanks on Arbitrum and HyperEVM |
| vault_watch_mainnet.js | the state file of the last run | read, scan the events, write the state, alert | vault, alert channel |
| write_vault_status.js and its cron | the feed in two places, the pushed one | read, write, push | vault, strategies, the site |
| attestation.js, portfolio_snapshots.js and their cron | report, latest, series, their copies; the snapshot rows | read, write, copy, snapshot, push | vault, D1, the site |
| deployment scripts | one manifest file per product | deploy, configure, link, hand over, verify, write | the chain, the Safe |
| treasury Safe (safe_exec_mainnet.js) | ownership of the contracts | list a strategy, set what a script left | contracts |

Everything on one chain is a transaction: atomic, and undone by a failed
`require`. What is hard is what happens *between* transactions: two keepers,
depositors and venues interleave; a script crashes or retries after a lost
receipt; a message to HyperCore or over CCTP arrives late or is dropped without
an error; a keeper acts on a value it read a block ago; a job dies between two of
the files it writes; a deployment is resumed on what an earlier run left; floor
divisions meet their boundary.

## Modules

| module | models | extends |
|---|---|---|
| `ProYieldVault` | the vault; of a strategy, the amounts the vault can see | |
| `FeeRecycling` | FeeDistributor and `recycle_fees.js`, composed with the vault | `ProYieldVault` |
| `PYDStaking` | PYDStaking with block time | |
| `PTSleeve` | PTSleeveStrategy, PTSleeveExecutor, the CCTP messages between them, the stages of `pt_loop.js` | |
| `DNCore` | DNCoreStrategy over DNCoreBase, and HyperCore with its action queue | |
| `DNKeeper` | `dn_keeper.js` as a process over `DNCore` | `DNCore` |
| `MorphoStrategy` | MorphoStrategy and, by the value of its position, the market | |
| `GasDripper` | `gas_dripper.js`, its queue and its tanks | |
| `LiveVault` | the vault as a reader sees it: a log of blocks | |
| `VaultWatch`, `VaultStatus`, `Attestation` | the sentinel, the feed, the attestation with its snapshots and pushes | `LiveVault` |
| `Publishing` | the three jobs against a chain that moves | the three |
| `Custody` | what a deployment promises, without scripts: build, hand over once, configure, publish | |
| `Deployment` | eight deployment scripts as tables of steps, the manifests, the Safe; refines `Custody` | instance of `Custody` |
| `Arithmetic` | lemmas on products, floor division and sums over finite sets | |
| `..._proofs` | theorems about the module of that name; `ProYieldVault_proofs` also about `FeeRecycling`, `DNCore_proofs` about `DNKeeper` | the module, `Arithmetic`, `TLAPS` |
| `CronJobs_proofs` | theorems about `GasDripper` and `Publishing` | the two, `TLAPS` |
| `MC...` | model values and symmetry sets for TLC | the module they name |

One action is one transaction: its guards are the `require`s (and the places
where Solidity's checked arithmetic or a token transfer would revert), its
primed variables the storage it writes and the balances it moves. A step of a
script is one transaction it sends or one batch of reads, with everything else
of the system free to happen before the next. Amounts are whole token units,
bounded by a constant `MaxUint`; a step that would leave the bound is not taken.
Variables keep the names of the storage they stand for; those that are history
(what a property compares with) say so in their declaration. The line of code
behind each definition is in `PROJECT.json` under `map`. Operators marked
"mutant" beside a definition are wrong versions of it, each of which breaks a
property: they show that the property depends on the code.

### ProYieldVault

State: `shares`, `totalShares`, `totalAssets` (the books), the strategy list
with its breakers, caps, pause and fee, and the balances behind the books: the
vault (`idle`), the distributor (`feeBalance`), and for each strategy `held`
(what it can pay at once), `accrued` (the part of it a harvest sweeps) and
`deployed` (out at a venue). `Redeem` is shared by `Withdraw` and
`WithdrawUpTo`; `RecallShortfall` is the loop of `_recallShortfall`, written as
the state after its first n entries and stopped where the loop breaks. A
strategy registered twice is asked twice, as in the code. A strategy whose
harvest reverts is skipped by the vault's `try/catch`, so `Harvest` takes any
sweep from nothing to all that has accrued.

### FeeRecycling

The distributor's two calls, and a run of `recycle_fees.js` per element of
`Runs`: reconcile, read and split, route the boost, credit it, route the rest.
`creditYield` may fail, or be mined while the script sees an error, and is tried
once more; any step may be the run's last. The owner is assumed to do what the
documents ask: report a loss once and in its measured amount, route by hand only
while no run is active, and recover a failed credit by crediting it.

### PYDStaking

The accumulator, per user marks, and a clock that `Tick` moves between any two
transactions. `Interact` is the `updateReward` modifier, first in every entry
point.

### PTSleeve

Both contracts and a message per burn. `runbook` separates two keepers: one who
keeps the order of the operations runbook (acknowledge an arrival before using
it, attest what was read since, complete returns through the strategy), and one
who attests and acknowledges as he likes within the contract's checks. Safety of
the books' *bound* must not depend on the keeper; their *accuracy* does.

### DNCore and DNKeeper

A call to the contract appends to `queue`; `TakeUp` is HyperCore acting on the
head, moving all, a part or none of it, since it drops what it cannot do and
reports nothing. `Careful` is the keeper's discipline: he sends an action when
the last one has been taken up, and no more than HyperCore can carry out. The
precompiles read the state as it is now. `DNKeeper` adds the script: `pc` names
the next read or transaction, `work` the values it read and decided on, which the
steps after use however stale they are. Between two of its steps the vault's harvests
and recalls, prices, funding, liquidation and the owner's switches (pause, buffer) go
on; the coins are configured between runs. `Sync` and `Locate` are the reads the script
catches: when one fails it goes on with a cached figure of an earlier run (`Stale`).
A precompile that fails reads as zero (`HeldRead`, `PriceRead`). `Accepted` says
whether the contract takes what the script sends next, by the guards the entry
points are made of, and `Reverted` ends a run where it does not; `Fail` ends one
where a read or a receipt fails that nothing catches. `fate` is history: what became
of the last opening (hedged, told to the operators, failed, its purchase refused), and
`late` whether the script went on while an order was still queued.

### MorphoStrategy

The market is what it does to `positionValue()`: interest is booked when anybody
touches the market, the strategy's own supply and withdrawal included, so a value
read at the start of a transaction is stale at its end; both conversions round
against the supplier; a withdrawal is paid or, inside the `try/catch`, does
nothing. `lastHarvestPosition` is the one number that tells profit from
principal, and each handler moves it or leaves it exactly where the code does.
`grown` and `swept` are history.

### GasDripper

`pc`, `leg`, `todo` and `bal` are what a run holds in memory; `status` is the D1
column, `tank` the balance on each chain, `sent` and `unrecorded` history. Each
thing that can fail (an RPC, the queue's read, the send, its answer, the receipt,
the UPDATE, the process) is an action guarded by `Fault`, which `MaxFaults`
bounds. A recipient that refuses (`Unpayable`) does so for ever. Runs do not
overlap; the code does nothing to keep them from it.

### LiveVault, VaultWatch, VaultStatus, Attestation, Publishing

A figure a script has read is the block it was read at, so that "fresh", "stale"
and "of the same run" are comparisons of blocks. Each job is a process: reads one
by one with blocks between them, then writes, then pushes; it may die anywhere,
inside a write too (`TornFeed`, `TornReport`, and `Torn` of the sentinel's state
file, on whose JSON every later run of it dies). The feed's total is the set of the
parts it adds up. Of the report's figures four stand for all: the block, one that is
listed when it fails, one whose getter is in `ALT_PROBES`, and one for which the
script has a constant (`Configured`). The jobs share no file, so `Publishing` lets a
behaviour be about one of them (`job`).

### Custody and Deployment

A script is a table (`MorphoSteps`, `PydSteps`, ...) of the transactions and
writes it makes, in the code's order, and `RunStep` executes the step at `pc`; the
guards of each script (manifest present or absent, FORCE, addresses bound) are
its `...Guard`. A run may stop after any step, and the next one starts from the
chain and the manifest alone. `SafeExec` is what the Safe's owners do with what
was handed to them. `Custody` knows no scripts: a contract has a stage, settings,
and whether it is published; `C == INSTANCE Custody WITH ...` computes these from
the chain and the manifest, and `KeepsCustody == C!Spec` says that every step of
every script is one of the four abstract steps or changes nothing abstract.

## Runs

| run | question | instance and bounds | result |
|---|---|---|---|
| vault_books | do floor rounding, the virtual offset and the caps keep every holder's claim? | 2 depositors, no strategy, amounts to 8, offset 2 | hold |
| vault_strategies | do the books stay behind the money when recalls fall short, sweeps are partial and a strategy is listed twice? | 1 depositor, 2 strategies, 2 list entries, amounts to 3 | hold |
| recycler | is every credit funded, whatever crashes and interleaves? | 1 depositor, 1 strategy, 1 run at a time, amounts to 3, fees to 2, one unit of unreported loss and one repeated credit (MaxGap) | hold |
| staking | are claims covered, is nothing earned ever lost, and nothing earned but by time? | 2 stakers, 5 seconds, windows of 1 and 2 | hold |
| sleeve | is no dollar counted twice or out of sight across the bridge? | amounts to 3, faces to 4, slippage of 1 | hold |
| dn_core | do principal, realized profit and HyperCore agree? | 1 coin, prices 1 and 2, amounts to 2, gains to 2, losses to 1 | hold |
| dn_keeper | which shorts can the script leave naked and unnoticed, and can it give up a hedge too early? | sizes 1 and 2, prices 1 and 2, orders from 3, a dollar of 1, a cap of 8, one failure, partial fills, a late HyperCore | hold |
| dn_skim | does skimming profit leave the principal alone? | the same, no failure | **violated**: the profit is booked as principal |
| morpho | can principal be swept as profit, and does an illiquid market cost the depositors their yield? | money to 9, interest to 5, buffers of 0, 1/4 and 1/2 | hold |
| dripper | is anybody paid twice, and is everybody paid at last? | two queues, a refusing recipient first in one, tanks to 2, two failures | hold |
| publishing | is what the jobs alert and publish fresh, whole and sent once? | 3 blocks, 2 failures, 2 days, 2 runs, 1 wallet | hold |
| deployment | do half-finished, resumed and forced deployments leave the Safe and the manifests what they promise? | up to 5, 8, 3 and 10 contracts for the four manifests, abandoned ones included | hold; `Deployment` refines `Custody` |

What the properties say is in the comment above each. The ones to start with:
`PriceFallsByRoundingOnly` and `BooksFollowMoney` (vault), `CreditIsFunded` (fee
loop: the solvency of the vault with the recycler around it), `Backed` and
`EarnedNeverFalls` (staking), `CountsOnce` and `BookWithinSent` (sleeve),
`BooksMatchCore` (delta-neutral), `NakedShortIsAlerted` and `HedgeOutlivesShort`
(its keeper), `ProfitIsGrowth` (Morpho), `PaidOnce` and `EveryoneIsServed` (gas
queue), `FlowsReportedOnce`, `FiguresAreOfTheirRun` and `PushedIsWhole` (the jobs),
`PublishedIsConfigured` and `KeepsCustody` (deployment).

**Why the bounds are enough.** Rounding: with SHARE_OFFSET 2 and amounts to 8,
conversions that are exact, that lose a part of a unit and that round to nothing
all occur, at prices above, at and below 1. Strategies: two with two list
entries are the least for an uneven recall, an early break and a duplicate.
Bridge: faces to 4 with amounts to 3 give two burns in flight in either
direction and their reordering. Delta-neutral: a position of one lot, a partial
fill, a price that moves between two steps of the script and a loss that
liquidates all fit; a queue of one action is what a script that waits after each
transaction leaves, and a second coin is left to a later instance. BPS is 4 where the code has 10000: the
ratios used (a quarter, a half) are what the branches tell apart. Morpho: money to
9 and interest to 5 give sweeps paid from idle money, from the position, from both
and in part, at all three buffers. Gas queue: a run takes two rows of a queue, so
that a refusing row, a payable one behind it and an empty tank meet; two failures
are a lost answer and a crash in the same history. Publishing: three blocks put a
flow before, inside and after a run, and a yield beside a flow; two days and two
runs a second run on the same day or on the next, after a first that may have failed. Deployment: the vault
twice and one strategy, or once and three; the token suite twice; three executors;
a sandbox after one that died at its second contract.

**Deadlock.** `deployment` and `dripper` check it: an operator can always start a
script, and the cron a run. The other cfgs have CHECK_DEADLOCK FALSE: those
models have bounds on time, money, blocks or faces, and stop there.

**Fairness and liveness.** `GasDripper` states both. `Fairness` is weak fairness of
`Work` (the cron starts a run every ten minutes and the script has no step that
waits for anybody but the chain) and of `FundTank` for each leg (the balance is
what the operators' top-up job is for). Nothing is assumed of users, and failures
are bounded by `MaxFaults`, after which calls succeed. `EveryoneIsServed` says that
every payable row is recorded at last. It needs fewer refusing recipients than
`MAX_PER_RUN`: refusing rows stay pending and come first in every run, and as many
of them as the cap are all a run ever reads.

Elsewhere none is assumed and none is claimed. The contracts have no step of
their own; keepers are run by hand or by a timer that may be switched off;
HyperCore and CCTP drop or delay without a bound. What a user is promised is
therefore conditional on actions nobody is obliged to take. The counterexample of the
violated run is a finite trace and does not rest on the system stopping.

## Divergences

Shown by a run:

- `dn_skim`: the keeper moves profit to the spot account before
  `bridgeBackToEvm` reads the perp account, which then sees no profit.

Met while modelling; where a property is about the matter, its statement says
exactly when it happens:

- `withdrawUpTo` promises what idle and the strategies "can ACTUALLY pay"; the
  recall asks each strategy for an equal part once, and one uneven strategy makes
  it pay less.
- The retry of `creditYield` (`recycle_fees.js:119`) does not ask whether the first
  was mined: a lost receipt credits depositors twice for one boost. `CreditIsFunded`
  therefore has the term `repeated`.
- The `receive` stage of `pt_loop.js` mints a return past `completeInbound`, so the
  attested value is counted beside the cash. `CountsOnce` is for the runbook's keeper.
- When the hedge's purchase reverts (pause, `maxActionUsd6`) after the short has opened,
  the script ends in `main().catch`, which alerts nobody, though `dn_keeper.js:597-599`
  says "never leave a silent naked short".
- The keeper passes over a hedge gap of a dollar or less with a line in its log
  (`dn_keeper.js:633-637`), and a spot price that could not be read makes any gap one of
  zero dollars. `NakedShortIsAlerted` lists these, the failures, the refused purchases
  and a HyperCore slower than eight seconds, and excludes every other silent short.
- `MorphoStrategy.sol:59` calls the sweep "exact for pure lending accrual": a part
  sweep, paid out of idle money while the market is illiquid, moves the baseline
  over the rest, which is never swept (it stays in the position, as principal
  nobody has booked). With a buffer, growth that was unwound and kept as buffer is
  not claimed again either, though :208 says it "stays claimable". A recall from an
  illiquid market pays nothing of the position, where :153 says "partial is fine":
  Morpho's withdrawal is all or nothing.
- The sentinel's alarm "totalAssets moved with NO matching event", which
  `vault_watch_mainnet.js:136` takes for impossible otherwise, is also raised by a
  booked yield and by a flow mined between the block number and the fields.
  `UnmatchedIsExplained` lists the causes.
- The alert of a run that dies or cannot send is lost: the state file is written first.
  A run that dies inside that write silences the sentinel until somebody removes the
  file. `FlowsReportedOnce` says what is lost.
- A second attestation of a day that dies writing `<date>.json` leaves the first one's
  page cut short while its series line stands, and the next day's push carries it.
  `SeriesHasReports` has this one exception; `PushedIsWhole` is about the latest report.
- `write_vault_status.js:178` adds up the balances with a failed read as zero and
  publishes the total, though :98 says "honest gaps", "never zero-filled".
  `FiguresAreOfTheirRun` says which parts a total has.
- A failed getter of `ALT_PROBES` (`attestation.js:234`) is not listed, constants stand
  in for the decimals and the addresses (:141, :185-203), and the page still says "every
  read above returned a live value" (:439). `FiguresAreOfTheirRun` says which figures
  may be a gap or a constant unlisted.
- `portfolio_snapshots.js` says INSERT OR IGNORE in its header and overwrites the row
  of the day; a torn `series.jsonl` line is dropped, and its day with it.
- `gas_dripper.js`: overlapping runs send each other's rows; refusing rows as
  many as the cap starve the queue; a crash between the send and the UPDATE pays
  twice (`PaidOnce` counts exactly these).
- Deployment: `deploy_pyd_mainnet.js` writes its manifest even when its read-backs
  fail; an OWNER other than the deployer makes `setCaps` revert and leaves a vault
  without a manifest; `manifest.owner` is stale after the transfer; a script writes
  the whole manifest it read at its start; the sandbox lists its strategy before
  `setVault`, and the Safe can list the delta-neutral strategy before its own
  `setVault` (`PublishedIsConfigured` allows that one).

Seen while reading: the per-user cap compares with the
price before the deposit; `maxWithdraw` ignores what strategies can pay;
`receiveFees` after a route under-reports; two overlapping recycler runs credit
by each other's clipped routes; a late acknowledgement counts an arrival twice
until it comes; `deployToArb` is blocked by the unguarded `sentFace6 - retFace6`
once returns with gains exceed the faces sent; a dropped `toEvm` leaves its profit
realized on HyperCore, and the next bridge realizes it again; a rebalance that is
too small opens the full target instead of the difference; a crash between short
and hedge leaves a short the next run does not look at; a HyperCore slower than
eight seconds lets the next run open a second short; `setSpotConfig` while a
hedge is left over changes what `Hedge` reads; a
reduction below the order minimum reverts in every run.

## Proofs

For every value of the constants that satisfies the named assumptions. Every safety
property the passing runs check is stated by a theorem; four of them have a further
hypothesis, given with the theorem and explained below the table.

| module | theorem | argument |
|---|---|---|
| `ProYieldVault_proofs` | `TypeCorrect` | TypeOK is inductive; the one hard step is that a recall takes no more than a strategy holds (`RecallWithinHeld`) |
| | `PriceFloorHolds` | with TypeOK inductive: a burn at the floor keeps assets >= shares (`BurnKeepsFloor`), minting keeps the price (`GrowthKeepsPrice`) |
| | `DepositsDoNotDilute`, `PriceFallsByRounding` | each step's effect on (assets + offset) and (shares + offset), from the bounds of floor division |
| | `ClaimsAreOnTheBooks` | `SharesAddUp`: the users' shares add up to `totalShares`, each step moving one user's; each claim is at most its part of the assets, and the parts add up |
| | `BooksStayBehindMoney` | a ledger: how far each transaction moves the money (vault, strategies, venues, as sums over the strategies) and the books, compared |
| | `LoopTypesHold`, `ReceivedIsNeverOverstated` | `LoopInv` adds to the types that no more underlying exists than `MaxUint`; the fees booked follow the distributor's balance |
| | `CreditsAreFunded` (`OneRun`) | `FundedInv` adds `BoostIsThere`: until a run routes its boost, the distributor still has it |
| `PYDStaking_proofs` | `TypeCorrect` | inductive together with `MarksBehindStored`: a mark is only ever set to the stored accumulator, which grows |
| | `EarnedIsKept`, `EarnedByTimeAlone` | banking at the accumulator's value leaves `Earned` as it was, and so does every change of a stake, the rate or the window after it; only the clock raises it, only a claim lowers it |
| | `ClaimsAreBacked` | `Backed` rounds every claim down, and no step can be taken from it. `BackedInv` counts claims unrounded at the banked accumulator and the whole unbanked window (`Funded`), with `StakesAddUp`; banking moves from one to the other and loses at most a floor |
| `PTSleeve_proofs` | `BookIsBounded` | `Inv` adds `inFlight6 <= sentFace6` to the bound: the value cap counts only the face that has arrived, so acknowledging first cannot let the sum pass |
| | `TypeCorrect` | a conjunct of the same invariant |
| | `FlightIsCovered`, `DollarsCountOnce` (`~DirectReceive`) | `OnRunbook`: an arrival is on two books until it is acknowledged, so it must be whole on the executor, and the attested value and the keeper's last reading must fit beside it |
| `DNCore_proofs` | `TypeCorrect` | inductive; the hard steps are a partly filled action (`TakeUpType`) and the split of a return into profit and principal (`PartsAreAmounts`), whose principal part never exceeds the principal |
| | `SweptOnce` | a sweep takes no more than realized less swept (`SweepIsBounded`), and realized profit never falls |
| | `BooksAgree`, `RealizedWasEarned` | `BooksInv`: besides the balance of the books with HyperCore, that one action at most is open (`OneAction`) and that a promised payment can be made (`Payment`), else a later trade could spend it |
| | `KeeperTypes` | `KeeperInv`: at each place of the script what it read is of the type the next step needs |
| | `HedgeIsHeld`, `NakedShortsAreAlerted` (`OneCoin`) | `HedgeInv`: while the script has not gone on over a queued order (`Calm`), one action at most is open, none is a sale while a short stands, and outside the two steps after an opening order (`opened`, `bought`) the short is hedged, or `fate` says what became of the difference, or it is worth a dollar at most (`Attended`) |
| `MorphoStrategy_proofs` | `TypeCorrect`, `OnlyGrowthIsSwept` | `Inv` adds that what the next harvest would take is growth not paid yet (`swept + Claimable <= grown`); `BaselineInv` is the step recall and harvest share: the baseline moves to the position, or nothing is swept |
| | `UnsweptIsKept` | a harvest that sweeps nothing without a buffer found no balance, so the unwinding failed or was one rounded unit |
| `CronJobs_proofs` | `TypeCorrect` | of `GasDripper`: inductive; a run holds rows of its own leg that are pending because only it marks rows |
| | `NobodyIsPaidTwice` | `PaidOnce` is inductive with TypeOK: a row is either unmarked, at the wait, or recorded, and each way out of the wait counts it once |
| | `PublishTypes` | of `Publishing`: the types of the three jobs, from the three invariants that follow |
| | `FlowsAreSentOnce`, `AlarmsAreExplained` | `WatchInv`: readings follow each other (`ReadingsFollow`), what is in hand or was lost lies between the arming and the last of them (`AlertsScanned`), and the count of each flow is what that says; an alarm that no flow explains needs a move of the figures between two readings |
| | `SeriesAreBacked`, `PushesAreWhole` | `AttestInv`: what the files hold after each write of a run (`WrittenSoFar`), whatever an earlier run that died has left; that no page of a day is of a later run than the repository's (`AllBacked`) rests on runs beginning at growing blocks (`TimeGoesOn`) |
| | `FiguresAreFresh` | `FeedInv` and `AttestInv`: every figure in memory, in a file or pushed was read between the beginning and the end of one run, a feed with a price has both parts of it, its total has just the parts shown, and what is read of a report so far is honest about itself (`ReportInHand`) |
| `Deployment_proofs` | `DeployTypeCorrect` | a manifest's names lead to contracts of their kind: a name is only bound to the address just built, or read from a file where it held |
| | `DeploymentKeepsCustody` | the refinement: each operation of a step table maps to one abstract step or a stutter, given that a script past its hand-over step touches a contract no more with the deployer's key (`CustodyInv`) |
| | `DormantWhenHanded` | the order of `PydSteps`: paused, given the staking contract, then handed over (`SuiteInv`) |
| | `PublishedWhenConfigured` | facts of the eight tables (`Sees`, `LinkOK`): who makes a contract configures and links it after that and before it writes. `HandInv` says it of a run's memory (done, or still to come), `BookInv` of the manifest and the vaults' lists |

`OneRun` and `OneCoin` are defined beside their theorems, `DirectReceive` is a constant
of the model. What the hypotheses exclude really happens:

- `OneRun`: two recycler runs that overlap can both count on the same fees; each
  routes what is left, clipped, and credits what it had read. The run `recycler` has
  one run at a time for the same reason. Its start with every strategy listed needs
  `Cardinality(Strategies) <= MaxList`, a fact about the two bounds.
- `~DirectReceive`: `pt_loop.js` can mint a return past `completeInbound` (see
  Divergences); the theorem is for a keeper who does not.
- `OneCoin`: `setPerpAsset` and `setSpotConfig` ask for a flat position, not for an
  empty queue. With two coins and two runs that failed half-way, the owner can
  change both while an opening order is still to be taken up; the short is then of a
  coin the script does not read, and a later unwind sells its hedge.

The other assumptions are those on the constants (`VaultAssumption`,
`RecyclingAssumption`, `StakingAssumption`, `SleeveAssumption`, `DNAssumption`,
`KeeperAssumption`, `MorphoAssumption`, `DripperAssumption`, `PublishAssumption`,
`DeploymentAssumption`); TLC evaluates them in every run. Users, coins, strategies,
runs and rows are finite sets of any size.

**Sums.** `SumFunction` is a fold, recursive in the set it runs over, and the provers
cannot instantiate the library's induction theorems. `Arithmetic` proves what is needed
by contradiction: strict subset is well-founded on the subsets of a finite set, so if
any subset violates a fact a smallest one does, and the fold's equation for one element
refutes it. What a recursive operator computes in general stays out of reach; no module
uses RECURSIVE.

Only model-checked: `EveryoneIsServed`, which is liveness under fairness. No action's
guard uses ENABLED: whether a transaction would revert is asked of the contract's named
guards (`CanBridge`, `CanSend`, `CanReturn`, `CanMove`, `CanOrder`, `CanTransferOut`),
which the entry points share.

## Not modelled

- Ownership, reentrancy guards, events and view helpers: one transaction is atomic
  here, and the callers are the roles the code admits.
- 256-bit overflow: Solidity 0.8 reverts, and no amount of USDC comes near it.
- Precompile decoding, CCTP's message layout, amounts below one HyperCore unit:
  conversions without a state.
- Of the keepers: logging, ledgers, dry runs, alert delivery, roster parsing.
- SkyStrategy, PendleStrategy (placeholders), DNCoreAdapter (the base without
  accounting), PYDToken (an ERC-20), the chain guards, the static-analysis monitor,
  the audit and read scripts, the hand-run operator scripts: no state of their own
  that the system depends on, or calls that are actions of the contracts' modules.
- Of the jobs: the wording of pages and messages, the two floating rates of the
  feed, the valuation of a wallet, an RPC that lags behind itself; of the deployments:
  gas, nonces, dry runs, and a manifest cut short in its write, which every later
  script refuses to parse.
- DeltaNeutralStrategy (first generation, deployed by the sandbox script only),
  PYDFunder (deployed paused and without a swapper), PYDFeeDiscount: in the plan.

## Plan

Done, in order of importance: the vault, the fee loop, staking, the Pendle sleeve,
the delta-neutral strategy and its keeper, the deployment with its abstract
specification, the gas queue with its liveness, the publishing jobs, the Morpho
strategy; every safety property of the passing runs proved.

1. `PYDFeeDiscount` with FeeDistributor: a rebate is claimed once and stays within
   the fees received; fees that arrive after a route.
2. `PYDFunder` over `PYDStaking`: what a top-up by anybody does to a running window.
3. `DeltaNeutralStrategy`: funding accrual across open, close and harvest.
4. An abstract account (deposit, withdraw, gain, loss on one ledger) that the vault
   refines, and a one-ledger sleeve that `PTSleeve` refines on the runbook.
5. Two coins in `DNCore`; what the keeper must eventually do under a scheduler that
   runs it and a HyperCore that acts; a crash between its two legs.
6. Proofs: the refinements of 4; an invariant for the keeper's hedge with two coins,
   which has to say what an order still open was sent for; the theorems of 1 to 3.
