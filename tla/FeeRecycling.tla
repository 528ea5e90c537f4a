---------------------------- MODULE FeeRecycling ----------------------------
(***************************************************************************)
(* The fee loop: the vault's performance fee lands in FeeDistributor       *)
(* (contracts/FeeDistributor.sol), and scripts/recycle_fees.js routes it   *)
(* on, a part of it back to the vault as a credit to depositors.           *)
(*                                                                         *)
(* A run of the script is a process: each transaction it sends is a step,  *)
(* and anything else may happen between two of them.  The owner behaves as *)
(* the documents ask: a loss is reported once and in the measured amount,  *)
(* fees are not routed by hand during a run, and yield is credited only    *)
(* by a run or to recover a run's failed credit.                           *)
(***************************************************************************)
EXTENDS ProYieldVault, SequencesExt

CONSTANTS
    Runs,           \* processes that execute the script
    BoostPct,       \* depositor_boost_pct of the policy
    TreasuryPct,    \* treasury_pct; insurance is the remainder
    MinAmount,      \* min_amount_usdc
    MaxFees,        \* bound on the lifetime routed total
    MaxGap          \* bound on losses not reported yet, and on repeated credits

ASSUME RecyclingAssumption ==
    /\ {BoostPct, TreasuryPct} \subseteq 0..100 /\ BoostPct + TreasuryPct <= 100
    /\ {MinAmount, MaxFees, MaxGap} \subseteq Nat
    /\ IsFiniteSet(Runs)
    /\ Cardinality(Strategies) <= MaxList

VARIABLES
    totalFeesReceived, totalFeesRouted,     \* FeeDistributor
    at,             \* next transaction of each run
    local,          \* the script's variables of each run; assetsBefore is taPre
    unreported,     \* history: venue losses the owner has not reported yet
    repeated        \* history: credited again after a mined credit looked failed

distributor == <<totalFeesReceived, totalFeesRouted>>
script      == <<at, local>>
history     == <<unreported, repeated>>
loopVars    == <<vars, distributor, script, history>>

Places == {"start", "read", "route", "credit", "treasury", "insurance", "failed"}

-----------------------------------------------------------------------------
(* FeeDistributor.                                                         *)

\* Mutant of ReceiveFees: every reconciliation adds the balance.
ReceiveFeesAdding == totalFeesReceived' = totalFeesReceived + feeBalance

ReceiveFees ==
    totalFeesReceived' = IF feeBalance > totalFeesReceived THEN feeBalance
                                                           ELSE totalFeesReceived

\* route(to, amount): clipped to the balance, reverts where nothing is left.
Routed(amount) == Lesser(amount, feeBalance)

Route(amount, toVault) ==
    /\ Routed(amount) > 0
    /\ totalFeesRouted + Routed(amount) <= MaxFees
    /\ feeBalance' = feeBalance - Routed(amount)
    /\ idle' = idle + (IF toVault THEN Routed(amount) ELSE 0)
    /\ totalFeesRouted' = totalFeesRouted + Routed(amount)
    /\ UNCHANGED <<books, config, venues, writtenDown, totalFeesReceived, history>>

-----------------------------------------------------------------------------
(* One run of the script.                                                  *)

\* mined is history: a credit of this run is on the chain.
Nothing == [boost |-> 0, treasury |-> 0, insurance |-> 0, assetsBefore |-> 0, attempts |-> 0,
            mined |-> FALSE]

\* The run goes on at place with its local variables updated to l (those it
\* will not read again are cleared), or ends and loses them.
Goto(r, place, l) ==
    /\ at' = [at EXCEPT ![r] = place]
    /\ local' = [local EXCEPT ![r] = IF place = "start" THEN Nothing ELSE l]

\* fd.receiveFees(), which anyone may call
Reconcile(r) ==
    /\ at[r] = "start"
    /\ ReceiveFees
    /\ Goto(r, "read", Nothing)
    /\ UNCHANGED <<vars, totalFeesRouted, history>>

\* Mutant of ReadSplit: the credit is sent before the route.
ReadSplitCreditFirst(r) ==
    LET toBoost == (feeBalance * BoostPct) \div 100
    IN  /\ at[r] = "read"
        /\ Goto(r, IF toBoost > 0 THEN "credit" ELSE "treasury",
                [Nothing EXCEPT !.boost = toBoost])
        /\ UNCHANGED <<vars, distributor, history>>

\* Read the balance and split it; below the minimum the run ends.
ReadSplit(r) ==
    LET toBoost == (feeBalance * BoostPct) \div 100
        toTreasury == (feeBalance * TreasuryPct) \div 100
    IN  /\ at[r] = "read"
        /\ Goto(r, IF feeBalance < MinAmount THEN "start"
                   ELSE IF toBoost > 0 THEN "route" ELSE "treasury",
                [Nothing EXCEPT !.boost = toBoost, !.treasury = toTreasury,
                                !.insurance = feeBalance - toBoost - toTreasury])
        /\ UNCHANGED <<vars, distributor, history>>

\* Mutant of RouteBoost: the boost is sent to the treasury's address.
RouteBoostElsewhere(r) ==
    /\ at[r] = "route"
    /\ Route(local[r].boost, FALSE)
    /\ Goto(r, "credit", [local[r] EXCEPT !.assetsBefore = totalAssets])

\* The script knows nothing of the clipping; then it reads totalAssets.
RouteBoost(r) ==
    /\ at[r] = "route"
    /\ Route(local[r].boost, TRUE)
    /\ Goto(r, "credit", [local[r] EXCEPT !.assetsBefore = totalAssets])

\* creditYield(boost) is mined, perhaps not for the first time.
Credited(r) ==
    /\ CreditYield(local[r].boost)
    /\ repeated' = repeated + (IF local[r].mined THEN local[r].boost ELSE 0)
    /\ repeated' <= MaxGap
    /\ UNCHANGED <<distributor, unreported>>

\* The credit is mined and its receipt seen; totalAssets must have moved by
\* exactly the boost, or the run throws.
CreditBoost(r) ==
    /\ at[r] = "credit"
    /\ Credited(r)
    /\ Goto(r, IF totalAssets' - local[r].assetsBefore = local[r].boost
               THEN "treasury" ELSE "start",
            [local[r] EXCEPT !.boost = 0, !.assetsBefore = 0, !.attempts = 0, !.mined = FALSE])

\* Mutant of AfterFailure: one retry too many.
AfterFailureOffByOne(r, mined) ==
    IF local[r].attempts >= 2
    THEN Goto(r, "failed", [Nothing EXCEPT !.boost = local[r].boost, !.mined = mined])
    ELSE Goto(r, "credit", [local[r] EXCEPT !.attempts = @ + 1, !.mined = mined])

\* The first failure is retried, the second ends the run with the message
\* that the boost is recoverable by hand.
AfterFailure(r, mined) ==
    IF local[r].attempts >= 1
    THEN Goto(r, "failed", [Nothing EXCEPT !.boost = local[r].boost, !.mined = mined])
    ELSE Goto(r, "credit", [local[r] EXCEPT !.attempts = 1, !.mined = mined])

CreditFails(r) ==
    /\ at[r] = "credit"
    /\ AfterFailure(r, local[r].mined)
    /\ UNCHANGED <<vars, distributor, history>>

\* The credit is mined, but the script sees an error instead of its receipt.
CreditReceiptLost(r) ==
    /\ at[r] = "credit"
    /\ Credited(r)
    /\ AfterFailure(r, TRUE)

\* The owner follows the failure message: vault.creditYield(boost).
RecoverCredit(r) ==
    /\ at[r] = "failed"
    /\ Credited(r)
    /\ Goto(r, "start", Nothing)

RouteSlice(r, slice) ==
    /\ at[r] = slice
    /\ Goto(r, IF slice = "treasury" THEN "insurance" ELSE "start",
            [local[r] EXCEPT !.treasury = 0])
    /\ \/ local[r][slice] > 0 /\ Route(local[r][slice], FALSE)
       \/ local[r][slice] = 0 /\ UNCHANGED <<vars, distributor, history>>

\* The process dies, or a transaction other than the credit throws; nothing
\* of the run survives it, and the next run starts from the chain.
Abort(r) ==
    /\ at[r] \notin {"start", "failed"}
    /\ Goto(r, "start", Nothing)
    /\ UNCHANGED <<vars, distributor, history>>

RunStep == \E r \in Runs :
    \/ Reconcile(r) \/ ReadSplit(r) \/ RouteBoost(r)
    \/ CreditBoost(r) \/ CreditFails(r) \/ CreditReceiptLost(r) \/ RecoverCredit(r)
    \/ \E slice \in {"treasury", "insurance"} : RouteSlice(r, slice)
    \/ Abort(r)

-----------------------------------------------------------------------------
(* The vault's other transactions, with the owner's discipline.            *)

\* A loss becomes reportable when it happens and is reported at most once.
LoseAtVenue ==
    \E s \in Strategies, amount \in Uint :
        /\ VenueLoss(s, amount)
        /\ unreported + amount <= MaxGap
        /\ unreported' = unreported + amount
        /\ UNCHANGED repeated

ReportMeasuredLoss ==
    \E amount \in 1..unreported :
        ReportLoss(amount) /\ unreported' = unreported - amount /\ UNCHANGED repeated

\* Fees routed by hand, outside any run.
OwnerRoute ==
    /\ \A r \in Runs : at[r] = "start"
    /\ \E amount \in Uint, toVault \in BOOLEAN : Route(amount, toVault)
    /\ UNCHANGED script

\* The rails and the registry stay as set up; ProYieldVault varies them.
VaultStep ==
    /\ \/ UserStep \/ HarvestStep \/ Allocate \/ EmergencyWithdraw
       \/ \E s \in Strategies, amount \in Uint :
             StrategyDeploy(s, amount) \/ StrategyReturn(s, amount) \/ AccrueYield(s, amount)
    /\ UNCHANGED history

\* The vault with every strategy registered and active, before any deposit.
LoopInit ==
    /\ shares = [u \in Users |-> 0] /\ totalShares = 0 /\ totalAssets = 0
    /\ strategyList = SetToSeq(Strategies)
    /\ strategyActive = [s \in Strategies |-> TRUE]
    /\ tvlCap = 0 /\ perUserCap = 0 /\ depositsPaused = FALSE
    /\ performanceFee \in Fees
    /\ idle = 0 /\ feeBalance = 0
    /\ held = [s \in Strategies |-> 0]
    /\ accrued = [s \in Strategies |-> 0]
    /\ deployed = [s \in Strategies |-> 0]
    /\ writtenDown = FALSE
    /\ totalFeesReceived = 0 /\ totalFeesRouted = 0
    /\ at = [r \in Runs |-> "start"]
    /\ local = [r \in Runs |-> Nothing]
    /\ unreported = 0 /\ repeated = 0

LoopNext ==
    \/ RunStep
    \/ OwnerRoute
    \/ (VaultStep \/ LoseAtVenue \/ ReportMeasuredLoss) /\ UNCHANGED <<distributor, script>>

LoopSpec == LoopInit /\ [][LoopNext]_loopVars

-----------------------------------------------------------------------------
LoopTypeOK ==
    /\ TypeOK
    /\ totalFeesReceived \in Uint /\ totalFeesRouted \in 0..MaxFees
    /\ at \in [Runs -> Places]
    /\ local \in [Runs -> [boost : Uint, treasury : Uint, insurance : Uint,
                           assetsBefore : Uint, attempts : 0..1, mined : BOOLEAN]]
    /\ {unreported, repeated} \subseteq 0..MaxGap

\* The vault's solvency, end to end: whatever the depositors, harvests,
\* allocations, recalls, crashes, lost receipts and re-runs of the recycler
\* interleave to, the booked assets exceed the money in the vault, its
\* strategies and venues by no more than the losses still to be reported and
\* what was credited twice; and a run that is about to credit depositors, or
\* left that to the owner, has put that money into the vault before.
CreditIsFunded ==
    Surplus + unreported + repeated >=
        SumFunction([r \in Runs |-> IF at[r] \in {"credit", "failed"} /\ ~local[r].mined
                                    THEN local[r].boost ELSE 0])

\* receiveFees never counts a fee twice: however often anyone reconciles
\* between harvests and routes, the figure stays within what has come in.
ReceivedNeverOverstates == totalFeesReceived <= totalFeesRouted + feeBalance
=============================================================================
