---------------------------- MODULE ProYieldVault ----------------------------
(***************************************************************************)
(* The depositor vault (contracts/ProYieldVault.sol) and the part of its   *)
(* strategies it can see: BaseStrategy's recall and harvest.               *)
(*                                                                         *)
(* One action is one transaction of the vault, run to completion: every    *)
(* entry point is nonReentrant, and a failed require (or an arithmetic     *)
(* underflow) reverts the transaction, so it is a guard here.  Actions of  *)
(* the strategies' own keepers and of their venues interleave with them.   *)
(* Amounts are whole token units; MaxUint units of the underlying exist,   *)
(* and a step whose result leaves Uint is not taken.                       *)
(***************************************************************************)
EXTENDS Integers, Sequences, FiniteSets, Functions

CONSTANTS
    Users,          \* depositors
    Strategies,     \* deployed strategy contracts, registered or not
    MaxUint,        \* bound: the underlying in existence, and any share count
    MaxList,        \* bound: how often addStrategy may be called
    SHARE_OFFSET,   \* the virtual share offset, 1e3 in the code
    RESERVE_BPS,    \* share of the assets allocate keeps idle
    BPS,            \* the basis-point denominator, 10000 in the code
    Caps,           \* values the owner gives the two caps; 0 = uncapped
    Fees,           \* values the owner gives performanceFee
    Pauses          \* values the owner gives depositsPaused

Uint == 0..MaxUint

ASSUME VaultAssumption ==
    /\ MaxUint \in Nat
    /\ MaxList \in Nat
    /\ SHARE_OFFSET \in Nat \ {0}
    /\ BPS \in Nat \ {0}
    /\ RESERVE_BPS \in 0..BPS
    /\ Caps \subseteq Nat
    /\ Fees \subseteq 0..BPS
    /\ Pauses \subseteq BOOLEAN
    /\ IsFiniteSet(Users) /\ IsFiniteSet(Strategies)

VARIABLES
    shares,         \* mapping(address => uint256) shares
    totalShares,
    totalAssets,
    strategyList,   \* in registration order; the code never removes
    strategyActive, \* the circuit breaker, per strategy
    tvlCap, perUserCap, depositsPaused, performanceFee,
    idle,           \* underlying.balanceOf(vault)
    feeBalance,     \* underlying.balanceOf(feeDistributor)
    held,           \* what a strategy can pay to recall() at once
    accrued,        \* the part of held it would sweep as profit
    deployed,       \* principal a strategy has out at its venue
    writtenDown     \* history: reportLoss or emergencyWithdraw has run

config   == <<strategyList, strategyActive, tvlCap, perUserCap,
              depositsPaused, performanceFee>>
books    == <<shares, totalShares, totalAssets>>
venues   == <<held, accrued, deployed>>
vars     == <<books, config, idle, feeBalance, venues, writtenDown>>

-----------------------------------------------------------------------------
(* Arithmetic of the share price.                                          *)

Lesser(a, b) == IF a < b THEN a ELSE b

\* The underlying in the vault, the distributor, the strategies and venues;
\* amount more of it can come in.
Money == idle + feeBalance + SumFunction([s \in Strategies |-> held[s] + deployed[s]])
CanArrive(amount) == Money + amount <= MaxUint

\* Mutants of ToShares: rounding up, and the offset missing from the divisor.
ToSharesRoundedUp(assets) ==
    IF totalShares = 0 THEN assets
    ELSE (assets * (totalShares + SHARE_OFFSET) + totalAssets + SHARE_OFFSET - 1)
            \div (totalAssets + SHARE_OFFSET)

ToSharesHalfOffset(assets) ==
    IF totalShares = 0 \/ totalAssets = 0 THEN assets
    ELSE (assets * (totalShares + SHARE_OFFSET)) \div totalAssets

\* _toShares: floor at the current price; the first depositor gets 1:1
ToShares(assets) ==
    IF totalShares = 0 THEN assets
    ELSE (assets * (totalShares + SHARE_OFFSET)) \div (totalAssets + SHARE_OFFSET)

\* Mutant of ToAssets: the offset missing from the divisor.
ToAssetsHalfOffset(sh) ==
    IF totalShares = 0 THEN sh
    ELSE (sh * (totalAssets + SHARE_OFFSET)) \div totalShares

\* _toAssets
ToAssets(sh) ==
    IF totalShares = 0 THEN sh
    ELSE (sh * (totalAssets + SHARE_OFFSET)) \div (totalShares + SHARE_OFFSET)

\* maxWithdraw, the front end's helper
MaxWithdraw(u) == ToAssets(shares[u])

Registered == {strategyList[i] : i \in DOMAIN strategyList}

\* The list positions the loops of allocate, recall and harvest act on.
ActiveSlots == {i \in DOMAIN strategyList : strategyActive[strategyList[i]]}

SlotsOf(s, n) == {i \in ActiveSlots : i <= n /\ strategyList[i] = s}

-----------------------------------------------------------------------------
(* _recallShortfall(needed): each active list entry in turn is asked for   *)
(* an equal part of the shortfall, rounded up, until nothing is missing; a *)
(* strategy pays at most what it holds (BaseStrategy.recall).  Paid(n) is  *)
(* what each strategy has paid once the first n entries have been visited. *)
RecallShortfall(needed) ==
    LET missing == needed - idle
        perStrategy == (missing \div Cardinality(ActiveSlots)) + 1
        Paid(n) == [s \in Strategies |->
                       Lesser(perStrategy * Cardinality(SlotsOf(s, n)), held[s])]
        Done(n) == n = Len(strategyList) \/ SumFunction(Paid(n)) >= missing
    IN  IF missing <= 0 \/ ActiveSlots = {}
        THEN [s \in Strategies |-> 0]
        ELSE Paid(CHOOSE n \in 0..Len(strategyList) :
                      Done(n) /\ \A m \in 0..(n - 1) : ~Done(m))

-----------------------------------------------------------------------------
(* Depositors.                                                             *)

Deposit(u, amount) ==
    LET sh == ToShares(amount) IN
    /\ ~depositsPaused
    /\ amount > 0
    /\ tvlCap > 0 => totalAssets + amount <= tvlCap
    /\ perUserCap > 0 => ToAssets(shares[u]) + amount <= perUserCap
    /\ sh > 0
    /\ CanArrive(amount)
    /\ {shares[u] + sh, totalShares + sh, totalAssets + amount, idle + amount} \subseteq Uint
    /\ shares' = [shares EXCEPT ![u] = @ + sh]
    /\ totalShares' = totalShares + sh
    /\ totalAssets' = totalAssets + amount
    /\ idle' = idle + amount
    /\ UNCHANGED <<config, feeBalance, venues, writtenDown>>

\* Mutants of Redeem: no check of the user's own shares, and _totalShares
\* not reduced.
RedeemUnchecked(u, sh, amount, recalled) ==
    /\ sh <= totalShares /\ amount <= totalAssets
    /\ idle + SumFunction(recalled) - amount \in Uint
    /\ shares' = [shares EXCEPT ![u] = @ - sh]
    /\ totalShares' = totalShares - sh
    /\ totalAssets' = totalAssets - amount
    /\ idle' = idle + SumFunction(recalled) - amount
    /\ held' = [s \in Strategies |-> held[s] - recalled[s]]
    /\ UNCHANGED <<config, feeBalance, accrued, deployed, writtenDown>>

RedeemKeepsTotal(u, sh, amount, recalled) ==
    /\ sh <= shares[u] /\ amount <= totalAssets
    /\ idle + SumFunction(recalled) - amount \in Uint
    /\ shares' = [shares EXCEPT ![u] = @ - sh]
    /\ totalAssets' = totalAssets - amount
    /\ idle' = idle + SumFunction(recalled) - amount
    /\ held' = [s \in Strategies |-> held[s] - recalled[s]]
    /\ UNCHANGED <<totalShares, config, feeBalance, accrued, deployed, writtenDown>>

\* Burn sh of u's shares for amount out of idle plus what the recall brings.
\* Where the balance is short the transfer reverts: idle' is no amount.
Redeem(u, sh, amount, recalled) ==
    /\ sh <= shares[u] /\ sh <= totalShares
    /\ amount <= totalAssets
    /\ idle + SumFunction(recalled) - amount \in Uint
    /\ shares' = [shares EXCEPT ![u] = @ - sh]
    /\ totalShares' = totalShares - sh
    /\ totalAssets' = totalAssets - amount
    /\ idle' = idle + SumFunction(recalled) - amount
    /\ held' = [s \in Strategies |-> held[s] - recalled[s]]
    /\ UNCHANGED <<config, feeBalance, accrued, deployed, writtenDown>>

Withdraw(u, amount) ==
    LET sh == ToShares(amount) IN
    /\ amount > 0
    /\ sh > 0
    /\ Redeem(u, sh, amount, RecallShortfall(amount))

\* What withdrawUpTo(amount) wants, and what it pays after its recall.
WantUpTo(u, amount) == Lesser(amount, ToAssets(shares[u]))
PaidUpTo(u, amount) ==
    LET want == WantUpTo(u, amount)
    IN  Lesser(want, idle + SumFunction(RecallShortfall(want)))

WithdrawUpTo(u, amount) ==
    LET want == WantUpTo(u, amount)
        paid == PaidUpTo(u, amount)
    IN  /\ amount > 0 /\ want > 0 /\ paid \in Uint \ {0}
        /\ Redeem(u, Lesser(ToShares(paid), shares[u]), paid, RecallShortfall(want))

-----------------------------------------------------------------------------
(* Harvest.  A strategy's sweep may fail (the vault's try/catch skips it), *)
(* bring nothing, a part or all of what it has accrued.                    *)

FeeOn(profit) == (profit * performanceFee) \div BPS

SweepOf(s, limit) ==
    IF strategyActive[s] /\ s \in Registered
    THEN 0..Lesser(limit, Lesser(accrued[s], held[s])) ELSE {0}

\* Mutant of Harvest: the books take the gross profit, the fee leaves too.
HarvestGross(swept) ==
    LET profit == SumFunction(swept)
        fee == FeeOn(profit)
    IN  /\ \A s \in Strategies : swept[s] \in SweepOf(s, MaxUint)
        /\ {profit, idle + profit - fee, feeBalance + fee, totalAssets + profit} \subseteq Uint
        /\ idle' = idle + profit - fee
        /\ feeBalance' = feeBalance + fee
        /\ totalAssets' = totalAssets + profit
        /\ held' = [s \in Strategies |-> held[s] - swept[s]]
        /\ accrued' = [s \in Strategies |-> accrued[s] - swept[s]]
        /\ UNCHANGED <<shares, totalShares, config, deployed, writtenDown>>

Harvest(swept) ==
    LET profit == SumFunction(swept)
        fee == FeeOn(profit)
    IN  /\ \A s \in Strategies : swept[s] \in SweepOf(s, MaxUint)
        /\ {profit, idle + profit - fee, feeBalance + fee, totalAssets + profit - fee} \subseteq Uint
        /\ idle' = idle + profit - fee
        /\ feeBalance' = feeBalance + fee
        /\ totalAssets' = totalAssets + profit - fee
        /\ held' = [s \in Strategies |-> held[s] - swept[s]]
        /\ accrued' = [s \in Strategies |-> accrued[s] - swept[s]]
        /\ UNCHANGED <<shares, totalShares, config, deployed, writtenDown>>

\* The owner's bare sweep of one strategy: no fee and no credit.
HarvestStrategy(s, swept) ==
    /\ s \in Registered /\ strategyActive[s]
    /\ swept \in SweepOf(s, MaxUint)
    /\ idle + swept \in Uint
    /\ idle' = idle + swept
    /\ held' = [held EXCEPT ![s] = @ - swept]
    /\ accrued' = [accrued EXCEPT ![s] = @ - swept]
    /\ UNCHANGED <<books, config, feeBalance, deployed, writtenDown>>

-----------------------------------------------------------------------------
(* Owner.                                                                  *)

\* Equal parts of what idle holds above the reserve, one per active entry.
Allocate ==
    LET reserve == (totalAssets * RESERVE_BPS) \div BPS
        perStrategy == (idle - reserve) \div Cardinality(ActiveSlots)
        sent == [s \in Strategies |-> perStrategy * Cardinality(SlotsOf(s, Len(strategyList)))]
    IN  /\ idle > reserve
        /\ ActiveSlots # {}
        /\ perStrategy > 0
        /\ \A s \in Strategies : held[s] + sent[s] \in Uint
        /\ idle - perStrategy * Cardinality(ActiveSlots) \in Uint
        /\ idle' = idle - perStrategy * Cardinality(ActiveSlots)
        /\ held' = [s \in Strategies |-> held[s] + sent[s]]
        /\ UNCHANGED <<books, config, feeBalance, accrued, deployed, writtenDown>>

CreditYield(amount) ==
    /\ amount > 0
    /\ idle >= amount
    /\ totalAssets + amount \in Uint
    /\ totalAssets' = totalAssets + amount
    /\ UNCHANGED <<shares, totalShares, config, idle, feeBalance, venues, writtenDown>>

ReportLoss(amount) ==
    /\ amount <= totalAssets
    /\ totalAssets' = totalAssets - amount
    /\ writtenDown' = TRUE
    /\ UNCHANGED <<shares, totalShares, config, idle, feeBalance, venues>>

\* Takes the whole idle balance; reverts where it exceeds the booked assets.
EmergencyWithdraw ==
    /\ idle > 0
    /\ idle <= totalAssets
    /\ idle' = 0
    /\ totalAssets' = totalAssets - idle
    /\ writtenDown' = TRUE
    /\ UNCHANGED <<shares, totalShares, config, feeBalance, venues>>

AddStrategy(s) ==
    /\ Len(strategyList) < MaxList
    /\ strategyList' = Append(strategyList, s)
    /\ strategyActive' = [strategyActive EXCEPT ![s] = TRUE]
    /\ UNCHANGED <<books, tvlCap, perUserCap, depositsPaused, performanceFee,
                   idle, feeBalance, venues, writtenDown>>

SetStrategyActive(s, active) ==
    /\ s \in Registered
    /\ strategyActive' = [strategyActive EXCEPT ![s] = active]
    /\ UNCHANGED <<books, strategyList, tvlCap, perUserCap, depositsPaused,
                   performanceFee, idle, feeBalance, venues, writtenDown>>

SetCaps(tvl, perUser) ==
    /\ tvlCap' = tvl
    /\ perUserCap' = perUser
    /\ UNCHANGED <<books, strategyList, strategyActive, depositsPaused, performanceFee,
                   idle, feeBalance, venues, writtenDown>>

SetDepositsPaused(paused) ==
    /\ depositsPaused' = paused
    /\ UNCHANGED <<books, strategyList, strategyActive, tvlCap, perUserCap, performanceFee,
                   idle, feeBalance, venues, writtenDown>>

SetPerformanceFee(fee) ==
    /\ performanceFee' = fee
    /\ UNCHANGED <<books, strategyList, strategyActive, tvlCap, perUserCap, depositsPaused,
                   idle, feeBalance, venues, writtenDown>>

-----------------------------------------------------------------------------
(* Strategies and venues, as the vault sees them.                          *)

\* The keeper sends principal to the venue, or brings it back.
StrategyDeploy(s, amount) ==
    /\ amount > 0 /\ amount <= held[s] - accrued[s]
    /\ deployed[s] + amount \in Uint
    /\ held' = [held EXCEPT ![s] = @ - amount]
    /\ deployed' = [deployed EXCEPT ![s] = @ + amount]
    /\ UNCHANGED <<books, config, idle, feeBalance, accrued, writtenDown>>

StrategyReturn(s, amount) ==
    /\ amount > 0 /\ amount <= deployed[s]
    /\ held[s] + amount \in Uint
    /\ held' = [held EXCEPT ![s] = @ + amount]
    /\ deployed' = [deployed EXCEPT ![s] = @ - amount]
    /\ UNCHANGED <<books, config, idle, feeBalance, accrued, writtenDown>>

\* Yield arrives at a strategy as real tokens.
AccrueYield(s, amount) ==
    /\ amount > 0 /\ CanArrive(amount)
    /\ {held[s] + amount, accrued[s] + amount} \subseteq Uint
    /\ held' = [held EXCEPT ![s] = @ + amount]
    /\ accrued' = [accrued EXCEPT ![s] = @ + amount]
    /\ UNCHANGED <<books, config, idle, feeBalance, deployed, writtenDown>>

VenueLoss(s, amount) ==
    /\ amount > 0 /\ amount <= deployed[s]
    /\ deployed' = [deployed EXCEPT ![s] = @ - amount]
    /\ UNCHANGED <<books, config, idle, feeBalance, held, accrued, writtenDown>>

\* USDC reaches the vault by plain transfer (FeeDistributor.route, a grant).
Arrive(amount) ==
    /\ amount > 0 /\ CanArrive(amount)
    /\ idle + amount \in Uint
    /\ idle' = idle + amount
    /\ UNCHANGED <<books, config, feeBalance, venues, writtenDown>>

-----------------------------------------------------------------------------
\* A freshly deployed vault; performanceFee is any rate the owner may set next.
Init ==
    /\ shares = [u \in Users |-> 0] /\ totalShares = 0 /\ totalAssets = 0
    /\ strategyList = <<>>
    /\ strategyActive = [s \in Strategies |-> FALSE]
    /\ tvlCap = 0 /\ perUserCap = 0 /\ depositsPaused = FALSE
    /\ performanceFee \in Fees
    /\ idle = 0 /\ feeBalance = 0
    /\ held = [s \in Strategies |-> 0]
    /\ accrued = [s \in Strategies |-> 0]
    /\ deployed = [s \in Strategies |-> 0]
    /\ writtenDown = FALSE

UserStep ==
    \E u \in Users, amount \in Uint :
        Deposit(u, amount) \/ Withdraw(u, amount) \/ WithdrawUpTo(u, amount)

HarvestStep ==
    \/ \E swept \in [Strategies -> Uint] : Harvest(swept)
    \/ \E s \in Strategies, swept \in Uint : HarvestStrategy(s, swept)

ConfigStep ==
    \/ \E s \in Strategies : AddStrategy(s)
    \/ \E s \in Strategies, active \in BOOLEAN : SetStrategyActive(s, active)
    \/ \E tvl, perUser \in Caps : SetCaps(tvl, perUser)
    \/ \E paused \in Pauses : SetDepositsPaused(paused)
    \/ \E fee \in Fees : SetPerformanceFee(fee)

\* The owner's money moves, with any amount the contract accepts.
OwnerStep ==
    \/ Allocate
    \/ EmergencyWithdraw
    \/ \E amount \in Uint : CreditYield(amount) \/ ReportLoss(amount)

VenueStep ==
    \/ \E s \in Strategies, amount \in Uint :
          \/ StrategyDeploy(s, amount)
          \/ StrategyReturn(s, amount)
          \/ AccrueYield(s, amount)
          \/ VenueLoss(s, amount)
    \/ \E amount \in Uint : Arrive(amount)

Next == UserStep \/ HarvestStep \/ ConfigStep \/ OwnerStep \/ VenueStep

Spec == Init /\ [][Next]_vars

-----------------------------------------------------------------------------
TypeOK ==
    /\ shares \in [Users -> Uint]
    /\ {totalShares, totalAssets, idle, feeBalance} \subseteq Uint
    /\ strategyList \in Seq(Strategies) /\ Len(strategyList) <= MaxList
    /\ strategyActive \in [Strategies -> BOOLEAN]
    /\ {tvlCap, perUserCap} \subseteq Caps \cup {0}
    /\ depositsPaused \in BOOLEAN /\ performanceFee \in Fees
    /\ {held, accrued, deployed} \subseteq [Strategies -> Uint]
    /\ writtenDown \in BOOLEAN

\* A share is worth at least one unit until a loss is written down: no order
\* of deposits, withdrawals, harvests and credits, with both conversions
\* rounding down, brings totalAssets below totalShares (the fuzz suite's
\* "totalAssets >= totalShares except on the loss paths").
PriceFloor == ~writtenDown => totalAssets >= totalShares

\* What all depositors together are told they can withdraw (maxWithdraw) is
\* on the books, until a loss is written down: the virtual offset never
\* promises more than totalAssets.
ClaimsWithinBooks ==
    ~writtenDown => SumFunction([u \in Users |-> MaxWithdraw(u)]) <= totalAssets

X == totalAssets + SHARE_OFFSET
Y == totalShares + SHARE_OFFSET

\* No deposit dilutes the holders that are already there: the price X/Y does
\* not fall when shares are minted at the floor.
DepositNeverDilutes ==
    [][totalShares > 0 /\ totalShares' > totalShares => X' * Y >= X * Y']_vars

WriteDown == EmergencyWithdraw \/ \E amount \in Uint : ReportLoss(amount)

\* No transaction but a write-down lowers the price by more than the one
\* share a withdrawal's floor may leave unburned, at whatever price earlier
\* write-downs have left.
PriceFallsByRoundingOnly ==
    [][totalShares > 0 /\ ~WriteDown => X' * Y >= X * (Y' - 1)]_vars

\* The money behind the books: everything the vault or a strategy has, less
\* the yield no harvest has booked yet.
Surplus ==
    idle - totalAssets + SumFunction([s \in Strategies |-> held[s] + deployed[s] - accrued[s]])

\* Every transaction moves the books with the money: recalls that come up
\* short, uneven allocations, partial sweeps and fee rounding never leave
\* totalAssets ahead of what backs it.  Only a venue loss the owner has yet
\* to report, or a credit of money that had arrived before, narrows the gap.
BooksFollowMoney ==
    [][\/ Surplus' >= Surplus
       \/ \E s \in Strategies, amount \in Uint : VenueLoss(s, amount)
       \/ \E amount \in Uint : CreditYield(amount)]_vars
=============================================================================
