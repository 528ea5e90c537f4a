------------------------------- MODULE DNCore -------------------------------
(***************************************************************************)
(* The delta-neutral sleeve: DNCoreStrategy over DNCoreBase, and the part  *)
(* of HyperCore it acts on.                                                *)
(*                                                                         *)
(* The contract's orders and transfers are CoreWriter actions: the call    *)
(* succeeds, and HyperCore takes the action up later, in order, or drops   *)
(* it without a word.  Reads (the precompiles) see HyperCore as it is now. *)
(* Money is USDC with six decimals on both sides (coreScale = 1).  The     *)
(* cached equity (coreEquity6, syncCore) is not state here: everything     *)
(* that acts on it refreshes it first, so it is read as perp.              *)
(***************************************************************************)
EXTENDS Integers, Sequences, FiniteSets, Functions

CONSTANTS
    MaxUint,        \* bound: all the money of the sleeve, and each figure of its books
    MaxQueue,       \* bound: actions HyperCore has not taken up yet
    MaxGain,        \* bound: what the market gives altogether
    MaxLoss,        \* bound: what it takes
    Coins,          \* assets with a perpetual and a spot market
    NoCoin,         \* spotAsset = 0
    Sizes,          \* order sizes, in lots
    Prices,         \* USDC per lot
    Leverage,       \* a short's notional per USDC of collateral, at most
    MinOrder,       \* MIN_ORDER_USD6
    MaxAction,      \* maxActionUsd6
    BPS,            \* 10000 in the code
    Buffers,        \* values the owner gives bufferBps
    Switches,       \* settings <<isActive, paused>> the owner uses
    Careful         \* does the keeper wait for each action, and cover it?

Uint == 0..MaxUint

ASSUME DNAssumption ==
    /\ {MaxUint, MaxQueue, MaxGain, MaxLoss, Leverage, MinOrder, MaxAction} \subseteq Nat
    /\ BPS \in Nat \ {0} /\ Buffers \subseteq 0..BPS
    /\ Sizes \cup Prices \subseteq Nat \ {0}
    /\ IsFiniteSet(Coins) /\ NoCoin \notin Coins /\ Careful \in BOOLEAN
    /\ <<TRUE, FALSE>> \in Switches /\ Switches \subseteq BOOLEAN \X BOOLEAN

VARIABLES
    idle,           \* underlying.balanceOf(strategy)
    corePrincipal6, profitRealized, profitSwept,
    bufferBps, isActive, paused, perpAsset,
    spotAsset,      \* the coin of the spot configuration
    exists,         \* the strategy's HyperCore account exists
    depositing,     \* USDC on its way to HyperCore
    queue,          \* actions HyperCore has not taken up
    spot, perp,     \* USDC of the account: spot balance, account value
    short, hedge,   \* lots per coin
    price,
    gains, losses   \* history: what the market gave and took

books   == <<corePrincipal6, profitRealized, profitSwept>>
owned   == <<bufferBps, isActive, paused, perpAsset, spotAsset>>
core    == <<exists, depositing, spot, perp, short, hedge, price>>
market  == <<gains, losses>>
vars    == <<idle, books, owned, core, queue, market>>

-----------------------------------------------------------------------------
(* Reads.                                                                  *)

\* spotValue6(): the balance of the configured coin at its price.
SpotValue == IF spotAsset = NoCoin THEN 0 ELSE hedge[spotAsset] * price[spotAsset]

\* totalAssets(), freshly synced.
TotalAssets == (IF perp > 0 THEN perp ELSE 0) + SpotValue + idle

HedgeWorth == SumFunction([c \in Coins |-> hedge[c] * price[c]])

\* What bridgeBackToEvm has promised and HyperCore has not sent yet.
PendingSends ==
    SumFunction([i \in DOMAIN queue |-> IF queue[i].kind = "toEvm" THEN queue[i].amount ELSE 0])

\* What the sleeve has on HyperCore, on the way in included, on the way out not.
OnCore == spot + perp + HedgeWorth + depositing - PendingSends

\* Mutant of Harvestable: realized profit stays harvestable after the sweep.
HarvestableForever == profitRealized

Harvestable == IF profitRealized > profitSwept THEN profitRealized - profitSwept ELSE 0

-----------------------------------------------------------------------------
(* The vault, and the owner.                                               *)

Allocated(amount) ==
    /\ amount > 0 /\ idle + OnCore + amount <= MaxUint
    /\ idle' = idle + amount
    /\ UNCHANGED <<books, owned, core, queue, market>>

\* Mutant of Payable: the recall pays what was asked for.
PayableUnchecked(amount) == amount

Payable(amount) == IF amount > idle THEN idle ELSE amount

Recall(amount) ==
    /\ Payable(amount) > 0
    /\ idle' = idle - Payable(amount)
    /\ UNCHANGED <<books, owned, core, queue, market>>

\* What the vault's harvest sweeps: realized profit, as far as idle is above
\* the buffer.
Sweep ==
    LET buffer == (TotalAssets * bufferBps) \div BPS
        sweepable == IF idle > buffer THEN idle - buffer ELSE 0
    IN  IF Harvestable < sweepable THEN Harvestable ELSE sweepable

Harvest ==
    /\ isActive
    /\ profitSwept' = profitSwept + Sweep
    /\ idle' = idle - Sweep
    /\ UNCHANGED <<corePrincipal6, profitRealized, owned, core, queue, market>>

Flat == short[perpAsset] = 0

\* Only while flat: "avoids reinterpreting an open hedge".
SetPerpAsset(c) ==
    /\ Flat
    /\ perpAsset' = c
    /\ UNCHANGED <<idle, books, bufferBps, isActive, paused, spotAsset, core, queue, market>>

SetSpotConfig(c) ==
    /\ Flat
    /\ spotAsset' = c
    /\ UNCHANGED <<idle, books, bufferBps, isActive, paused, perpAsset, core, queue, market>>

SetBufferBps(buffer) ==
    /\ bufferBps' = buffer
    /\ UNCHANGED <<idle, books, isActive, paused, perpAsset, spotAsset, core, queue, market>>

\* setActive, setPaused
SetSwitches(active, pause) ==
    /\ active = isActive \/ pause = paused
    /\ isActive' = active /\ paused' = pause
    /\ UNCHANGED <<idle, books, bufferBps, perpAsset, spotAsset, core, queue, market>>

-----------------------------------------------------------------------------
(* The keeper's entry points.                                              *)

\* What the contract asks of a call is named, for whoever must know whether a
\* call would revert.
CanBridge(amount) ==
    /\ ~paused
    /\ amount > 0 /\ amount <= idle
    /\ corePrincipal6 + amount <= MaxUint

BridgeUsdcToCore(amount) ==
    /\ CanBridge(amount)
    /\ idle' = idle - amount
    /\ corePrincipal6' = corePrincipal6 + amount
    /\ depositing' = depositing + amount
    /\ UNCHANGED <<profitRealized, profitSwept, owned, exists, spot, perp, short,
                   hedge, price, queue, market>>

\* A careful keeper sends an action when the last one has been taken up.
Waited == Careful => queue = <<>>

\* sendRawAction: gated on the account and the pause, and accepted.
CanSend == ~paused /\ exists

Send(action) ==
    /\ CanSend /\ Waited /\ Len(queue) < MaxQueue
    /\ queue' = Append(queue, action)

\* Profit first: what leaves HyperCore is realized profit as far as the fresh
\* equity is above the principal, and principal beyond.
\* Mutants: the whole equity is profit; no principal ever leaves.
ProfitPartOfEquity(amount) == IF amount < perp THEN amount ELSE perp
PrincipalPartNone(amount) == 0

ProfitPart(amount) ==
    LET available == IF perp > corePrincipal6 THEN perp - corePrincipal6 ELSE 0
    IN  IF amount < available THEN amount ELSE available

PrincipalPart(amount) == amount - ProfitPart(amount)

CanReturn(amount) ==
    /\ Careful => amount <= spot
    /\ amount > 0 /\ amount <= perp
    /\ profitRealized + ProfitPart(amount) <= MaxUint

BridgeBackToEvm(amount) ==
    /\ CanReturn(amount)
    /\ corePrincipal6' = corePrincipal6 - PrincipalPart(amount)
    /\ profitRealized' = profitRealized + ProfitPart(amount)
    /\ Send([kind |-> "toEvm", amount |-> amount])
    /\ UNCHANGED <<idle, profitSwept, owned, core, market>>

\* moveUsdcToPerp, moveUsdcToSpot
CanMove(amount) == amount > 0 /\ amount <= MaxAction

MoveUsdc(kind, amount) ==
    /\ CanMove(amount)
    /\ Send([kind |-> kind, amount |-> amount])
    /\ UNCHANGED <<idle, books, owned, core, market>>

\* _order, with the notional at the limit price.
CanOrder(coin, limit, size) ==
    coin \in Coins /\ limit * size >= MinOrder /\ limit * size <= MaxAction

Order(kind, coin, limit, size) ==
    /\ CanOrder(coin, limit, size)
    /\ Send([kind |-> kind, amount |-> size, coin |-> coin, limit |-> limit])
    /\ UNCHANGED <<idle, books, owned, core, market>>

OpenShort(limit, size)  == Order("short", perpAsset, limit, size)
CloseShort(limit, size) == Order("close", perpAsset, limit, size)
OpenSpotBuy(limit, size) == Order("buy", spotAsset, limit, size)
SellSpot(limit, size)   == Order("sell", spotAsset, limit, size)

CanTransferOut(size) ==
    spotAsset # NoCoin /\ size > 0 /\ losses + size * price[spotAsset] <= MaxLoss

HedgeTransferOut(size) ==
    /\ CanTransferOut(size)
    /\ Send([kind |-> "send", amount |-> size, coin |-> spotAsset])
    /\ UNCHANGED <<idle, books, owned, core, market>>

-----------------------------------------------------------------------------
(* HyperCore.                                                              *)

DepositLands(amount) ==
    /\ amount > 0 /\ amount <= depositing
    /\ exists' = TRUE
    /\ depositing' = depositing - amount
    /\ spot' = spot + amount
    /\ UNCHANGED <<idle, books, owned, perp, short, hedge, price, queue, market>>

\* Can HyperCore carry out n of action a?  Transfers are all or nothing, an
\* order fills as far as its limit, collateral and balance go.
Possible(a, n) ==
    \/ n = 0
    \/ n = a.amount /\ a.kind \in {"toPerp", "toEvm"} /\ n <= spot
    \/ n = a.amount /\ a.kind = "toSpot" /\ n <= perp
    \/ n = a.amount /\ a.kind = "send" /\ n <= hedge[a.coin]
    \/ /\ a.kind = "short" /\ a.limit <= price[a.coin]
       /\ (short[a.coin] + n) * price[a.coin] <= Leverage * perp
    \/ a.kind = "close" /\ a.limit >= price[a.coin] /\ n <= short[a.coin]
    \/ a.kind = "buy" /\ a.limit >= price[a.coin] /\ n * price[a.coin] <= spot
    \/ a.kind = "sell" /\ a.limit <= price[a.coin] /\ n <= hedge[a.coin]

\* A keeper with discipline has gas on HyperCore and books to trade against:
\* what is possible is done.  Otherwise any part of it may be dropped.
Taken(a) ==
    {n \in 0..a.amount : Possible(a, n)
                         /\ (Careful => \A more \in n + 1..a.amount : ~Possible(a, more))}

Moved(f, a, n) == [f EXCEPT ![a.coin] = @ + n]

TakeUp ==
    /\ queue # <<>>
    /\ queue' = Tail(queue)
    /\ \E n \in Taken(Head(queue)) :
        LET a == Head(queue)
            cost == IF a.kind \in {"buy", "sell"} THEN n * price[a.coin] ELSE 0
        IN  /\ spot' = spot + (CASE a.kind \in {"toPerp", "toEvm"} -> -n
                                 [] a.kind = "toSpot" -> n
                                 [] a.kind = "buy" -> -cost
                                 [] a.kind = "sell" -> cost
                                 [] OTHER -> 0)
            /\ perp' = perp + (CASE a.kind = "toPerp" -> n
                                 [] a.kind = "toSpot" -> -n
                                 [] OTHER -> 0)
            /\ idle' = IF a.kind = "toEvm" THEN idle + n ELSE idle
            /\ short' = CASE a.kind = "short" -> Moved(short, a, n)
                          [] a.kind = "close" -> Moved(short, a, -n)
                          [] OTHER -> short
            /\ hedge' = CASE a.kind = "buy" -> Moved(hedge, a, n)
                          [] a.kind \in {"sell", "send"} -> Moved(hedge, a, -n)
                          [] OTHER -> hedge
            /\ losses' = IF a.kind = "send" THEN losses + n * price[a.coin] ELSE losses
    /\ UNCHANGED <<books, owned, exists, depositing, price, gains>>

\* A change of the account's worth, within the bounds.
Worth(change) ==
    /\ gains' = gains + (IF change > 0 THEN change ELSE 0) /\ gains' <= MaxGain
    /\ losses' = losses + (IF change < 0 THEN -change ELSE 0) /\ losses' <= MaxLoss

\* The price moves: the short gains what the hedge loses.
Reprice(c, p) ==
    /\ p # price[c]
    /\ price' = [price EXCEPT ![c] = p]
    /\ perp' = perp - short[c] * (p - price[c])
    /\ Worth((hedge[c] - short[c]) * (p - price[c]))
    /\ UNCHANGED <<idle, books, owned, exists, depositing, spot, short, hedge, queue>>

\* Funding, and the fees of trading.
Funding(change) ==
    /\ \E c \in Coins : short[c] > 0
    /\ perp' = perp + change
    /\ Worth(change)
    /\ UNCHANGED <<idle, books, owned, exists, depositing, spot, short, hedge, price, queue>>

\* HyperCore closes a short that has lost its collateral.
Liquidate ==
    /\ perp <= 0 /\ \E c \in Coins : short[c] > 0
    /\ short' = [c \in Coins |-> 0]
    /\ UNCHANGED <<idle, books, owned, exists, depositing, spot, perp, hedge, price, queue,
                   market>>

-----------------------------------------------------------------------------
Init ==
    /\ idle = 0
    /\ corePrincipal6 = 0 /\ profitRealized = 0 /\ profitSwept = 0
    /\ bufferBps \in Buffers /\ isActive = TRUE /\ paused = FALSE
    /\ perpAsset \in Coins /\ spotAsset = NoCoin
    /\ exists = FALSE /\ depositing = 0 /\ queue = <<>>
    /\ spot = 0 /\ perp = 0
    /\ short = [c \in Coins |-> 0] /\ hedge = [c \in Coins |-> 0]
    /\ price \in [Coins -> Prices]
    /\ gains = 0 /\ losses = 0

VaultStep == \E amount \in Uint : Allocated(amount) \/ Recall(amount) \/ Harvest

OwnerStep ==
    \/ \E c \in Coins : SetPerpAsset(c) \/ SetSpotConfig(c)
    \/ \E buffer \in Buffers : SetBufferBps(buffer)
    \/ \E switch \in Switches : SetSwitches(switch[1], switch[2])

KeeperStep ==
    \/ \E amount \in Uint :
          \/ BridgeUsdcToCore(amount) \/ BridgeBackToEvm(amount)
          \/ \E kind \in {"toPerp", "toSpot"} : MoveUsdc(kind, amount)
    \/ \E size \in Sizes, limit \in Prices :
          \/ OpenShort(limit, size) \/ CloseShort(limit, size)
          \/ OpenSpotBuy(limit, size) \/ SellSpot(limit, size)
    \/ \E size \in Sizes : HedgeTransferOut(size)

CoreStep ==
    \/ \E amount \in Uint : DepositLands(amount)
    \/ TakeUp
    \/ \E c \in Coins, p \in Prices : Reprice(c, p)
    \/ \E change \in {-1, 1} : Funding(change)
    \/ Liquidate

Next == VaultStep \/ OwnerStep \/ KeeperStep \/ CoreStep

Spec == Init /\ [][Next]_vars

-----------------------------------------------------------------------------
Actions ==
    [kind : {"toPerp", "toSpot", "toEvm"}, amount : Nat]
        \cup [kind : {"short", "close", "buy", "sell"}, amount : Nat, coin : Coins, limit : Prices]
        \cup [kind : {"send"}, amount : Nat, coin : Coins]

TypeOK ==
    /\ idle \in Nat /\ corePrincipal6 \in Nat
    /\ profitRealized \in Nat /\ profitSwept \in Nat
    /\ bufferBps \in Buffers /\ isActive \in BOOLEAN /\ paused \in BOOLEAN
    /\ perpAsset \in Coins /\ spotAsset \in Coins \cup {NoCoin}
    /\ exists \in BOOLEAN /\ depositing \in Nat /\ spot \in Nat /\ perp \in Int
    /\ short \in [Coins -> Nat] /\ hedge \in [Coins -> Nat] /\ price \in [Coins -> Prices]
    /\ queue \in Seq(Actions) /\ Len(queue) <= MaxQueue
    /\ gains \in Nat /\ losses \in Nat

\* The books and HyperCore agree, however transfers, orders, reads, bridging
\* in both directions and the market interleave: under a keeper with
\* discipline what is there is the principal and the profit not yet realized.
BooksMatchCore == Careful => OnCore = corePrincipal6 + gains - losses - profitRealized

\* Honest yield: nothing is realized as profit that the market has not given.
RealizedIsEarned == Careful => profitRealized <= gains

\* Yield leaves for the vault once: whatever harvests, recalls and bridging
\* interleave, and whoever calls, what was swept was realized.
SweptWasRealized == profitSwept <= profitRealized
=============================================================================
