--------------------------- MODULE DNCore_proofs ---------------------------
(***************************************************************************)
(* What holds of the delta-neutral sleeve for every value of the constants *)
(* and every discipline of the keeper, HyperCore dropping what it likes;   *)
(* and, under a keeper with discipline, the ledger of its books against    *)
(* what it has on HyperCore.  Of the keeper's script itself: types, that   *)
(* no run that is in time sells the hedge from under an open short, and    *)
(* which shorts a run leaves without their hedge and without an alert.     *)
(***************************************************************************)
EXTENDS DNKeeper, Arithmetic, FiniteSetTheorems, TLAPS

\* Both parts of an amount that leaves are amounts, the profit within the
\* equity above the principal and the rest within the principal.
LEMMA PartsAreAmounts ==
    ASSUME corePrincipal6 \in Nat, perp \in Int, NEW amount \in Nat, amount <= perp
    PROVE  /\ ProfitPart(amount) \in Nat
           /\ PrincipalPart(amount) \in Nat
           /\ PrincipalPart(amount) <= corePrincipal6
  BY DEF ProfitPart, PrincipalPart

\* The value of the configured hedge is an amount.
LEMMA SpotValueIsAmount ==
    ASSUME TypeOK
    PROVE  SpotValue \in Nat
<1>1. CASE spotAsset = NoCoin
  BY <1>1 DEF SpotValue
<1>2. CASE spotAsset # NoCoin
  <2>1. hedge[spotAsset] \in Nat /\ price[spotAsset] \in Nat
    BY <1>2, DNAssumption DEF TypeOK
  <2>2. hedge[spotAsset] * price[spotAsset] \in Nat
    BY <2>1
  <2> QED
    BY <1>2, <2>2 DEF SpotValue
<1> QED
  BY <1>1, <1>2

\* A sweep takes an amount, within what is harvestable and what is idle.
LEMMA SweepIsBounded ==
    ASSUME TypeOK
    PROVE  Sweep \in Nat /\ Sweep <= Harvestable /\ Sweep <= idle
<1> DEFINE buffer == (TotalAssets * bufferBps) \div BPS
<1>1. idle \in Nat /\ perp \in Int /\ bufferBps \in Nat /\ BPS \in Nat \ {0}
  BY DNAssumption DEF TypeOK
<1>2. TotalAssets \in Nat
  BY <1>1, SpotValueIsAmount DEF TotalAssets
<1>3. TotalAssets * bufferBps \in Nat
  BY <1>1, <1>2
<1>4. buffer \in Nat
  BY <1>1, <1>3
<1>5. Harvestable \in Nat
  BY DEF Harvestable, TypeOK
<1> HIDE DEF buffer
<1>6. Sweep = LET sweepable == IF idle > buffer THEN idle - buffer ELSE 0
              IN  IF Harvestable < sweepable THEN Harvestable ELSE sweepable
  BY DEF Sweep, buffer
<1> QED
  BY <1>1, <1>4, <1>5, <1>6

LEMMA InitType == Init => TypeOK
<1> SUFFICES ASSUME Init PROVE TypeOK
  OBVIOUS
<1>1. queue \in Seq(Actions) /\ Len(queue) <= MaxQueue
  BY DNAssumption DEF Init
<1>2. short \in [Coins -> Nat] /\ hedge \in [Coins -> Nat] /\ price \in [Coins -> Prices]
  BY DEF Init
<1>3. /\ idle \in Nat /\ corePrincipal6 \in Nat /\ profitRealized \in Nat
      /\ profitSwept \in Nat /\ depositing \in Nat /\ spot \in Nat /\ perp \in Int
      /\ gains \in Nat /\ losses \in Nat
  BY DEF Init
<1>4. /\ bufferBps \in Buffers /\ isActive \in BOOLEAN /\ paused \in BOOLEAN
      /\ exists \in BOOLEAN /\ perpAsset \in Coins /\ spotAsset \in Coins \cup {NoCoin}
  BY Zenon DEF Init
<1> QED
  BY <1>1, <1>2, <1>3, <1>4 DEF TypeOK

\* The type invariant survives what the vault and the owner do.
LEMMA VaultStepType == TypeOK /\ VaultStep => TypeOK'
<1> SUFFICES ASSUME TypeOK, NEW amount \in Uint,
                    Allocated(amount) \/ Recall(amount) \/ Harvest
             PROVE  TypeOK'
  BY DEF VaultStep
<1>1. amount \in Nat
  BY DNAssumption DEF Uint
<1>2. CASE Allocated(amount)
  BY <1>1, <1>2 DEF Allocated, TypeOK, books, owned, core, market
<1>3. CASE Recall(amount)
  BY <1>1, <1>3 DEF Recall, Payable, TypeOK, books, owned, core, market
<1>4. CASE Harvest
  BY <1>4, SweepIsBounded DEF Harvest, TypeOK, books, owned, core, market
<1> QED
  BY <1>2, <1>3, <1>4

LEMMA OwnerStepType == TypeOK /\ OwnerStep => TypeOK'
<1> SUFFICES ASSUME TypeOK, OwnerStep PROVE TypeOK'
  OBVIOUS
<1>1. ASSUME NEW c \in Coins, SetPerpAsset(c) \/ SetSpotConfig(c)
      PROVE  TypeOK'
  BY <1>1 DEF SetPerpAsset, SetSpotConfig, TypeOK, books, owned, core, market
<1>2. ASSUME NEW buffer \in Buffers, SetBufferBps(buffer)
      PROVE  TypeOK'
  BY <1>2 DEF SetBufferBps, TypeOK, books, owned, core, market
<1>3. ASSUME NEW switch \in Switches, SetSwitches(switch[1], switch[2])
      PROVE  TypeOK'
  <2>1. switch[1] \in BOOLEAN /\ switch[2] \in BOOLEAN
    BY DNAssumption
  <2> QED
    BY <1>3, <2>1 DEF SetSwitches, TypeOK, books, owned, core, market
<1> QED
  BY <1>1, <1>2, <1>3 DEF OwnerStep

\* An action sent lengthens the queue by itself, within the bound.
LEMMA SendType ==
    ASSUME TypeOK, NEW action \in Actions, Send(action)
    PROVE  queue' \in Seq(Actions) /\ Len(queue') <= MaxQueue
  BY DNAssumption DEF TypeOK, Send

LEMMA BridgeToCoreType ==
    ASSUME TypeOK, NEW amount \in Nat, BridgeUsdcToCore(amount) PROVE TypeOK'
<1>1. idle' \in Nat /\ corePrincipal6' \in Nat /\ depositing' \in Nat
  BY DEF BridgeUsdcToCore, CanBridge, TypeOK
<1> QED
  BY <1>1 DEF BridgeUsdcToCore, CanBridge, TypeOK, owned, market

LEMMA BridgeBackType ==
    ASSUME TypeOK, NEW amount \in Nat, BridgeBackToEvm(amount) PROVE TypeOK'
<1>1. amount <= perp
  BY DEF BridgeBackToEvm, CanReturn
<1>2. [kind |-> "toEvm", amount |-> amount] \in Actions
  BY DEF Actions
<1>3. queue' \in Seq(Actions) /\ Len(queue') <= MaxQueue
  BY <1>2, SendType DEF BridgeBackToEvm, CanReturn
<1>4. /\ ProfitPart(amount) \in Nat /\ PrincipalPart(amount) \in Nat
      /\ PrincipalPart(amount) <= corePrincipal6
  BY <1>1, PartsAreAmounts DEF TypeOK
<1>5. /\ corePrincipal6' = corePrincipal6 - PrincipalPart(amount)
      /\ profitRealized' = profitRealized + ProfitPart(amount)
  BY DEF BridgeBackToEvm, CanReturn
<1>6. corePrincipal6' \in Nat /\ profitRealized' \in Nat
  BY <1>4, <1>5 DEF TypeOK
<1> QED
  BY <1>3, <1>6 DEF BridgeBackToEvm, CanReturn, TypeOK, owned, core, market

LEMMA MoveUsdcType ==
    ASSUME TypeOK, NEW kind \in {"toPerp", "toSpot"}, NEW amount \in Nat, MoveUsdc(kind, amount)
    PROVE  TypeOK'
<1>1. [kind |-> kind, amount |-> amount] \in Actions
  BY DEF Actions
<1>2. queue' \in Seq(Actions) /\ Len(queue') <= MaxQueue
  BY <1>1, SendType DEF MoveUsdc, CanMove
<1> QED
  BY <1>2 DEF MoveUsdc, CanMove, TypeOK, books, owned, core, market

LEMMA OrderType ==
    ASSUME TypeOK, NEW kind \in {"short", "close", "buy", "sell"}, NEW coin,
           NEW limit \in Prices, NEW size \in Nat, Order(kind, coin, limit, size)
    PROVE  TypeOK'
<1>1. coin \in Coins
  BY DEF Order, CanOrder
<1>2. [kind |-> kind, amount |-> size, coin |-> coin, limit |-> limit] \in Actions
  BY <1>1 DEF Actions
<1>3. queue' \in Seq(Actions) /\ Len(queue') <= MaxQueue
  BY <1>2, SendType DEF Order, CanOrder
<1> QED
  BY <1>3 DEF Order, CanOrder, TypeOK, books, owned, core, market

LEMMA HedgeTransferType ==
    ASSUME TypeOK, NEW size \in Nat, HedgeTransferOut(size) PROVE TypeOK'
<1>1. spotAsset \in Coins
  BY DEF HedgeTransferOut, CanTransferOut, TypeOK
<1>2. [kind |-> "send", amount |-> size, coin |-> spotAsset] \in Actions
  BY <1>1 DEF Actions
<1>3. queue' \in Seq(Actions) /\ Len(queue') <= MaxQueue
  BY <1>2, SendType DEF HedgeTransferOut, CanTransferOut
<1> QED
  BY <1>3 DEF HedgeTransferOut, CanTransferOut, TypeOK, books, owned, core, market

LEMMA KeeperStepType == TypeOK /\ KeeperStep => TypeOK'
<1>1. Uint \subseteq Nat /\ Sizes \subseteq Nat
  BY DNAssumption DEF Uint
<1> QED
  BY <1>1, BridgeToCoreType, BridgeBackType, MoveUsdcType, OrderType, HedgeTransferType
  DEF KeeperStep, OpenShort, CloseShort, OpenSpotBuy, SellSpot

\* A change of the account's worth keeps both tallies.
LEMMA WorthType ==
    ASSUME gains \in Nat, losses \in Nat, NEW change \in Int, Worth(change)
    PROVE  gains' \in Nat /\ losses' \in Nat
  BY DEF Worth

\* One coin's lots, more or less n, are lots as long as they do not go below
\* nothing.
LEMMA MovedType ==
    ASSUME NEW f \in [Coins -> Nat], NEW a, NEW n \in Int, a.coin \in Coins, f[a.coin] + n >= 0
    PROVE  Moved(f, a, n) \in [Coins -> Nat]
<1>1. f[a.coin] + n \in Nat
  OBVIOUS
<1> QED
  BY <1>1 DEF Moved

\* Whatever part of an action HyperCore carries out, no balance goes below zero.
LEMMA TakeUpType == TypeOK /\ TakeUp => TypeOK'
<1> SUFFICES ASSUME TypeOK, TakeUp PROVE TypeOK'
  OBVIOUS
<1> DEFINE a == Head(queue)
           cost(n) == IF a.kind \in {"buy", "sell"} THEN n * price[a.coin] ELSE 0
<1>0. /\ queue # <<>> /\ queue' = Tail(queue)
      /\ UNCHANGED <<books, owned, exists, depositing, price, gains>>
  BY Zenon DEF TakeUp
<1>1. /\ a \in Actions
      /\ queue' \in Seq(Actions) /\ Len(queue') <= MaxQueue
  <2>1. queue \in Seq(Actions) /\ Len(queue) <= MaxQueue /\ MaxQueue \in Nat
    BY DNAssumption DEF TypeOK
  <2> QED
    BY <1>0, <2>1
<1>2. PICK n \in Taken(a) :
        /\ spot' = spot + (CASE a.kind \in {"toPerp", "toEvm"} -> -n
                             [] a.kind = "toSpot" -> n
                             [] a.kind = "buy" -> -cost(n)
                             [] a.kind = "sell" -> cost(n)
                             [] OTHER -> 0)
        /\ perp' = perp + (CASE a.kind = "toPerp" -> n
                             [] a.kind = "toSpot" -> -n
                             [] OTHER -> 0)
        /\ idle' = IF a.kind = "toEvm" THEN idle + n ELSE idle
        /\ short' = CASE a.kind = "short" -> Moved(short, a, n)
                      [] a.kind = "close" -> Moved(short, a, -n)
                      [] OTHER -> short
        /\ hedge' = CASE a.kind = "buy" -> Moved(hedge, a, n)
                      [] a.kind \in {"sell", "send"} -> Moved(hedge, a, -n)
                      [] OTHER -> hedge
        /\ losses' = IF a.kind = "send" THEN losses + n * price[a.coin] ELSE losses
  BY Zenon DEF TakeUp
<1>3. a.amount \in Nat /\ n \in Nat /\ Possible(a, n)
  BY <1>1, <1>2 DEF Taken, Actions
<1>4. /\ idle \in Nat /\ spot \in Nat /\ perp \in Int /\ losses \in Nat
      /\ short \in [Coins -> Nat] /\ hedge \in [Coins -> Nat]
  BY DEF TypeOK
<1>5. a.kind \in {"short", "close", "buy", "sell", "send"}
        => a.coin \in Coins /\ price[a.coin] \in Nat
  BY <1>1, DNAssumption DEF Actions, TypeOK
<1> HIDE DEF a
<1>6. CASE a.kind \in {"toPerp", "toEvm", "toSpot"}
  <2>1. a.kind \in {"toPerp", "toEvm"} => n <= spot
    BY <1>3, <1>4, <1>6 DEF Possible
  <2>2. /\ spot' \in Nat /\ perp' \in Int /\ idle' \in Nat
        /\ short' = short /\ hedge' = hedge /\ losses' = losses
    BY <1>2, <1>3, <1>4, <1>6, <2>1
  <2> QED
    BY <1>0, <1>1, <2>2 DEF TypeOK, books, owned
<1>7. CASE a.kind = "short"
  <2>1. Moved(short, a, n) \in [Coins -> Nat]
    BY <1>3, <1>4, <1>5, <1>7, MovedType
  <2>2. /\ spot' = spot /\ perp' = perp /\ idle' = idle /\ losses' = losses
        /\ short' = Moved(short, a, n) /\ hedge' = hedge
    BY <1>2, <1>4, <1>7
  <2> QED
    BY <1>0, <1>1, <2>1, <2>2 DEF TypeOK, books, owned
<1>8. CASE a.kind = "close"
  <2>1. n <= short[a.coin]
    BY <1>3, <1>4, <1>5, <1>8 DEF Possible
  <2>2. Moved(short, a, -n) \in [Coins -> Nat]
    BY <1>3, <1>4, <1>5, <1>8, <2>1, MovedType
  <2>3. /\ spot' = spot /\ perp' = perp /\ idle' = idle /\ losses' = losses
        /\ short' = Moved(short, a, -n) /\ hedge' = hedge
    BY <1>2, <1>4, <1>8
  <2> QED
    BY <1>0, <1>1, <2>2, <2>3 DEF TypeOK, books, owned
<1>9. CASE a.kind = "buy"
  <2>1. cost(n) \in Nat /\ cost(n) <= spot
    BY <1>3, <1>4, <1>5, <1>9 DEF Possible
  <2>2. Moved(hedge, a, n) \in [Coins -> Nat]
    BY <1>3, <1>4, <1>5, <1>9, MovedType
  <2>3. /\ spot' = spot - cost(n) /\ perp' = perp /\ idle' = idle /\ losses' = losses
        /\ short' = short /\ hedge' = Moved(hedge, a, n)
    BY <1>2, <1>4, <1>9, <2>1
  <2>4. /\ spot' \in Nat /\ perp' \in Int /\ idle' \in Nat /\ losses' \in Nat
        /\ short' \in [Coins -> Nat] /\ hedge' \in [Coins -> Nat]
    BY <1>4, <2>1, <2>2, <2>3
  <2> QED
    BY <1>0, <1>1, <2>2, <2>4 DEF TypeOK, books, owned
<1>10. CASE a.kind = "sell"
  <2>1. n <= hedge[a.coin] /\ cost(n) \in Nat
    BY <1>3, <1>4, <1>5, <1>10 DEF Possible
  <2>2. Moved(hedge, a, -n) \in [Coins -> Nat]
    BY <1>3, <1>4, <1>5, <1>10, <2>1, MovedType
  <2>3. /\ spot' = spot + cost(n) /\ perp' = perp /\ idle' = idle /\ losses' = losses
        /\ short' = short /\ hedge' = Moved(hedge, a, -n)
    BY <1>2, <1>4, <1>10, <2>1
  <2>4. /\ spot' \in Nat /\ perp' \in Int /\ idle' \in Nat /\ losses' \in Nat
        /\ short' \in [Coins -> Nat] /\ hedge' \in [Coins -> Nat]
    BY <1>4, <2>1, <2>2, <2>3
  <2> QED
    BY <1>0, <1>1, <2>2, <2>4 DEF TypeOK, books, owned
<1>11. CASE a.kind = "send"
  <2>1. n <= hedge[a.coin] /\ n * price[a.coin] \in Nat
    BY <1>3, <1>4, <1>5, <1>11 DEF Possible
  <2>2. Moved(hedge, a, -n) \in [Coins -> Nat]
    BY <1>3, <1>4, <1>5, <1>11, <2>1, MovedType
  <2>3. /\ spot' = spot /\ perp' = perp /\ idle' = idle
        /\ losses' = losses + n * price[a.coin]
        /\ short' = short /\ hedge' = Moved(hedge, a, -n)
    BY <1>2, <1>4, <1>11
  <2>4. /\ spot' \in Nat /\ perp' \in Int /\ idle' \in Nat /\ losses' \in Nat
        /\ short' \in [Coins -> Nat] /\ hedge' \in [Coins -> Nat]
    BY <1>4, <2>1, <2>2, <2>3
  <2> QED
    BY <1>0, <1>1, <2>2, <2>4 DEF TypeOK, books, owned
<1> QED
  BY <1>1, <1>6, <1>7, <1>8, <1>9, <1>10, <1>11 DEF Actions

LEMMA CoreStepType == TypeOK /\ CoreStep => TypeOK'
<1> SUFFICES ASSUME TypeOK, CoreStep PROVE TypeOK'
  OBVIOUS
<1>1. ASSUME NEW amount \in Uint, DepositLands(amount)
      PROVE  TypeOK'
  <2>1. amount \in Nat
    BY DNAssumption DEF Uint
  <2> QED
    BY <1>1, <2>1 DEF DepositLands, TypeOK, books, owned, market
<1>2. ASSUME NEW c \in Coins, NEW p \in Prices, Reprice(c, p)
      PROVE  TypeOK'
  <2>1. /\ p \in Nat /\ price[c] \in Nat /\ short[c] \in Nat /\ hedge[c] \in Nat
    BY DNAssumption DEF TypeOK
  <2>2. /\ short[c] * (p - price[c]) \in Int
        /\ (hedge[c] - short[c]) * (p - price[c]) \in Int
    BY <2>1
  <2>3. perp' \in Int
    BY <1>2, <2>2 DEF Reprice, TypeOK
  <2>4. gains' \in Nat /\ losses' \in Nat
    BY <1>2, <2>2, WorthType DEF Reprice, TypeOK
  <2>5. price' \in [Coins -> Prices]
    BY <1>2 DEF Reprice, TypeOK
  <2> QED
    BY <1>2, <2>3, <2>4, <2>5 DEF Reprice, TypeOK, books, owned
<1>3. ASSUME NEW change \in {-1, 1}, Funding(change)
      PROVE  TypeOK'
  <2>1. change \in Int
    OBVIOUS
  <2>2. perp' \in Int
    BY <1>3, <2>1 DEF Funding, TypeOK
  <2>3. gains' \in Nat /\ losses' \in Nat
    BY <1>3, <2>1, WorthType DEF Funding, TypeOK
  <2> QED
    BY <1>3, <2>2, <2>3 DEF Funding, TypeOK, books, owned
<1>4. CASE Liquidate
  BY <1>4 DEF Liquidate, TypeOK, books, owned, market
<1> QED
  BY <1>1, <1>2, <1>3, <1>4, TakeUpType DEF CoreStep

\* Type correctness: however HyperCore drops, cuts short or delays what the
\* contract sends it, no balance and no figure of the books goes below zero;
\* in particular the principal never underflows in bridgeBackToEvm.
THEOREM TypeCorrect == Spec => []TypeOK
<1>1. TypeOK /\ [Next]_vars => TypeOK'
  <2>1. TypeOK /\ UNCHANGED vars => TypeOK'
    BY DEF TypeOK, vars, books, owned, core, market
  <2> QED
    BY <2>1, VaultStepType, OwnerStepType, KeeperStepType, CoreStepType DEF Next
<1> QED
  BY <1>1, InitType, PTL DEF Spec

\* Yield leaves for the vault once, whoever calls and whatever HyperCore drops.
THEOREM SweptOnce == Spec => []SweptWasRealized
<1>1. Init => SweptWasRealized
  BY DEF Init, SweptWasRealized
<1>2. TypeOK /\ SweptWasRealized /\ [Next]_vars => SweptWasRealized'
  <2> SUFFICES ASSUME TypeOK, SweptWasRealized, [Next]_vars PROVE SweptWasRealized'
    OBVIOUS
  <2>1. CASE Harvest
    <3>1. Sweep \in Nat /\ Sweep <= profitRealized - profitSwept
      BY SweepIsBounded DEF Harvestable, TypeOK, SweptWasRealized
    <3> QED
      BY <2>1, <3>1 DEF Harvest, TypeOK, SweptWasRealized
  <2>2. ASSUME NEW amount \in Uint, BridgeBackToEvm(amount)
        PROVE  SweptWasRealized'
    <3>1. ProfitPart(amount) \in Nat
      BY <2>2, PartsAreAmounts, DNAssumption DEF BridgeBackToEvm, CanReturn, Uint, TypeOK
    <3> QED
      BY <2>2, <3>1 DEF BridgeBackToEvm, CanReturn, TypeOK, SweptWasRealized
  <2>3. CASE UNCHANGED <<profitRealized, profitSwept>>
    BY <2>3 DEF SweptWasRealized
  <2> QED
    BY <2>1, <2>2, <2>3
    DEF Next, VaultStep, OwnerStep, KeeperStep, CoreStep, Allocated, Recall, SetPerpAsset,
        SetSpotConfig, SetBufferBps, SetSwitches, BridgeUsdcToCore, MoveUsdc, OpenShort,
        CloseShort, OpenSpotBuy, SellSpot, Order, HedgeTransferOut, DepositLands, TakeUp,
        Reprice, Funding, Liquidate, vars, books
<1> QED
  BY <1>1, <1>2, TypeCorrect, PTL DEF Spec

-----------------------------------------------------------------------------
(* The books against HyperCore, under a keeper with discipline.            *)

LEMMA HedgeWorthType == TypeOK => HedgeWorth \in Nat
<1> SUFFICES ASSUME TypeOK PROVE HedgeWorth \in Nat
  OBVIOUS
<1> DEFINE f == [c \in Coins |-> hedge[c] * price[c]]
<1>1. f \in [Coins -> Nat]
  <2>1. ASSUME NEW c \in Coins PROVE hedge[c] * price[c] \in Nat
    <3>1. hedge[c] \in Nat /\ price[c] \in Nat
      BY DNAssumption DEF TypeOK
    <3> QED
      BY <3>1, ProductType
  <2> QED
    BY <2>1
<1> HIDE DEF f
<1>2. SumFunction(f) \in Nat
  BY <1>1, SumNatural, DNAssumption
<1> QED
  BY <1>2 DEF HedgeWorth, f

LEMMA HedgeWorthTypeNext == TypeOK' => HedgeWorth' \in Nat
<1>1. TypeOK' => (HedgeWorth \in Nat)'
  BY HedgeWorthType, PTL
<1> QED
  BY <1>1

\* The hedge's lots, or its price, change for one coin.
LEMMA HedgeWorthStep ==
    ASSUME TypeOK, TypeOK', NEW c \in Coins, NEW d \in Int,
           \A b \in Coins \ {c} : hedge'[b] = hedge[b] /\ price'[b] = price[b],
           hedge'[c] * price'[c] = hedge[c] * price[c] + d
    PROVE  HedgeWorth' = HedgeWorth + d
<1> DEFINE f == [b \in Coins |-> hedge[b] * price[b]]
           g == [b \in Coins |-> hedge'[b] * price'[b]]
<1>1. f \in [Coins -> Int] /\ g \in [Coins -> Int]
  <2>1. ASSUME NEW b \in Coins PROVE hedge[b] * price[b] \in Int /\ hedge'[b] * price'[b] \in Int
    <3>1. hedge[b] \in Int /\ hedge'[b] \in Int
      BY DEF TypeOK
    <3>2. price[b] \in Prices /\ price'[b] \in Prices
      BY DEF TypeOK
    <3>3. \A p \in Prices : p \in Int
      BY DNAssumption
    <3> QED
      BY <3>1, <3>2, <3>3, Distribution
  <2> QED
    BY <2>1
<1>2. \A b \in Coins \ {c} : g[b] = f[b]
  OBVIOUS
<1>3. g[c] = f[c] + d
  OBVIOUS
<1>4. HedgeWorth = SumFunction(f) /\ HedgeWorth' = SumFunction(g)
  BY DEF HedgeWorth
<1> HIDE DEF f, g
<1>5. SumFunction(g) = SumFunction(f) + (g[c] - f[c])
  BY <1>1, <1>2, SumChange, DNAssumption
<1>6. SumFunction(f) \in Int /\ f[c] \in Int
  BY <1>1, SumType, DNAssumption
<1> QED
  BY <1>3, <1>4, <1>5, <1>6

LEMMA SameHedgeWorth ==
    ASSUME hedge' = hedge, price' = price PROVE HedgeWorth' = HedgeWorth
  BY DEF HedgeWorth

\* What one action promises to send.
Promised(a) == IF a.kind = "toEvm" THEN a.amount ELSE 0

LEMMA NothingPending == queue = <<>> => PendingSends = 0
<1> SUFFICES ASSUME queue = <<>> PROVE PendingSends = 0
  OBVIOUS
<1> DEFINE f == [i \in DOMAIN queue |-> IF queue[i].kind = "toEvm" THEN queue[i].amount ELSE 0]
<1>1. f \in [{} -> Int] /\ IsFiniteSet({})
  BY FS_EmptySet
<1>2. PendingSends = SumFunction(f)
  BY DEF PendingSends
<1> HIDE DEF f
<1> QED
  BY <1>1, <1>2, SumZero

LEMMA OnePending ==
    ASSUME NEW a, Promised(a) \in Int
    PROVE  queue = <<a>> => PendingSends = Promised(a)
<1> SUFFICES ASSUME queue = <<a>> PROVE PendingSends = Promised(a)
  OBVIOUS
<1> DEFINE f == [i \in DOMAIN queue |-> IF queue[i].kind = "toEvm" THEN queue[i].amount ELSE 0]
           z == [i \in {1} |-> 0]
<1>1. DOMAIN queue = {1} /\ queue[1] = a
  OBVIOUS
<1>2. f = [i \in {1} |-> Promised(a)]
  BY <1>1 DEF Promised
<1>3. PendingSends = SumFunction(f)
  BY DEF PendingSends
<1> HIDE DEF f
<1>4. f \in [{1} -> Int] /\ z \in [{1} -> Int] /\ f[1] = Promised(a) /\ z[1] = 0
  BY <1>2
<1>5. IsFiniteSet({1}) /\ \A i \in {1} : z[i] = 0
  BY FS_Singleton
<1> HIDE DEF z
<1>6. SumFunction(z) = 0
  BY <1>4, <1>5, SumZero
<1>7. SumFunction(f) = SumFunction(z) + (f[1] - z[1])
  BY <1>4, <1>5, SumChange
<1> QED
  BY <1>3, <1>4, <1>6, <1>7

LEMMA NothingPendingNext == queue' = <<>> => PendingSends' = 0
<1>1. (queue = <<>> => PendingSends = 0)'
  BY NothingPending, PTL
<1> QED
  BY <1>1

LEMMA OnePendingNext ==
    ASSUME NEW a, Promised(a) \in Int
    PROVE  queue' = <<a>> => PendingSends' = Promised(a)
<1>1. (queue = <<a>> => PendingSends = Promised(a))'
  BY OnePending, PTL
<1> QED
  BY <1>1

LEMMA PendingType ==
    ASSUME TypeOK PROVE PendingSends \in Int
<1> DEFINE f == [i \in DOMAIN queue |-> IF queue[i].kind = "toEvm" THEN queue[i].amount ELSE 0]
<1>1. queue \in Seq(Actions)
  BY DEF TypeOK
<1>2. DOMAIN queue = 1..Len(queue) /\ Len(queue) \in Nat
  BY <1>1
<1>3. IsFiniteSet(DOMAIN queue)
  BY <1>2, FS_Interval
<1>4. \A a \in Actions : a.kind = "toEvm" => a.amount \in Int
  BY DEF Actions
<1>5. f \in [DOMAIN queue -> Int]
  <2>1. \A i \in DOMAIN queue : queue[i] \in Actions
    BY <1>1
  <2> QED
    BY <1>4, <2>1
<1>6. PendingSends = SumFunction(f)
  BY DEF PendingSends
<1> HIDE DEF f
<1> QED
  BY <1>3, <1>5, <1>6, SumType

\* The ledger alone is not inductive.  It needs that a careful keeper has at
\* most one action open, so that a dropped or partial one cannot eat what a
\* later one was promised, and that the account can pay what was promised to
\* the vault.
OneAction == Len(queue) <= 1
Payment   == queue # <<>> /\ Head(queue).kind = "toEvm" => Head(queue).amount <= spot
Balance   == OnCore = corePrincipal6 + gains - losses - profitRealized

BooksInv ==
    /\ TypeOK
    /\ Careful => OneAction /\ Payment /\ Balance /\ profitRealized <= gains

LEMMA Figures ==
    ASSUME TypeOK
    PROVE  /\ {idle, corePrincipal6, profitRealized, profitSwept, depositing, spot,
               gains, losses, HedgeWorth} \subseteq Nat
           /\ perp \in Int
  BY HedgeWorthType DEF TypeOK

LEMMA FiguresNext ==
    TypeOK' => /\ {depositing', spot', HedgeWorth'} \subseteq Nat
               /\ perp' \in Int
  BY HedgeWorthTypeNext DEF TypeOK

\* Lots of one coin that come or go take their worth with them.
LEMMA MovedWorth ==
    ASSUME TypeOK, NEW a, a.coin \in Coins, NEW n \in Int, hedge' = Moved(hedge, a, n),
           price' = price
    PROVE  /\ hedge'[a.coin] * price'[a.coin] = hedge[a.coin] * price[a.coin] + n * price[a.coin]
           /\ \A b \in Coins \ {a.coin} : hedge'[b] = hedge[b] /\ price'[b] = price[b]
<1>1. hedge \in [Coins -> Nat] /\ price \in [Coins -> Prices]
  BY DEF TypeOK
<1>2. /\ hedge'[a.coin] = hedge[a.coin] + n
      /\ \A b \in Coins \ {a.coin} : hedge'[b] = hedge[b]
  BY <1>1 DEF Moved
<1>3. hedge[a.coin] \in Int /\ price[a.coin] \in Prices
  BY <1>1
<1>4. price[a.coin] \in Int
  BY <1>3, DNAssumption
<1>5. (hedge[a.coin] + n) * price[a.coin] = hedge[a.coin] * price[a.coin] + n * price[a.coin]
  BY <1>3, <1>4, SMT
<1> QED
  BY <1>2, <1>5

\* The ledger holds after a step that changes what is on HyperCore by what the
\* market gave less what it took.
LEMMA LedgerStep ==
    ASSUME TypeOK, TypeOK', Balance, PendingSends \in Int, PendingSends' \in Int,
           UNCHANGED <<corePrincipal6, profitRealized>>,
           (spot' - spot) + (perp' - perp) + (HedgeWorth' - HedgeWorth)
               + (depositing' - depositing) - (PendingSends' - PendingSends)
             = (gains' - gains) - (losses' - losses)
    PROVE  Balance'
<1> DEFINE h == HedgeWorth   h1 == HedgeWorth'
           s == PendingSends s1 == PendingSends'
<1>1. /\ h \in Int /\ h1 \in Int /\ s \in Int /\ s1 \in Int
      /\ spot \in Int /\ spot' \in Int /\ perp \in Int /\ perp' \in Int
      /\ depositing \in Int /\ depositing' \in Int
      /\ gains \in Int /\ gains' \in Int /\ losses \in Int /\ losses' \in Int
      /\ corePrincipal6 \in Int /\ profitRealized \in Int
  <2>1. h \in Int /\ h1 \in Int
    BY HedgeWorthType, HedgeWorthTypeNext
  <2> QED
    BY <2>1 DEF TypeOK
<1>2. /\ spot + perp + h + depositing - s = corePrincipal6 + gains - losses - profitRealized
      /\ (spot' - spot) + (perp' - perp) + (h1 - h) + (depositing' - depositing) - (s1 - s)
           = (gains' - gains) - (losses' - losses)
  BY DEF Balance, OnCore
<1>3. /\ OnCore' = spot' + perp' + h1 + depositing' - s1
      /\ corePrincipal6' = corePrincipal6 /\ profitRealized' = profitRealized
  BY DEF OnCore
<1> HIDE DEF h, h1, s, s1
<1>4. spot' + perp' + h1 + depositing' - s1 = corePrincipal6 + gains' - losses' - profitRealized
  BY <1>1, <1>2
<1> QED
  BY <1>3, <1>4 DEF Balance

\* Steps that leave HyperCore, its queue and the books against it alone.
LEMMA QuietBooks ==
    ASSUME BooksInv, TypeOK',
           UNCHANGED <<spot, perp, hedge, price, depositing, queue, corePrincipal6,
                       profitRealized, gains, losses>>
    PROVE  BooksInv'
<1>1. HedgeWorth' = HedgeWorth /\ PendingSends' = PendingSends
  BY SameHedgeWorth DEF PendingSends
<1>2. OnCore' = OnCore
  BY <1>1 DEF OnCore
<1> QED
  BY <1>2 DEF BooksInv, OneAction, Payment, Balance

LEMMA VaultStepBooks == ASSUME BooksInv, VaultStep PROVE BooksInv'
<1>1. TypeOK'
  BY VaultStepType DEF BooksInv
<1>2. UNCHANGED <<spot, perp, hedge, price, depositing, queue, corePrincipal6,
                  profitRealized, gains, losses>>
  BY DEF VaultStep, Allocated, Recall, Harvest, books, core, market
<1> QED
  BY <1>1, <1>2, QuietBooks

LEMMA OwnerStepBooks == ASSUME BooksInv, OwnerStep PROVE BooksInv'
<1>1. TypeOK'
  BY OwnerStepType DEF BooksInv
<1>2. UNCHANGED <<spot, perp, hedge, price, depositing, queue, corePrincipal6,
                  profitRealized, gains, losses>>
  BY DEF OwnerStep, SetPerpAsset, SetSpotConfig, SetBufferBps, SetSwitches, books, core, market
<1> QED
  BY <1>1, <1>2, QuietBooks

\* A careful keeper sends into an empty queue.
LEMMA SendIntoEmpty ==
    ASSUME TypeOK, Careful, NEW a \in Actions, Send(a)
    PROVE  queue = <<>> /\ queue' = <<a>> /\ Promised(a) \in Nat
<1>1. queue = <<>>
  BY DEF Send, Waited
<1>2. queue' = <<a>>
  BY <1>1 DEF Send
<1>3. a.kind = "toEvm" => a.amount \in Nat
  BY DEF Actions
<1> QED
  BY <1>1, <1>2, <1>3 DEF Promised

\* Anything but a payment to the vault leaves the ledger as it is.
LEMMA SendBooks ==
    ASSUME BooksInv, TypeOK', Careful, NEW a \in Actions, a.kind # "toEvm", Send(a),
           UNCHANGED <<books, core, market>>
    PROVE  BooksInv'
<1>1. queue = <<>> /\ queue' = <<a>> /\ Promised(a) = 0
  BY SendIntoEmpty DEF BooksInv, Promised
<1>2. PendingSends = 0 /\ PendingSends' = 0
  BY <1>1, NothingPending, OnePendingNext
<1>3. UNCHANGED <<spot, perp, hedge, price, depositing, corePrincipal6, profitRealized,
                  gains, losses>>
  BY DEF books, core, market
<1>4. OnCore' = OnCore
  BY <1>2, <1>3, SameHedgeWorth DEF OnCore
<1>5. Len(queue') <= 1 /\ Head(queue') = a
  BY <1>1
<1> QED
  BY <1>3, <1>4, <1>5 DEF BooksInv, OneAction, Payment, Balance

\* What is realized when it is sent is what the equity exceeds the principal
\* by, and the ledger says that the market gave it.
LEMMA BridgeBackBooks ==
    ASSUME BooksInv, TypeOK', Careful, NEW amount \in Uint, BridgeBackToEvm(amount)
    PROVE  BooksInv'
<1> DEFINE a == [kind |-> "toEvm", amount |-> amount]
<1>1. amount \in Nat /\ amount <= perp /\ amount <= spot /\ Send(a)
  BY DNAssumption DEF BridgeBackToEvm, CanReturn, Uint
<1>2. a \in Actions /\ a.kind = "toEvm" /\ a.amount = amount
  BY <1>1 DEF Actions
<1> HIDE DEF a
<1>3. queue = <<>> /\ queue' = <<a>> /\ Promised(a) = amount
  BY <1>1, <1>2, SendIntoEmpty DEF BooksInv, Promised
<1>4. PendingSends = 0 /\ PendingSends' = amount
  BY <1>1, <1>3, NothingPending, OnePendingNext
<1>5. /\ UNCHANGED <<spot, perp, hedge, price, depositing, gains, losses>>
      /\ corePrincipal6' = corePrincipal6 - PrincipalPart(amount)
      /\ profitRealized' = profitRealized + ProfitPart(amount)
  BY DEF BridgeBackToEvm, CanReturn, core, market
<1>6. /\ ProfitPart(amount) \in Nat /\ PrincipalPart(amount) = amount - ProfitPart(amount)
      /\ ProfitPart(amount) = 0 \/ ProfitPart(amount) <= perp - corePrincipal6
  BY <1>1, Figures DEF ProfitPart, PrincipalPart, BooksInv
<1>7. OnCore = spot + perp + HedgeWorth + depositing /\ OnCore' = OnCore - amount
  <2>1. HedgeWorth' = HedgeWorth
    BY <1>5, SameHedgeWorth
  <2> QED
    BY <1>1, <1>4, <1>5, <2>1, Figures DEF OnCore, BooksInv
<1>8. Balance' /\ profitRealized' <= gains'
  <2>1. Balance /\ profitRealized <= gains
    BY DEF BooksInv
  <2>2. Balance'
    BY <1>1, <1>5, <1>6, <1>7, <2>1, Figures DEF Balance, BooksInv
  <2>3. profitRealized' <= gains'
    BY <1>1, <1>5, <1>6, <1>7, <2>1, Figures DEF Balance, BooksInv
  <2> QED
    BY <2>2, <2>3
<1>9. Len(queue') <= 1 /\ Head(queue') = a
  BY <1>3
<1> QED
  BY <1>1, <1>2, <1>5, <1>8, <1>9 DEF BooksInv, OneAction, Payment

LEMMA KeeperStepBooks == ASSUME BooksInv, Careful, KeeperStep PROVE BooksInv'
<1>0. TypeOK /\ TypeOK'
  BY KeeperStepType DEF BooksInv
<1>1. ASSUME NEW amount \in Uint, BridgeUsdcToCore(amount) PROVE BooksInv'
  <2>1. amount \in Nat
    BY DNAssumption DEF Uint
  <2>2. /\ UNCHANGED <<spot, perp, hedge, price, queue, profitRealized, gains, losses>>
        /\ depositing' = depositing + amount /\ corePrincipal6' = corePrincipal6 + amount
    BY <1>1 DEF BridgeUsdcToCore, CanBridge, market
  <2>3. HedgeWorth' = HedgeWorth /\ PendingSends' = PendingSends
    BY <2>2, SameHedgeWorth DEF PendingSends
  <2>4. PendingSends \in Int
    BY <1>0, PendingType DEF BooksInv
  <2>5. Balance'
    BY <1>0, <2>1, <2>2, <2>3, <2>4, Figures DEF BooksInv, Balance, OnCore
  <2> QED
    BY <1>0, <2>2, <2>5 DEF BooksInv, OneAction, Payment
<1>2. ASSUME NEW amount \in Uint, BridgeBackToEvm(amount) PROVE BooksInv'
  BY <1>0, <1>2, BridgeBackBooks
<1>3. ASSUME NEW kind \in {"toPerp", "toSpot"}, NEW amount \in Uint, MoveUsdc(kind, amount)
      PROVE  BooksInv'
  <2> DEFINE a == [kind |-> kind, amount |-> amount]
  <2>1. a \in Actions /\ a.kind # "toEvm"
    BY DNAssumption DEF Actions, Uint
  <2>2. Send(a) /\ UNCHANGED <<books, core, market>>
    BY <1>3 DEF MoveUsdc, CanMove
  <2> HIDE DEF a
  <2> QED
    BY <1>0, <2>1, <2>2, SendBooks
<1>4. ASSUME NEW kind \in {"short", "close", "buy", "sell"}, NEW coin,
             NEW limit \in Prices, NEW size \in Sizes, Order(kind, coin, limit, size)
      PROVE  BooksInv'
  <2> DEFINE a == [kind |-> kind, amount |-> size, coin |-> coin, limit |-> limit]
  <2>1. size \in Nat /\ coin \in Coins
    BY <1>4, DNAssumption DEF Order, CanOrder
  <2>2. a \in Actions /\ a.kind # "toEvm"
    BY <2>1 DEF Actions
  <2>3. Send(a) /\ UNCHANGED <<books, core, market>>
    BY <1>4 DEF Order, CanOrder
  <2> HIDE DEF a
  <2> QED
    BY <1>0, <2>2, <2>3, SendBooks
<1>5. ASSUME NEW size \in Sizes, HedgeTransferOut(size) PROVE BooksInv'
  <2> DEFINE a == [kind |-> "send", amount |-> size, coin |-> spotAsset]
  <2>1. size \in Nat /\ spotAsset \in Coins
    BY <1>0, <1>5, DNAssumption DEF HedgeTransferOut, CanTransferOut, TypeOK
  <2>2. a \in Actions /\ a.kind # "toEvm"
    BY <2>1 DEF Actions
  <2>3. Send(a) /\ UNCHANGED <<books, core, market>>
    BY <1>5 DEF HedgeTransferOut, CanTransferOut
  <2> HIDE DEF a
  <2> QED
    BY <1>0, <2>2, <2>3, SendBooks
<1> QED
  BY <1>1, <1>2, <1>3, <1>4, <1>5 DEF KeeperStep, OpenShort, CloseShort, OpenSpotBuy, SellSpot

LEMMA SoleElement ==
    ASSUME NEW S, NEW q \in Seq(S), q # <<>>, Len(q) <= 1
    PROVE  q = <<Head(q)>> /\ Head(q) \in S /\ Tail(q) = <<>>
<1>1. Len(q) # 0 /\ Len(q) \in Nat
  OBVIOUS
<1>2. Len(q) = 1
  BY <1>1
<1>3. Head(q) = q[1] /\ q[1] \in S
  BY <1>2
<1>4. q = <<q[1]>>
  BY <1>2
<1>5. Tail(q) = <<>>
  BY <1>4
<1> QED
  BY <1>3, <1>4, <1>5

(* HyperCore takes an action up: for each kind, what it moves between the  *)
(* account's balances, or what the ledger counts as lost.  A payment to    *)
(* the vault is made in full, as it was covered when it was sent.          *)
LEMMA TakeUpBooks == ASSUME BooksInv, Careful, TakeUp PROVE BooksInv'
<1> DEFINE a == Head(queue)
           cost(n) == IF a.kind \in {"buy", "sell"} THEN n * price[a.coin] ELSE 0
<1>0. /\ TypeOK /\ TypeOK' /\ OneAction /\ Payment /\ Balance /\ profitRealized <= gains
      /\ queue # <<>> /\ queue' = Tail(queue)
      /\ UNCHANGED <<books, owned, exists, depositing, price, gains>>
  BY TakeUpType, Zenon DEF BooksInv, TakeUp
<1>1. a \in Actions /\ queue = <<a>> /\ queue' = <<>>
  <2>1. queue \in Seq(Actions) /\ queue # <<>> /\ Len(queue) <= 1 /\ queue' = Tail(queue)
    BY <1>0 DEF TypeOK, OneAction
  <2> QED
    BY <2>1, SoleElement
<1>2. PICK n \in Taken(a) :
        /\ spot' = spot + (CASE a.kind \in {"toPerp", "toEvm"} -> -n
                             [] a.kind = "toSpot" -> n
                             [] a.kind = "buy" -> -cost(n)
                             [] a.kind = "sell" -> cost(n)
                             [] OTHER -> 0)
        /\ perp' = perp + (CASE a.kind = "toPerp" -> n
                             [] a.kind = "toSpot" -> -n
                             [] OTHER -> 0)
        /\ idle' = IF a.kind = "toEvm" THEN idle + n ELSE idle
        /\ short' = CASE a.kind = "short" -> Moved(short, a, n)
                      [] a.kind = "close" -> Moved(short, a, -n)
                      [] OTHER -> short
        /\ hedge' = CASE a.kind = "buy" -> Moved(hedge, a, n)
                      [] a.kind \in {"sell", "send"} -> Moved(hedge, a, -n)
                      [] OTHER -> hedge
        /\ losses' = IF a.kind = "send" THEN losses + n * price[a.coin] ELSE losses
  BY Zenon DEF TakeUp
<1>3. a.amount \in Nat /\ n \in 0..a.amount /\ Possible(a, n)
      /\ \A more \in n + 1..a.amount : ~Possible(a, more)
  BY <1>1, <1>2 DEF Taken, Actions
<1>4. a.kind \in {"buy", "sell", "send"}
        => /\ a.coin \in Coins /\ price[a.coin] \in Nat /\ hedge[a.coin] \in Nat
           /\ n * price[a.coin] \in Nat
  <2>1. a.kind \in {"buy", "sell", "send"} => a.coin \in Coins
    BY <1>1 DEF Actions
  <2>2. \A c \in Coins : price[c] \in Prices /\ hedge[c] \in Nat
    BY <1>0 DEF TypeOK
  <2>3. \A p \in Prices : p \in Nat
    BY DNAssumption
  <2>4. \A c \in Coins : price[c] \in Nat
    BY <2>2, <2>3
  <2>5. n \in Nat
    BY <1>3
  <2>6. \A c \in Coins : n * price[c] \in Nat
    BY <2>4, <2>5, ProductType
  <2> QED
    BY <2>1, <2>2, <2>4, <2>6
<1>5. a.kind = "toEvm" => n = a.amount /\ a.amount <= spot
  <2> SUFFICES ASSUME a.kind = "toEvm" PROVE n = a.amount /\ a.amount <= spot
    OBVIOUS
  <2>1. a.amount <= spot
    BY <1>0 DEF Payment
  <2>2. Possible(a, a.amount)
    BY <2>1 DEF Possible
  <2>3. a.amount \notin n + 1..a.amount
    BY <1>3, <2>2
  <2> QED
    BY <1>3, <2>1, <2>3
<1> HIDE DEF a
<1>6. Promised(a) = (IF a.kind = "toEvm" THEN n ELSE 0) /\ Promised(a) \in Int
  BY <1>3, <1>5 DEF Promised
<1>7. PendingSends = (IF a.kind = "toEvm" THEN n ELSE 0) /\ PendingSends' = 0
  BY <1>1, <1>6, OnePending, NothingPendingNext
<1>8. /\ depositing' = depositing /\ corePrincipal6' = corePrincipal6
      /\ profitRealized' = profitRealized /\ gains' = gains /\ price' = price
  BY <1>0 DEF books
<1>9. SUFFICES Balance'
  BY <1>0, <1>1, <1>8, <1>9 DEF BooksInv, OneAction, Payment
<1>10. n \in Int
  BY <1>3
<1>11. CASE a.kind \in {"toPerp", "toEvm", "toSpot"}
  <2>1. HedgeWorth' = HedgeWorth /\ losses' = losses
    BY <1>2, <1>8, <1>11, SameHedgeWorth
  <2>2. CASE a.kind = "toPerp"
    <3>1. spot' = spot - n /\ perp' = perp + n /\ PendingSends = 0 /\ PendingSends' = 0
      BY <1>0, <1>2, <1>7, <1>10, <2>2, Figures
    <3>2. PendingSends \in Int /\ PendingSends' \in Int
      BY <1>10, <3>1
    <3>3. (spot' - spot) + (perp' - perp) + (HedgeWorth' - HedgeWorth)
              + (depositing' - depositing) - (PendingSends' - PendingSends)
            = (gains' - gains) - (losses' - losses)
      <4>1. /\ spot \in Int /\ perp \in Int /\ HedgeWorth \in Int /\ depositing \in Int
            /\ gains \in Int /\ losses \in Int
        BY <1>0, Figures
      <4> QED
        BY <1>8, <1>10, <2>1, <3>1, <4>1
    <3> QED
      BY <1>0, <1>8, <2>1, <3>1, <3>2, <3>3, LedgerStep
  <2>3. CASE a.kind = "toSpot"
    <3>1. spot' = spot + n /\ perp' = perp - n /\ PendingSends = 0 /\ PendingSends' = 0
      BY <1>0, <1>2, <1>7, <1>10, <2>3, Figures
    <3>2. PendingSends \in Int /\ PendingSends' \in Int
      BY <1>10, <3>1
    <3>3. (spot' - spot) + (perp' - perp) + (HedgeWorth' - HedgeWorth)
              + (depositing' - depositing) - (PendingSends' - PendingSends)
            = (gains' - gains) - (losses' - losses)
      <4>1. /\ spot \in Int /\ perp \in Int /\ HedgeWorth \in Int /\ depositing \in Int
            /\ gains \in Int /\ losses \in Int
        BY <1>0, Figures
      <4> QED
        BY <1>8, <1>10, <2>1, <3>1, <4>1
    <3> QED
      BY <1>0, <1>8, <2>1, <3>1, <3>2, <3>3, LedgerStep
  <2>4. CASE a.kind = "toEvm"
    <3>1. spot' = spot - n /\ perp' = perp /\ PendingSends = n /\ PendingSends' = 0
      BY <1>0, <1>2, <1>7, <1>10, <2>4, Figures
    <3>2. PendingSends \in Int /\ PendingSends' \in Int
      BY <1>10, <3>1
    <3>3. (spot' - spot) + (perp' - perp) + (HedgeWorth' - HedgeWorth)
              + (depositing' - depositing) - (PendingSends' - PendingSends)
            = (gains' - gains) - (losses' - losses)
      <4>1. /\ spot \in Int /\ perp \in Int /\ HedgeWorth \in Int /\ depositing \in Int
            /\ gains \in Int /\ losses \in Int
        BY <1>0, Figures
      <4> QED
        BY <1>8, <1>10, <2>1, <3>1, <4>1
    <3> QED
      BY <1>0, <1>8, <2>1, <3>1, <3>2, <3>3, LedgerStep
  <2> QED
    BY <1>11, <2>2, <2>3, <2>4
<1>12. CASE a.kind \in {"short", "close"}
  <2>1. HedgeWorth' = HedgeWorth /\ losses' = losses
    BY <1>2, <1>8, <1>12, SameHedgeWorth
  <2>2. spot' = spot /\ perp' = perp
    BY <1>0, <1>2, <1>12, Figures
  <2> QED
    BY <1>0, <1>7, <1>8, <1>12, <2>1, <2>2, Figures DEF Balance, OnCore
<1>13. CASE a.kind = "buy"
  <2> DEFINE d == n * price[a.coin]
  <2>1. hedge' = Moved(hedge, a, n) /\ losses' = losses /\ spot' = spot - d /\ perp' = perp
    BY <1>0, <1>2, <1>4, <1>13, Figures
  <2>2. d \in Int
    BY <1>4, <1>13
  <2>3. /\ hedge'[a.coin] * price'[a.coin] = hedge[a.coin] * price[a.coin] + d
        /\ \A b \in Coins \ {a.coin} : hedge'[b] = hedge[b] /\ price'[b] = price[b]
    BY <1>0, <1>4, <1>8, <1>10, <1>13, <2>1, MovedWorth
  <2> HIDE DEF d
  <2>4. HedgeWorth' = HedgeWorth + d
    BY <1>0, <1>4, <1>13, <2>2, <2>3, HedgeWorthStep
  <2> QED
    BY <1>0, <1>7, <1>8, <1>13, <2>1, <2>2, <2>4, Figures DEF Balance, OnCore
<1>14. CASE a.kind \in {"sell", "send"}
  <2> DEFINE d == n * price[a.coin]
             m == -n
             e == -d
  <2>1. hedge' = Moved(hedge, a, m) /\ perp' = perp
    BY <1>0, <1>2, <1>14, Figures
  <2>2. \/ spot' = spot + d /\ losses' = losses
        \/ spot' = spot /\ losses' = losses + d
    <3>1. CASE a.kind = "sell"
      BY <1>2, <3>1
    <3>2. CASE a.kind = "send"
      BY <1>0, <1>2, <3>2, Figures
    <3> QED
      BY <1>14, <3>1, <3>2
  <2>3. a.coin \in Coins /\ d \in Int
    BY <1>4, <1>14
  <2>4. e \in Int /\ e = -d /\ m \in Int
    BY <1>10, <2>3
  <2>5. m * price[a.coin] = e
    BY <1>4, <1>10, <1>14, SMT
  <2> HIDE DEF d, e, m
  <2>6. /\ hedge'[a.coin] * price'[a.coin] = hedge[a.coin] * price[a.coin] + e
        /\ \A b \in Coins \ {a.coin} : hedge'[b] = hedge[b] /\ price'[b] = price[b]
    BY <1>0, <1>8, <2>1, <2>3, <2>4, <2>5, MovedWorth
  <2>7. HedgeWorth' = HedgeWorth + e
    BY <1>0, <2>3, <2>4, <2>6, HedgeWorthStep
  <2>8. PendingSends = 0
    BY <1>7, <1>14
  <2> QED
    <3>1. PendingSends \in Int /\ PendingSends' \in Int
      BY <1>7, <2>8
    <3>2. (spot' - spot) + (perp' - perp) + (HedgeWorth' - HedgeWorth)
              + (depositing' - depositing) - (PendingSends' - PendingSends)
            = (gains' - gains) - (losses' - losses)
      <4>1. /\ spot \in Int /\ perp \in Int /\ HedgeWorth \in Int /\ depositing \in Int
            /\ gains \in Int /\ losses \in Int
        BY <1>0, Figures
      <4> QED
        BY <1>7, <1>8, <2>1, <2>2, <2>3, <2>4, <2>7, <2>8, <4>1
    <3> QED
      BY <1>0, <1>8, <3>1, <3>2, LedgerStep
<1> QED
  BY <1>1, <1>11, <1>12, <1>13, <1>14 DEF Actions

\* What the account is worth changes by what the ledger counts.
LEMMA WorthIsCounted ==
    ASSUME NEW change \in Int, TypeOK, Worth(change)
    PROVE  (gains' - gains) - (losses' - losses) = change /\ gains' >= gains
  BY DEF Worth, TypeOK

\* Price, hedge and short: what the short gains the hedge loses, and the rest
\* is the market's.
LEMMA RepriceBooks ==
    ASSUME BooksInv, TypeOK', Careful, NEW c \in Coins, NEW p \in Prices, Reprice(c, p)
    PROVE  BooksInv'
<1> DEFINE dp == p - price[c]
           change == (hedge[c] - short[c]) * dp
           d == hedge[c] * dp
           e == short[c] * dp
<1>1. /\ hedge[c] \in Int /\ short[c] \in Int /\ price[c] \in Prices
      /\ price \in [Coins -> Prices]
  <2>1. hedge \in [Coins -> Nat] /\ short \in [Coins -> Nat] /\ price \in [Coins -> Prices]
    BY DEF BooksInv, TypeOK
  <2> QED
    BY <2>1
<1>2. \A x \in Prices : x \in Int
  BY DNAssumption
<1>3. p \in Int /\ price[c] \in Int
  BY <1>1, <1>2
<1>4. /\ hedge' = hedge /\ perp' = perp - e /\ Worth(change)
      /\ price' = [price EXCEPT ![c] = p]
      /\ UNCHANGED <<corePrincipal6, profitRealized, depositing, spot, queue>>
  BY DEF Reprice, books
<1>5. dp \in Int /\ p = price[c] + dp
  BY <1>3
<1> HIDE DEF dp
<1>6. d \in Int /\ e \in Int /\ change \in Int /\ change = d - e
  BY <1>1, <1>5, SMT
<1>7. hedge[c] * p = hedge[c] * price[c] + d
  BY <1>1, <1>3, <1>5, SMT
<1> HIDE DEF change, d, e
<1>8. /\ hedge'[c] * price'[c] = hedge[c] * price[c] + d
      /\ \A b \in Coins \ {c} : hedge'[b] = hedge[b] /\ price'[b] = price[b]
  BY <1>1, <1>4, <1>7
<1>9. HedgeWorth' = HedgeWorth + d
  BY <1>6, <1>8, HedgeWorthStep DEF BooksInv
<1>10. (gains' - gains) - (losses' - losses) = change /\ gains' >= gains
  BY <1>4, <1>6, WorthIsCounted DEF BooksInv
<1>11. PendingSends \in Int /\ PendingSends' = PendingSends
  BY <1>4, PendingType DEF BooksInv, PendingSends
<1>12. (spot' - spot) + (perp' - perp) + (HedgeWorth' - HedgeWorth)
           + (depositing' - depositing) - (PendingSends' - PendingSends)
         = (gains' - gains) - (losses' - losses)
  <2>1. /\ spot \in Int /\ perp \in Int /\ HedgeWorth \in Int /\ depositing \in Int
    BY Figures DEF BooksInv
  <2> QED
    BY <1>4, <1>6, <1>9, <1>10, <1>11, <2>1
<1>13. Balance'
  BY <1>4, <1>11, <1>12, LedgerStep DEF BooksInv
<1>14. profitRealized' <= gains'
  <2> DEFINE before == gains
             after == gains'
  <2>1. before \in Int /\ after \in Int /\ profitRealized \in Int
    BY DEF BooksInv, TypeOK
  <2>2. profitRealized <= before /\ before <= after
    BY <1>10, <2>1 DEF BooksInv
  <2> HIDE DEF before, after
  <2>3. profitRealized <= after
    BY <2>1, <2>2
  <2> QED
    BY <1>4, <2>3 DEF after
<1> QED
  BY <1>4, <1>13, <1>14 DEF BooksInv, OneAction, Payment

LEMMA FundingBooks ==
    ASSUME BooksInv, TypeOK', Careful, NEW change \in {-1, 1}, Funding(change)
    PROVE  BooksInv'
<1>1. /\ perp' = perp + change /\ Worth(change) /\ change \in Int
      /\ UNCHANGED <<corePrincipal6, profitRealized, depositing, spot, hedge, price, queue>>
  BY DEF Funding, books
<1>2. (gains' - gains) - (losses' - losses) = change /\ gains' >= gains
  BY <1>1, WorthIsCounted DEF BooksInv
<1>3. PendingSends \in Int /\ PendingSends' = PendingSends /\ HedgeWorth' = HedgeWorth
  BY <1>1, PendingType, SameHedgeWorth DEF BooksInv, PendingSends
<1>4. (spot' - spot) + (perp' - perp) + (HedgeWorth' - HedgeWorth)
           + (depositing' - depositing) - (PendingSends' - PendingSends)
         = (gains' - gains) - (losses' - losses)
  <2>1. /\ spot \in Int /\ perp \in Int /\ HedgeWorth \in Int /\ depositing \in Int
    BY Figures DEF BooksInv
  <2> QED
    BY <1>1, <1>2, <1>3, <2>1
<1>5. Balance'
  BY <1>1, <1>3, <1>4, LedgerStep DEF BooksInv
<1>6. profitRealized' <= gains'
  <2> DEFINE before == gains
             after == gains'
  <2>1. before \in Int /\ after \in Int /\ profitRealized \in Int
    BY DEF BooksInv, TypeOK
  <2>2. profitRealized <= before /\ before <= after
    BY <1>2, <2>1 DEF BooksInv
  <2> HIDE DEF before, after
  <2>3. profitRealized <= after
    BY <2>1, <2>2
  <2> QED
    BY <1>1, <2>3 DEF after
<1> QED
  BY <1>1, <1>5, <1>6 DEF BooksInv, OneAction, Payment

LEMMA DepositBooks ==
    ASSUME BooksInv, TypeOK', Careful, NEW amount \in Uint, DepositLands(amount)
    PROVE  BooksInv'
<1>1. /\ depositing' = depositing - amount /\ spot' = spot + amount /\ amount \in Nat
      /\ UNCHANGED <<corePrincipal6, profitRealized, perp, hedge, price, queue, gains, losses>>
  BY DNAssumption DEF DepositLands, books, market, Uint
<1>2. PendingSends \in Int /\ PendingSends' = PendingSends /\ HedgeWorth' = HedgeWorth
  BY <1>1, PendingType, SameHedgeWorth DEF BooksInv, PendingSends
<1>3. spot \in Int /\ perp \in Int /\ HedgeWorth \in Int /\ depositing \in Int
      /\ gains \in Int /\ losses \in Int
  BY Figures DEF BooksInv
<1>4. (spot' - spot) + (perp' - perp) + (HedgeWorth' - HedgeWorth)
           + (depositing' - depositing) - (PendingSends' - PendingSends)
         = (gains' - gains) - (losses' - losses)
  BY <1>1, <1>2, <1>3
<1>5. Balance'
  BY <1>1, <1>2, <1>4, LedgerStep DEF BooksInv
<1>6. spot <= spot'
  BY <1>1, <1>3
<1>7. Payment'
  <2> SUFFICES ASSUME queue # <<>>, Head(queue).kind = "toEvm" PROVE Head(queue).amount <= spot'
    BY <1>1 DEF Payment
  <2> DEFINE n == Head(queue).amount
  <2>1. n <= spot
    BY DEF BooksInv, Payment
  <2>2. n \in Nat
    <3>1. queue \in Seq(Actions) /\ Len(queue) <= 1
      BY DEF BooksInv, TypeOK, OneAction
    <3>2. Head(queue) \in Actions
      BY <3>1, SoleElement
    <3> QED
      BY <3>2 DEF Actions
  <2> HIDE DEF n
  <2>3. n <= spot'
    BY <1>1, <1>3, <2>1, <2>2
  <2> QED
    BY <2>3 DEF n
<1> QED
  BY <1>1, <1>5, <1>7 DEF BooksInv, OneAction

LEMMA CoreStepBooks == ASSUME BooksInv, Careful, CoreStep PROVE BooksInv'
<1>0. TypeOK'
  BY CoreStepType DEF BooksInv
<1>1. CASE Liquidate
  <2>1. UNCHANGED <<spot, perp, hedge, price, depositing, queue, corePrincipal6,
                    profitRealized, gains, losses>>
    BY <1>1 DEF Liquidate, books, market
  <2> QED
    BY <1>0, <2>1, QuietBooks
<1> QED
  BY <1>0, <1>1, DepositBooks, TakeUpBooks, RepriceBooks, FundingBooks DEF CoreStep

LEMMA BooksStart == Init => BooksInv
<1> SUFFICES ASSUME Init PROVE BooksInv
  OBVIOUS
<1>1. /\ spot = 0 /\ perp = 0 /\ depositing = 0 /\ corePrincipal6 = 0 /\ profitRealized = 0
      /\ gains = 0 /\ losses = 0 /\ queue = <<>>
  BY DEF Init
<1>2. PendingSends = 0
  BY <1>1, NothingPending
<1>3. HedgeWorth = 0
  <2> DEFINE f == [c \in Coins |-> hedge[c] * price[c]]
  <2>1. ASSUME NEW c \in Coins PROVE f[c] = 0
    <3>1. hedge[c] = 0 /\ price[c] \in Prices
      BY DEF Init
    <3>2. price[c] \in Int
      BY <3>1, DNAssumption
    <3> QED
      BY <3>1, <3>2
  <2>2. f \in [Coins -> Int]
    BY <2>1
  <2>3. HedgeWorth = SumFunction(f)
    BY DEF HedgeWorth
  <2> HIDE DEF f
  <2> QED
    BY <2>1, <2>2, <2>3, SumZero, DNAssumption
<1>4. OnCore = 0
  BY <1>1, <1>2, <1>3 DEF OnCore
<1>5. TypeOK
  BY InitType
<1> QED
  BY <1>1, <1>4, <1>5 DEF BooksInv, OneAction, Payment, Balance

LEMMA BooksHold == Spec => []BooksInv
<1>1. BooksInv /\ [Next]_vars => BooksInv'
  <2> SUFFICES ASSUME BooksInv, [Next]_vars PROVE BooksInv'
    OBVIOUS
  <2>1. TypeOK'
    <3>1. TypeOK
      BY DEF BooksInv
    <3>2. CASE UNCHANGED vars
      BY <3>1, <3>2 DEF TypeOK, vars, books, owned, core, market
    <3> QED
      BY <3>1, <3>2, VaultStepType, OwnerStepType, KeeperStepType, CoreStepType DEF Next
  <2>2. CASE ~Careful
    BY <2>1, <2>2 DEF BooksInv
  <2>3. CASE UNCHANGED vars
    <3>1. UNCHANGED <<spot, perp, hedge, price, depositing, queue, corePrincipal6,
                      profitRealized, gains, losses>>
      BY <2>3 DEF vars, books, core, market
    <3> QED
      BY <2>1, <3>1, QuietBooks
  <2>4. CASE Careful /\ Next
    BY <2>4, VaultStepBooks, OwnerStepBooks, KeeperStepBooks, CoreStepBooks DEF Next
  <2> QED
    BY <2>2, <2>3, <2>4, DNAssumption
<1> QED
  BY <1>1, BooksStart, PTL DEF Spec

\* The contract's books and HyperCore agree under a keeper with discipline:
\* what the account is worth, with what is on its way in and without what is
\* on its way out, is the principal and the profit not yet realized.
THEOREM BooksAgree == Spec => []BooksMatchCore
<1>1. BooksInv => BooksMatchCore
  BY DEF BooksInv, Balance, BooksMatchCore
<1> QED
  BY <1>1, BooksHold, PTL

\* Honest yield: bridgeBackToEvm realizes no profit the market has not given.
THEOREM RealizedWasEarned == Spec => []RealizedIsEarned
<1>1. BooksInv => RealizedIsEarned
  BY DEF BooksInv, RealizedIsEarned
<1> QED
  BY <1>1, BooksHold, PTL

-----------------------------------------------------------------------------
(* The keeper's script.                                                    *)

Memory == [principal : Nat, harvestable : Nat, equity : Int, lots : Nat, target : Nat,
           px : Nat, amount : Nat]

Fates == {"none", "sent", "hedged", "told", "failed", "refused"}

\* Where a run will send an order at the price it has read.
Priced == {"open", "move", "margin", "order", "reduce", "unwind"}

KeeperInv ==
    /\ KeeperTypeOK
    /\ pc \in Priced => work.px \in Prices

LEMMA PricesAreAmounts == \A p \in Prices : p \in Nat /\ p # 0
  BY DNAssumption

\* What every step of a run has to show.
LEMMA FailedType == ASSUME KeeperInv, Failed PROVE failures' \in 0..MaxFailures
  BY KeeperAssumption DEF KeeperInv, KeeperTypeOK, Failed

LEMMA ReadingType ==
    ASSUME KeeperInv, NEW misread, Reading(misread) PROVE failures' \in 0..MaxFailures
  BY FailedType DEF KeeperInv, KeeperTypeOK, Reading

LEMMA KnownType ==
    ASSUME KeeperInv, TypeOK', late' \in BOOLEAN, failures' \in 0..MaxFailures,
           fate' \in Fates, UNCHANGED work,
           pc' \in {"bridge", "harvest", "opened", "reduced", "closed", "sell", "sold"}
             \/ (pc' \in Priced /\ pc' # "open" /\ pc \in Priced)
    PROVE  KeeperInv'
  BY DEF KeeperInv, KeeperTypeOK, Fates, Priced

LEMMA GotoType ==
    ASSUME KeeperInv, TypeOK', late' \in BOOLEAN, NEW next, Goto(next),
           next \in {"bridge", "harvest", "reduced", "closed"}
             \/ (next \in {"order", "margin"} /\ pc \in Priced)
    PROVE  KeeperInv'
<1>1. /\ pc' = next /\ work' = work /\ fate' \in Fates /\ failures' \in 0..MaxFailures
  BY DEF Goto, KeeperInv, KeeperTypeOK, Fates
<1> QED
  BY <1>1, KnownType DEF Priced

LEMMA OverType ==
    ASSUME KeeperInv, TypeOK', late' \in BOOLEAN, failures' \in 0..MaxFailures,
           NEW ending \in Fates, Over(ending)
    PROVE  KeeperInv'
<1>1. pc' = "off" /\ fate' \in Fates /\ work' \in Memory
  BY DEF Over, NoWork, Memory
<1> QED
  BY <1>1 DEF KeeperInv, KeeperTypeOK, Fates, Memory, Priced

LEMMA ExitType == ASSUME KeeperInv, TypeOK', late' \in BOOLEAN, Exit PROVE KeeperInv'
<1>1. fate \in Fates /\ failures' \in 0..MaxFailures
  BY DEF Exit, KeeperInv, KeeperTypeOK, Fates
<1> QED
  BY <1>1, OverType DEF Exit

\* It goes on with another amount.
LEMMA AmountType ==
    ASSUME KeeperInv, TypeOK', late' \in BOOLEAN, failures' \in 0..MaxFailures,
           NEW n \in Nat, work' = [work EXCEPT !.amount = n], UNCHANGED fate,
           pc' = "bought" \/ (pc' = "move" /\ pc = "open")
    PROVE  KeeperInv'
<1>1. work' \in Memory /\ work'.px = work.px
  BY DEF KeeperInv, KeeperTypeOK, Memory
<1> QED
  BY <1>1 DEF KeeperInv, KeeperTypeOK, Memory, Priced

LEMMA StutterType == ASSUME TypeOK, UNCHANGED vars PROVE TypeOK'
  BY DEF TypeOK, vars, books, owned, core, market

LEMMA LotsType == TypeOK => Lots \in Nat /\ Hedge \in Nat /\ price[perpAsset] \in Prices
<1> SUFFICES ASSUME TypeOK PROVE Lots \in Nat /\ Hedge \in Nat /\ price[perpAsset] \in Prices
  OBVIOUS
<1>1. /\ short \in [Coins -> Nat] /\ hedge \in [Coins -> Nat] /\ price \in [Coins -> Prices]
      /\ perpAsset \in Coins /\ spotAsset \in Coins \cup {NoCoin}
  BY DEF TypeOK
<1> QED
  BY <1>1 DEF Lots, Hedge

LEMMA HarvestableType == TypeOK => Harvestable \in Nat
  BY DEF TypeOK, Harvestable

LEMMA ReadType == ASSUME KeeperInv, Read PROVE KeeperInv'
<1>1. TypeOK'
  BY StutterType DEF KeeperInv, KeeperTypeOK, Read
<1>2. work' \in Memory
  <2> DEFINE h == Harvestable
  <2>1. corePrincipal6 \in Nat /\ h \in Nat
    BY HarvestableType DEF KeeperInv, KeeperTypeOK, TypeOK
  <2>2. work' = [NoWork EXCEPT !.principal = corePrincipal6, !.harvestable = h]
    BY DEF Read
  <2> HIDE DEF h
  <2>3. work' = [principal |-> corePrincipal6, harvestable |-> h, equity |-> 0, lots |-> 0,
                 target |-> 0, px |-> 0, amount |-> 0]
    BY <2>2 DEF NoWork
  <2> QED
    BY <2>1, <2>3 DEF Memory
<1> QED
  BY <1>1, <1>2 DEF KeeperInv, KeeperTypeOK, Read, Memory, Priced

\* The two reads that may leave an older figure.
LEMMA FigureType ==
    ASSUME KeeperInv, TypeOK', UNCHANGED late, failures' \in 0..MaxFailures, UNCHANGED fate,
           pc' \in {"position", "decide"}, work' \in Memory
    PROVE  KeeperInv'
  BY DEF KeeperInv, KeeperTypeOK, Memory, Priced

LEMMA SyncType == ASSUME KeeperInv, Sync PROVE KeeperInv'
<1>1. TypeOK'
  BY StutterType DEF KeeperInv, KeeperTypeOK, Sync
<1>2. perp \in Int /\ Stale \subseteq Int /\ work \in Memory /\ failures \in 0..MaxFailures
  BY KeeperAssumption DEF KeeperInv, KeeperTypeOK, TypeOK, Memory
<1>3. \A e \in Int : [work EXCEPT !.equity = e] \in Memory
  BY <1>2 DEF Memory
<1>4. work' \in Memory /\ failures' \in 0..MaxFailures
  BY <1>2, <1>3, FailedType DEF Sync
<1> QED
  BY <1>1, <1>4, FigureType DEF Sync

LEMMA LocateType == ASSUME KeeperInv, Locate PROVE KeeperInv'
<1>1. TypeOK'
  BY StutterType DEF KeeperInv, KeeperTypeOK, Locate
<1>2. Lots \in Nat /\ Stale \subseteq Nat /\ work \in Memory /\ failures \in 0..MaxFailures
  BY LotsType, KeeperAssumption DEF KeeperInv, KeeperTypeOK, Memory
<1>3. \A n \in Nat : [work EXCEPT !.lots = n] \in Memory
  BY <1>2 DEF Memory
<1>4. work' \in Memory /\ failures' \in 0..MaxFailures
  BY <1>2, <1>3, FailedType DEF Locate
<1> QED
  BY <1>1, <1>4, FigureType DEF Locate

\* What a decision notes for the rest of the run.
LEMMA NotedType ==
    ASSUME KeeperInv, TypeOK', UNCHANGED late, NEW next \in {"skim", "open", "unwind", "reduce"},
           NEW e \in Int, NEW t \in Nat, NEW p \in Prices, NEW n \in Nat,
           pc' = next, UNCHANGED <<fate, failures>>,
           work' = [NoWork EXCEPT !.equity = e, !.target = t, !.px = p, !.amount = n]
    PROVE  KeeperInv'
<1>1. p \in Nat
  BY PricesAreAmounts
<1>2. work' \in Memory /\ work'.px \in Prices
  BY <1>1 DEF NoWork, Memory
<1> QED
  BY <1>2 DEF KeeperInv, KeeperTypeOK, Memory, Priced

LEMMA DecideType ==
    ASSUME KeeperInv, NEW apr, NEW target \in Targets, Decide(apr, target)
    PROVE  KeeperInv'
<1> DEFINE Act(next, amount) ==
             /\ pc' = next
             /\ work' = [NoWork EXCEPT !.equity = work.equity, !.target = target,
                                       !.px = price[perpAsset], !.amount = amount]
             /\ UNCHANGED <<fate, failures>>
           profit == work.equity - work.principal
           notional == work.lots * price[perpAsset]
           excess == (notional - target) \div price[perpAsset]
<1>1. TypeOK /\ TypeOK' /\ UNCHANGED late /\ late' \in BOOLEAN
  BY StutterType DEF KeeperInv, KeeperTypeOK, Decide
<1>2. /\ work.equity \in Int /\ target \in Nat /\ work.lots \in Nat
      /\ work.principal \in Nat /\ price[perpAsset] \in Prices
  BY <1>1, LotsType, KeeperAssumption DEF KeeperInv, KeeperTypeOK
<1>3. profit \in Int /\ notional \in Nat
  <2>1. price[perpAsset] \in Nat
    BY <1>2, PricesAreAmounts
  <2> QED
    BY <1>2, <2>1, ProductType
<1>4. notional > target => excess \in Nat
  <2> SUFFICES ASSUME notional > target PROVE excess \in Nat
    OBVIOUS
  <2>1. notional - target \in Nat /\ price[perpAsset] \in Nat \ {0}
    BY <1>2, <1>3, PricesAreAmounts
  <2> QED
    BY <2>1, FloorDivision
<1> HIDE DEF notional, profit, excess
<1>5. ASSUME NEW next \in {"skim", "open", "unwind", "reduce"}, NEW n \in Nat, Act(next, n)
      PROVE  KeeperInv'
  BY <1>1, <1>2, <1>5, NotedType
<1>6. \/ profit > 0 /\ Act("skim", profit)
      \/ Act("open", 0)
      \/ Act("unwind", work.lots)
      \/ notional > target /\ Act("reduce", excess)
      \/ Exit
  BY Zenon DEF Decide, OverSized, profit, notional, excess
<1> HIDE DEF Act
<1>7. profit > 0 => profit \in Nat
  BY <1>3
<1> QED
  BY <1>1, <1>2, <1>4, <1>5, <1>6, <1>7, ExitType

LEMMA HarvestType == ASSUME TypeOK, Harvest PROVE TypeOK'
<1>1. VaultStep
  BY DNAssumption DEF VaultStep, Uint
<1> QED
  BY <1>1, VaultStepType

LEMMA SkimType == ASSUME KeeperInv, late' \in BOOLEAN, Skim PROVE KeeperInv'
<1>1. TypeOK /\ work.amount \in Nat
  BY DEF KeeperInv, KeeperTypeOK
<1>2. CASE MoveUsdc("toSpot", work.amount) /\ Goto("bridge")
  BY <1>1, <1>2, MoveUsdcType, GotoType
<1>3. CASE BridgeBackToEvm(work.amount) /\ Goto("harvest")
  BY <1>1, <1>3, BridgeBackType, GotoType
<1>4. CASE Harvest /\ Exit
  BY <1>1, <1>4, HarvestType, ExitType
<1> QED
  BY <1>2, <1>3, <1>4 DEF Skim

LEMMA NeedType == KeeperTypeOK => Need \in Nat
<1> SUFFICES ASSUME KeeperTypeOK PROVE Need \in Nat
  OBVIOUS
<1>1. work.target \in Nat /\ MarginBps \in Nat /\ BPS \in Nat \ {0}
  BY DNAssumption, KeeperAssumption DEF KeeperTypeOK
<1>2. work.target * MarginBps \in Nat
  BY <1>1, ProductType
<1> QED
  BY <1>1, <1>2, FloorDivision DEF Need

LEMMA TopUpType == ASSUME KeeperInv, late' \in BOOLEAN, TopUp PROVE KeeperInv'
<1> DEFINE bridgeable == IF Need < idle THEN Need ELSE idle
<1>1. /\ TypeOK /\ work.amount \in Nat /\ bridgeable \in Nat
      /\ UNCHANGED failures => failures' \in 0..MaxFailures
  BY NeedType DEF KeeperInv, KeeperTypeOK, TypeOK
<1> HIDE DEF bridgeable
<1>2. CASE pc \in {"open", "margin"} /\ Goto("order") /\ UNCHANGED vars
  BY <1>1, <1>2, StutterType, GotoType DEF Priced
<1>3. CASE Exit /\ UNCHANGED vars
  BY <1>1, <1>3, StutterType, ExitType
<1>4. CASE /\ pc = "open" /\ BridgeUsdcToCore(bridgeable)
           /\ pc' = "move" /\ work' = [work EXCEPT !.amount = bridgeable]
           /\ UNCHANGED <<fate, failures>>
  BY <1>1, <1>4, BridgeToCoreType, AmountType
<1>5. CASE pc = "move" /\ MoveUsdc("toPerp", work.amount) /\ Goto("margin")
  BY <1>1, <1>5, MoveUsdcType, GotoType DEF Priced
<1> QED
  BY <1>2, <1>3, <1>4, <1>5 DEF TopUp, Bridgeable, bridgeable

LEMMA OpenType == ASSUME KeeperInv, late' \in BOOLEAN, Open PROVE KeeperInv'
<1>1. TypeOK /\ failures' \in 0..MaxFailures /\ work.px \in Prices /\ work.target \in Nat
  BY DEF KeeperInv, KeeperTypeOK, Open, Priced
<1>2. work.target \div work.px \in Nat
  BY <1>1, PricesAreAmounts, FloorDivision
<1>3. TypeOK'
  BY <1>1, <1>2, OrderType DEF Open, OpenShort
<1> QED
  BY <1>1, <1>3, KnownType DEF Open, Fates

\* What a read of the spot side gives, also when it fails.
LEMMA SpotReadType ==
    ASSUME TypeOK, NEW misread
    PROVE  /\ HeldRead(misread) \in Nat /\ Gap(HeldRead(misread)) \in Nat
           /\ PriceRead(misread) = 0 \/ PriceRead(misread) \in Prices
           /\ PriceRead(misread) \in Nat
<1>1. Lots \in Nat /\ Hedge \in Nat
  BY LotsType
<1>2. HeldRead(misread) \in Nat
  BY <1>1 DEF HeldRead
<1>3. Gap(HeldRead(misread)) \in Nat
  BY <1>1, <1>2 DEF Gap
<1>4. PriceRead(misread) = 0 \/ PriceRead(misread) \in Prices
  BY DEF PriceRead, TypeOK
<1> QED
  BY <1>2, <1>3, <1>4, PricesAreAmounts

\* An order on the spot side is at a price, not at the zero of a failed read.
LEMMA SpotOrderType ==
    ASSUME TypeOK, NEW kind \in {"buy", "sell"}, NEW px \in Nat, NEW size \in Nat,
           px = 0 \/ px \in Prices, Order(kind, spotAsset, px, size)
    PROVE  TypeOK'
<1>1. px * size >= MinOrder /\ MinOrder \in Nat /\ MinOrder # 0
  BY DNAssumption, KeeperAssumption DEF Order, CanOrder
<1>2. px # 0
  BY <1>1
<1> QED
  BY <1>2, OrderType

LEMMA CheckHedgeType ==
    ASSUME KeeperInv, late' \in BOOLEAN, NEW misread, CheckHedge(misread) PROVE KeeperInv'
<1> DEFINE gap == Gap(HeldRead(misread))
           px == PriceRead(misread)
<1>1. /\ TypeOK /\ Lots \in Nat /\ gap \in Nat /\ px \in Nat /\ (px = 0 \/ px \in Prices)
      /\ failures' \in 0..MaxFailures
  BY LotsType, SpotReadType, ReadingType DEF KeeperInv, KeeperTypeOK, CheckHedge
<1> HIDE DEF gap, px
<1>2. ASSUME NEW ending \in Fates, Over(ending), UNCHANGED vars PROVE KeeperInv'
  BY <1>1, <1>2, StutterType, OverType
<1>3. ASSUME OpenSpotBuy(px, gap), pc' = "bought", work' = [work EXCEPT !.amount = Lots],
             UNCHANGED fate
      PROVE  KeeperInv'
  <2>1. TypeOK'
    BY <1>1, <1>3, SpotOrderType DEF OpenSpotBuy
  <2> DEFINE n == Lots
  <2>2. n \in Nat /\ work' = [work EXCEPT !.amount = n]
    BY <1>1, <1>3
  <2> HIDE DEF n
  <2> QED
    BY <1>1, <1>3, <2>1, <2>2, AmountType
<1>4. {"told", "failed", "hedged", "refused"} \subseteq Fates
  BY DEF Fates
<1>5. \/ \E ending \in {"told", "failed", "hedged", "refused"} : Over(ending) /\ UNCHANGED vars
      \/ /\ OpenSpotBuy(px, gap) /\ pc' = "bought"
         /\ work' = [work EXCEPT !.amount = Lots] /\ UNCHANGED fate
  BY Zenon DEF CheckHedge, gap, px
<1> QED
  BY <1>2, <1>3, <1>4, <1>5

LEMMA CheckPurchaseType ==
    ASSUME KeeperInv, late' \in BOOLEAN, NEW misread, CheckPurchase(misread) PROVE KeeperInv'
<1>1. TypeOK' /\ failures' \in 0..MaxFailures
  BY StutterType, ReadingType DEF KeeperInv, KeeperTypeOK, CheckPurchase
<1>2. \E ending \in Fates : Over(ending)
  BY Zenon DEF CheckPurchase, Fates
<1> QED
  BY <1>1, <1>2, OverType

LEMMA ReduceType == ASSUME KeeperInv, late' \in BOOLEAN, Reduce PROVE KeeperInv'
<1>1. TypeOK /\ work.amount \in Nat
  BY DEF KeeperInv, KeeperTypeOK
<1>2. ASSUME pc = "reduce", CloseShort(work.px, work.amount), Goto("reduced")
      PROVE  KeeperInv'
  <2>1. work.px \in Prices
    BY <1>2 DEF KeeperInv, Priced
  <2> QED
    BY <1>1, <1>2, <2>1, OrderType, GotoType DEF CloseShort
<1>3. CASE Exit /\ UNCHANGED vars
  BY <1>1, <1>3, StutterType, ExitType
<1> QED
  BY <1>2, <1>3 DEF Reduce

LEMMA UnwindType == ASSUME KeeperInv, late' \in BOOLEAN, Unwind PROVE KeeperInv'
<1>1. /\ TypeOK /\ work.amount \in Nat /\ fate \in Fates /\ Dollar \in Nat
      /\ UNCHANGED failures => failures' \in 0..MaxFailures
  BY KeeperAssumption DEF KeeperInv, KeeperTypeOK, Fates
<1>2. ASSUME pc = "unwind", CloseShort(work.px, work.amount), Goto("closed")
      PROVE  KeeperInv'
  <2>1. work.px \in Prices
    BY <1>2 DEF KeeperInv, Priced
  <2> QED
    BY <1>1, <1>2, <2>1, OrderType, GotoType DEF CloseShort
<1>3. CASE Exit /\ UNCHANGED vars
  BY <1>1, <1>3, StutterType, ExitType
<1>4. ASSUME pc' = "sell", UNCHANGED <<work, fate>>, UNCHANGED failures \/ Failed,
             UNCHANGED vars \/ (perp >= Dollar /\ MoveUsdc("toSpot", perp))
      PROVE  KeeperInv'
  <2>1. perp >= Dollar => perp \in Nat
    BY <1>1 DEF TypeOK
  <2>2. TypeOK' /\ failures' \in 0..MaxFailures
    BY <1>1, <1>4, <2>1, StutterType, MoveUsdcType, FailedType
  <2> QED
    BY <1>1, <1>4, <2>2, KnownType
<1> QED
  BY <1>2, <1>3, <1>4 DEF Unwind

LEMMA ReturnHedgeType ==
    ASSUME KeeperInv, late' \in BOOLEAN, NEW misread, ReturnHedge(misread) PROVE KeeperInv'
<1> DEFINE held == HeldRead(misread)
           px == PriceRead(misread)
<1>1. /\ TypeOK /\ held \in Nat /\ px \in Nat /\ (px = 0 \/ px \in Prices)
      /\ failures' \in 0..MaxFailures /\ fate \in Fates
  BY SpotReadType, ReadingType DEF KeeperInv, KeeperTypeOK, ReturnHedge, Fates
<1> HIDE DEF held, px
<1>2. CASE Over(fate) /\ UNCHANGED vars
  BY <1>1, <1>2, StutterType, OverType
<1>3. ASSUME SellSpot(px, held) \/ HedgeTransferOut(held), pc' = "sold", UNCHANGED <<work, fate>>
      PROVE  KeeperInv'
  <2>1. TypeOK'
    BY <1>1, <1>3, SpotOrderType, HedgeTransferType DEF SellSpot
  <2> QED
    BY <1>1, <1>3, <2>1, KnownType
<1> QED
  BY <1>2, <1>3 DEF ReturnHedge, held, px

\* Coins sent in from outside are lots like any other.
LEMMA FundSpotType == ASSUME TypeOK, NEW c \in Coins, FundSpot(c) PROVE TypeOK'
<1>1. hedge' \in [Coins -> Nat]
  BY DEF FundSpot, TypeOK
<1> QED
  BY <1>1 DEF FundSpot, TypeOK, books, owned, market

LEMMA OperatorStepType == ASSUME TypeOK, OperatorStep PROVE TypeOK'
<1>1. Uint \subseteq Nat
  BY DNAssumption DEF Uint
<1>2. CASE OwnerStep
  BY <1>2, OwnerStepType
<1> QED
  BY <1>1, <1>2, BridgeToCoreType, FundSpotType DEF OperatorStep, OwnerStep

LEMMA FailType == ASSUME KeeperInv, Fail PROVE KeeperInv'
<1>1. TypeOK' /\ late' \in BOOLEAN /\ failures' \in 0..MaxFailures
  BY StutterType, FailedType DEF KeeperInv, KeeperTypeOK, Fail
<1>2. \E ending \in Fates : Over(ending)
  BY DEF Fail, Cut, KeeperInv, KeeperTypeOK, Fates
<1> QED
  BY <1>1, <1>2, OverType

LEMMA WorkType == ASSUME KeeperInv, Work PROVE KeeperInv'
<1>1. late' \in BOOLEAN /\ TypeOK
  BY DEF Work, KeeperInv, KeeperTypeOK
<1>2. CASE Reverted
  BY <1>1, <1>2, StutterType, ExitType DEF Reverted
<1>3. ASSUME NEW misread, CheckHedge(misread) \/ CheckPurchase(misread) \/ ReturnHedge(misread)
      PROVE  KeeperInv'
  BY <1>1, <1>3, CheckHedgeType, CheckPurchaseType, ReturnHedgeType
<1> QED
  BY <1>1, <1>2, <1>3, SkimType, TopUpType, OpenType, ReduceType, UnwindType DEF Work

LEMMA KeeperInvStep == KeeperInv /\ [KeeperNext]_system => KeeperInv'
<1> SUFFICES ASSUME KeeperInv, [KeeperNext]_system PROVE KeeperInv'
  OBVIOUS
<1>1. TypeOK
  BY DEF KeeperInv, KeeperTypeOK
<1>2. ASSUME TypeOK', UNCHANGED script PROVE KeeperInv'
  BY <1>2 DEF KeeperInv, KeeperTypeOK, script
<1>3. CASE (VaultStep \/ CoreStep \/ OperatorStep) /\ UNCHANGED script
  BY <1>1, <1>2, <1>3, VaultStepType, CoreStepType, OperatorStepType
<1>4. CASE UNCHANGED system
  BY <1>1, <1>2, <1>4, StutterType DEF system
<1> QED
  BY <1>3, <1>4, WorkType, ReadType, SyncType, LocateType, DecideType, FailType DEF KeeperNext

LEMMA KeeperInvStart == KeeperInit => KeeperInv
<1> SUFFICES ASSUME KeeperInit PROVE KeeperInv
  OBVIOUS
<1>1. TypeOK /\ pc = "off" /\ fate = "none" /\ late = FALSE /\ failures \in 0..MaxFailures
  BY InitType, KeeperAssumption DEF KeeperInit
<1>2. work \in Memory
  BY DEF KeeperInit, NoWork, Memory
<1> QED
  BY <1>1, <1>2 DEF KeeperInv, KeeperTypeOK, Memory, Priced

LEMMA KeeperInvHolds == KeeperSpec => []KeeperInv
  BY KeeperInvStart, KeeperInvStep, PTL DEF KeeperSpec

\* Type correctness of the keeper's script over the sleeve: the amounts it
\* computes from what it read, ever so stale, are amounts.
THEOREM KeeperTypes == KeeperSpec => []KeeperTypeOK
<1>1. KeeperInv => KeeperTypeOK
  BY DEF KeeperInv
<1> QED
  BY <1>1, KeeperInvHolds, PTL

(* The hedge and the alert.  The script decides from what it reads eight   *)
(* seconds after it sent, so both hang on what is still open when it acts: *)
(* while it is not late, at most one action is, an opening order only      *)
(* before the script has looked (or when it never will, the run having     *)
(* failed), and a sale only when the short is gone.  And the short must be *)
(* of the coin the script looks at: with a second coin, an owner who       *)
(* changes the assets while an order is open can leave a short of a coin   *)
(* the script no longer reads.                                             *)
OneCoin == \A c, d \in Coins : c = d

\* The kind of the action HyperCore takes up next.
Waiting(kinds) == queue # <<>> /\ Head(queue).kind \in kinds

\* The short is hedged, or what is missing is accounted for.
Attended ==
    \/ Lots <= hedge[perpAsset]
    \/ fate \in {"told", "failed", "refused"}
    \/ \E p \in Prices : (Lots - hedge[perpAsset]) * p <= Dollar

Calm ==
    /\ OneAction
    /\ Waiting({"short"}) => pc = "opened" \/ (fate = "failed" /\ pc \notin {"bought", "sell"})
    /\ Waiting({"sell", "send"}) \/ pc = "sell" => Lots = 0
    /\ pc = "bought" => Lots <= work.amount
    /\ pc \notin {"opened", "bought"} => Attended

HedgeInv ==
    /\ KeeperInv
    /\ pc \in {"opened", "bought"} => fate = "sent"
    /\ ~late => Calm

\* The script's own state stays, and the position shrinks or its hedge grows.
LEMMA WorldCalm ==
    ASSUME KeeperInv, KeeperInv', Calm, UNCHANGED <<script, perpAsset>>,
           queue' \in {<<>>, queue}, Lots' <= Lots,
           Lots' = 0 \/ hedge'[perpAsset] >= hedge[perpAsset]
    PROVE  Calm'
<1>1. /\ Lots \in Nat /\ Lots' \in Nat
      /\ hedge[perpAsset] \in Nat /\ hedge'[perpAsset] \in Nat
      /\ pc' = pc /\ work' = work /\ fate' = fate /\ perpAsset' = perpAsset
      /\ work.amount \in Nat
  BY DEF KeeperInv, KeeperTypeOK, TypeOK, script, Lots
<1>2. queue' # <<>> => queue' = queue
  OBVIOUS
<1>3. OneAction'
  <2>1. Len(queue) <= 1
    BY DEF Calm, OneAction
  <2>2. Len(queue') <= 1
    BY <2>1
  <2> QED
    BY <2>2 DEF OneAction
<1>4. \A kinds : (Waiting(kinds))' => Waiting(kinds)
  BY <1>2 DEF Waiting
<1>5. Lots = 0 => Lots' = 0
  BY <1>1
<1>6. pc = "bought" => Lots' <= work.amount
  BY <1>1 DEF Calm
<1>7. Attended => Attended'
  <2>1. CASE Lots' = 0
    BY <1>1, <2>1 DEF Attended
  <2>2. ASSUME hedge'[perpAsset] >= hedge[perpAsset], NEW p \in Prices,
               (Lots - hedge[perpAsset]) * p <= Dollar
        PROVE  (Lots' - hedge'[perpAsset]) * p <= Dollar
    <3> DEFINE d == Lots - hedge[perpAsset]
               e == Lots' - hedge'[perpAsset]
    <3>1. d \in Int /\ e \in Int /\ e <= d /\ p \in Nat /\ Dollar \in Nat /\ d * p <= Dollar
      BY <1>1, <2>2, PricesAreAmounts, KeeperAssumption
    <3> HIDE DEF d, e
    <3>2. CASE e <= 0
      <4>1. e * p <= 0
        BY <3>1, <3>2
      <4>2. e * p \in Int
        BY <3>1
      <4>3. e * p <= Dollar
        BY <3>1, <4>1, <4>2
      <4> QED
        BY <4>3 DEF e
    <3>3. CASE e > 0
      <4>1. d \in Nat /\ e \in Nat
        BY <3>1, <3>3
      <4>2. e * p <= d * p
        BY <3>1, <4>1, ProductMonotone
      <4>3. e * p \in Nat /\ d * p \in Nat
        BY <3>1, <4>1, ProductType
      <4>4. e * p <= Dollar
        BY <3>1, <4>2, <4>3
      <4> QED
        BY <4>4 DEF e
    <3> QED
      BY <3>1, <3>2, <3>3
  <2>3. CASE hedge'[perpAsset] >= hedge[perpAsset]
    <3>1. Lots <= hedge[perpAsset] => Lots' <= hedge'[perpAsset]
      BY <1>1, <2>3
    <3> QED
      BY <1>1, <2>2, <2>3, <3>1 DEF Attended
  <2> QED
    BY <2>1, <2>3
<1> QED
  BY <1>1, <1>3, <1>4, <1>5, <1>6, <1>7 DEF Calm

\* What HyperCore does to the lots when it takes up the one open action.
LEMMA TakeUpLots ==
    ASSUME TypeOK, OneAction, TakeUp
    PROVE  \E a \in Actions : \E n \in Nat :
              /\ queue = <<a>> /\ Head(queue) = a /\ queue' = <<>> /\ Possible(a, n)
              /\ n <= a.amount /\ a.amount \in Nat
              /\ a.kind \in {"short", "close", "buy", "sell", "send"} => a.coin \in Coins
              /\ short' = CASE a.kind = "short" -> Moved(short, a, n)
                            [] a.kind = "close" -> Moved(short, a, -n)
                            [] OTHER -> short
              /\ hedge' = CASE a.kind = "buy" -> Moved(hedge, a, n)
                            [] a.kind \in {"sell", "send"} -> Moved(hedge, a, -n)
                            [] OTHER -> hedge
<1> DEFINE a == Head(queue)
<1>1. queue \in Seq(Actions) /\ queue # <<>> /\ Len(queue) <= 1 /\ queue' = Tail(queue)
  BY DEF TypeOK, OneAction, TakeUp
<1>2. queue = <<a>> /\ a \in Actions /\ queue' = <<>>
  BY <1>1, SoleElement
<1>3. PICK n \in Taken(a) :
         /\ short' = CASE a.kind = "short" -> Moved(short, a, n)
                       [] a.kind = "close" -> Moved(short, a, -n)
                       [] OTHER -> short
         /\ hedge' = CASE a.kind = "buy" -> Moved(hedge, a, n)
                       [] a.kind \in {"sell", "send"} -> Moved(hedge, a, -n)
                       [] OTHER -> hedge
  BY Zenon DEF TakeUp
<1>4. n \in Nat /\ Possible(a, n) /\ n <= a.amount /\ a.amount \in Nat
  BY <1>2, <1>3 DEF Taken, Actions
<1>5. a.kind \in {"short", "close", "buy", "sell", "send"} => a.coin \in Coins
  BY <1>2 DEF Actions
<1>6. Head(queue) = a
  OBVIOUS
<1> HIDE DEF a
<1> QED
  BY <1>2, <1>3, <1>4, <1>5, <1>6, Zenon

LEMMA TakeUpCalm ==
    ASSUME OneCoin, HedgeInv, KeeperInv', ~late, TakeUp, UNCHANGED script PROVE Calm'
<1>0. /\ KeeperInv /\ TypeOK /\ Calm /\ OneAction /\ UNCHANGED perpAsset
      /\ pc' = pc /\ work' = work /\ fate' = fate
      /\ Lots \in Nat /\ short \in [Coins -> Nat] /\ hedge \in [Coins -> Nat]
      /\ perpAsset \in Coins
  BY LotsType DEF HedgeInv, Calm, KeeperInv, KeeperTypeOK, TakeUp, owned, script, TypeOK
<1>1. PICK a \in Actions, n \in Nat :
         /\ queue = <<a>> /\ Head(queue) = a /\ queue' = <<>> /\ Possible(a, n)
         /\ n <= a.amount /\ a.amount \in Nat
         /\ a.kind \in {"short", "close", "buy", "sell", "send"} => a.coin \in Coins
         /\ short' = CASE a.kind = "short" -> Moved(short, a, n)
                       [] a.kind = "close" -> Moved(short, a, -n)
                       [] OTHER -> short
         /\ hedge' = CASE a.kind = "buy" -> Moved(hedge, a, n)
                       [] a.kind \in {"sell", "send"} -> Moved(hedge, a, -n)
                       [] OTHER -> hedge
  BY <1>0, TakeUpLots
<1>2. queue # <<>> /\ queue' = <<>> /\ Len(queue') <= 1
  BY <1>1
<1>3. a.kind \in {"short", "close", "buy", "sell", "send"} => a.coin = perpAsset
  BY <1>0, <1>1 DEF OneCoin
<1>4. CASE a.kind = "short"
  <2>1. Waiting({"short"})
    BY <1>1, <1>2, <1>4 DEF Waiting
  <2>2. pc = "opened" \/ (fate = "failed" /\ pc \notin {"bought", "sell"})
    BY <1>0, <2>1 DEF Calm
  <2>3. ~Waiting({"short"})' /\ ~Waiting({"sell", "send"})' /\ OneAction'
    BY <1>2 DEF Waiting, OneAction
  <2>4. pc # "opened" => Attended'
    BY <1>0, <2>2 DEF Attended
  <2> QED
    BY <1>0, <2>2, <2>3, <2>4 DEF Calm
<1>5. CASE a.kind = "close"
  <2>1. short' = [short EXCEPT ![perpAsset] = @ + (-n)] /\ hedge' = hedge
    BY <1>1, <1>3, <1>5 DEF Moved
  <2>2. Lots' = Lots - n
    BY <1>0, <2>1 DEF Lots
  <2>3. Lots' <= Lots /\ hedge'[perpAsset] >= hedge[perpAsset]
    BY <1>0, <1>1, <2>1, <2>2
  <2> QED
    BY <1>0, <1>2, <2>3, WorldCalm
<1>6. ASSUME short' = short, Lots = 0 \/ hedge'[perpAsset] >= hedge[perpAsset] PROVE Calm'
  <2>1. Lots' = Lots /\ Lots' <= Lots
    BY <1>0, <1>6 DEF Lots
  <2> QED
    BY <1>0, <1>2, <1>6, <2>1, WorldCalm
<1>7. CASE a.kind = "buy"
  <2>1. short' = short /\ hedge' = [hedge EXCEPT ![perpAsset] = @ + n]
    BY <1>1, <1>3, <1>7 DEF Moved
  <2>2. hedge'[perpAsset] = hedge[perpAsset] + n
    BY <1>0, <2>1
  <2>3. hedge'[perpAsset] >= hedge[perpAsset]
    BY <1>0, <2>2
  <2> QED
    BY <1>6, <2>1, <2>3
<1>8. CASE a.kind \in {"sell", "send"}
  <2>1. Waiting({"sell", "send"}) /\ short' = short
    BY <1>1, <1>2, <1>8 DEF Waiting
  <2>2. Lots = 0
    BY <1>0, <2>1 DEF Calm
  <2> QED
    BY <1>6, <2>1, <2>2
<1>9. CASE a.kind \notin {"short", "close", "buy", "sell", "send"}
  <2>1. short' = short /\ hedge' = hedge
    BY <1>1, <1>9
  <2>2. hedge'[perpAsset] >= hedge[perpAsset]
    BY <1>0, <2>1
  <2> QED
    BY <1>6, <2>1, <2>2
<1> QED
  BY <1>4, <1>5, <1>7, <1>8, <1>9

\* Whatever else goes on around the script.
LEMMA OutsideCalm ==
    ASSUME OneCoin, HedgeInv, KeeperInv', ~late, VaultStep \/ CoreStep \/ OperatorStep,
           UNCHANGED script
    PROVE  Calm'
<1>0. /\ KeeperInv /\ TypeOK /\ TypeOK' /\ Calm /\ Lots \in Nat /\ perpAsset \in Coins
      /\ hedge \in [Coins -> Nat]
  BY LotsType DEF HedgeInv, KeeperInv, KeeperTypeOK, TypeOK
<1>1. perpAsset' = perpAsset
  BY <1>0 DEF TypeOK, OneCoin
<1>2. CASE TakeUp
  BY <1>2, TakeUpCalm
<1>3. CASE Liquidate
  <2>1. queue' = queue /\ hedge' = hedge /\ short' = [c \in Coins |-> 0]
    BY <1>3 DEF Liquidate
  <2>2. Lots' = 0 /\ Lots' <= Lots
    BY <1>0, <1>1, <2>1 DEF Lots
  <2> QED
    BY <1>0, <1>1, <2>1, <2>2, WorldCalm
<1>4. ASSUME UNCHANGED <<queue, short>>, hedge'[perpAsset] >= hedge[perpAsset] PROVE Calm'
  <2>1. Lots' = Lots /\ Lots' <= Lots
    BY <1>0, <1>1, <1>4 DEF Lots
  <2> QED
    BY <1>0, <1>1, <1>4, <2>1, WorldCalm
<1>5. CASE UNCHANGED <<queue, short, hedge>>
  <2>1. hedge'[perpAsset] >= hedge[perpAsset]
    BY <1>0, <1>5
  <2> QED
    BY <1>4, <1>5, <2>1
<1>6. CASE \E c \in Coins : FundSpot(c)
  <2>1. PICK c \in Coins : FundSpot(c)
    BY <1>6
  <2>2. UNCHANGED <<queue, short>> /\ hedge' = [hedge EXCEPT ![c] = @ + 1]
    BY <2>1 DEF FundSpot
  <2>3. hedge'[perpAsset] = hedge[perpAsset] \/ hedge'[perpAsset] = hedge[perpAsset] + 1
    BY <1>0, <2>2
  <2>4. hedge'[perpAsset] >= hedge[perpAsset]
    BY <1>0, <2>3
  <2> QED
    BY <1>4, <2>2, <2>4
<1> QED
  BY <1>2, <1>3, <1>5, <1>6
  DEF VaultStep, Allocated, Recall, Harvest, CoreStep, DepositLands, Reprice, Funding,
      OperatorStep, SetPerpAsset, SetSpotConfig, SetBufferBps, SetSwitches, BridgeUsdcToCore, core

\* The run has nothing open, and what it does now opens no short.
LEMMA RunGoesOn ==
    ASSUME Calm, queue = <<>>, UNCHANGED <<short, hedge, perpAsset>>, Attended',
           \/ queue' = <<>>
           \/ \E a : queue' = <<a>> /\ a.kind # "short" /\ (a.kind \in {"sell", "send"} => Lots = 0),
           pc' # "bought", pc' = "sell" => Lots = 0
    PROVE  Calm'
<1>1. Lots' = Lots
  BY DEF Lots
<1>2. Len(queue') <= 1
  <2>1. CASE queue' = <<>>
    BY <2>1
  <2>2. ASSUME NEW a, queue' = <<a>> PROVE Len(queue') <= 1
    BY <2>2
  <2> QED
    BY <2>1, <2>2
<1>3. ~Waiting({"short"})' /\ (Waiting({"sell", "send"})' => Lots = 0)
  BY DEF Waiting
<1> QED
  BY <1>1, <1>2, <1>3 DEF Calm, OneAction

\* The same, in a run that leaves the order's fate as it is.
LEMMA StepCalm ==
    ASSUME Calm, queue = <<>>, UNCHANGED <<short, hedge, perpAsset, fate>>,
           pc \notin {"opened", "bought"},
           \/ queue' = <<>>
           \/ \E a : queue' = <<a>> /\ a.kind # "short" /\ (a.kind \in {"sell", "send"} => Lots = 0),
           pc' # "bought", pc' = "sell" => Lots = 0
    PROVE  Calm'
<1>1. Attended'
  BY DEF Calm, Attended, Lots
<1> QED
  BY <1>1, RunGoesOn

\* What a run has sent when nothing was open.
LEMMA SentAlone ==
    ASSUME queue = <<>>, NEW a, Send(a)
    PROVE  queue' = <<a>> /\ queue' # <<>> /\ Len(queue') <= 1 /\ Head(queue') = a
<1>1. queue' = <<a>>
  BY DEF Send
<1> QED
  BY <1>1

\* The sending steps of a run, with nothing open.
LEMMA MoveCalm ==
    ASSUME Calm, queue = <<>>, NEW kind, NEW amount, MoveUsdc(kind, amount), UNCHANGED fate,
           kind \in {"toPerp", "toSpot"}, pc \notin {"opened", "bought"}, pc' # "bought",
           pc' = "sell" => Lots = 0
    PROVE  Calm'
<1> DEFINE a == [kind |-> kind, amount |-> amount]
<1>1. a.kind = kind /\ Send(a) /\ UNCHANGED <<short, hedge, perpAsset>>
  BY DEF MoveUsdc, core, owned
<1> HIDE DEF a
<1> QED
  BY <1>1, SentAlone, StepCalm

LEMMA OrderCalm ==
    ASSUME Calm, queue = <<>>, NEW kind, NEW coin, NEW limit, NEW size,
           Order(kind, coin, limit, size), UNCHANGED fate, kind # "short",
           kind \in {"sell", "send"} => Lots = 0,
           pc \notin {"opened", "bought"}, pc' \notin {"bought", "sell"}
    PROVE  Calm'
<1> DEFINE a == [kind |-> kind, amount |-> size, coin |-> coin, limit |-> limit]
<1>1. a.kind = kind /\ Send(a) /\ UNCHANGED <<short, hedge, perpAsset>>
  BY DEF Order, core, owned
<1> HIDE DEF a
<1> QED
  BY <1>1, SentAlone, StepCalm

LEMMA QuietCalm ==
    ASSUME Calm, queue = <<>>, UNCHANGED fate, pc \notin {"opened", "bought"},
           UNCHANGED vars \/ Harvest \/ (\E n : BridgeUsdcToCore(n)),
           pc' # "bought", pc' = "sell" => Lots = 0
    PROVE  Calm'
<1>1. UNCHANGED <<queue, short, hedge, perpAsset>>
  BY DEF vars, core, owned, Harvest, BridgeUsdcToCore
<1> QED
  BY <1>1, StepCalm

LEMMA SkimCalm == ASSUME Calm, queue = <<>>, Skim PROVE Calm'
<1>1. CASE pc = "skim" /\ MoveUsdc("toSpot", work.amount) /\ Goto("bridge")
  BY <1>1, MoveCalm DEF Goto
<1>2. CASE pc = "bridge" /\ BridgeBackToEvm(work.amount) /\ Goto("harvest")
  <2> DEFINE a == [kind |-> "toEvm", amount |-> work.amount]
  <2>1. a.kind = "toEvm" /\ Send(a) /\ UNCHANGED <<short, hedge, perpAsset>>
    BY <1>2 DEF BridgeBackToEvm, core, owned
  <2> HIDE DEF a
  <2> QED
    BY <1>2, <2>1, SentAlone, StepCalm DEF Goto
<1>3. CASE pc = "harvest" /\ Harvest /\ Exit
  BY <1>3, QuietCalm DEF Exit, Over
<1> QED
  BY <1>1, <1>2, <1>3 DEF Skim

LEMMA TopUpCalm == ASSUME Calm, queue = <<>>, TopUp PROVE Calm'
<1>1. CASE pc \in {"open", "margin"} /\ (Goto("order") \/ Exit) /\ UNCHANGED vars
  BY <1>1, QuietCalm DEF Goto, Exit, Over
<1>2. CASE /\ pc = "open" /\ BridgeUsdcToCore(Bridgeable)
           /\ pc' = "move" /\ UNCHANGED <<fate, failures>>
  BY <1>2, QuietCalm
<1>3. CASE pc = "move" /\ MoveUsdc("toPerp", work.amount) /\ Goto("margin")
  BY <1>3, MoveCalm DEF Goto
<1> QED
  BY <1>1, <1>2, <1>3 DEF TopUp

LEMMA ReduceCalm == ASSUME Calm, queue = <<>>, Reduce PROVE Calm'
<1>1. CASE pc = "reduce" /\ CloseShort(work.px, work.amount) /\ Goto("reduced")
  BY <1>1, OrderCalm DEF CloseShort, Goto
<1>2. CASE pc = "reduced" /\ Exit /\ UNCHANGED vars
  BY <1>2, QuietCalm DEF Exit, Over
<1> QED
  BY <1>1, <1>2 DEF Reduce

LEMMA UnwindCalm == ASSUME Calm, queue = <<>>, Unwind PROVE Calm'
<1>1. CASE pc = "unwind" /\ CloseShort(work.px, work.amount) /\ Goto("closed")
  BY <1>1, OrderCalm DEF CloseShort, Goto
<1>2. CASE pc \in {"closed", "sold"} /\ Exit /\ UNCHANGED vars
  BY <1>2, QuietCalm DEF Exit, Over
<1>3. CASE /\ pc = "closed" /\ Flattened /\ pc' = "sell" /\ UNCHANGED fate
           /\ UNCHANGED vars \/ MoveUsdc("toSpot", perp)
  BY <1>3, QuietCalm, MoveCalm DEF Flattened
<1> QED
  BY <1>1, <1>2, <1>3 DEF Unwind

LEMMA ReturnHedgeCalm ==
    ASSUME Calm, queue = <<>>, NEW misread, ReturnHedge(misread) PROVE Calm'
<1> DEFINE held == HeldRead(misread)
           px == PriceRead(misread)
<1> HIDE DEF held, px
<1>1. pc = "sell" /\ Lots = 0
  BY DEF ReturnHedge, Calm
<1>2. CASE Over(fate) /\ UNCHANGED vars
  BY <1>1, <1>2, QuietCalm DEF Over
<1>3. CASE SellSpot(px, held) /\ pc' = "sold" /\ UNCHANGED fate
  BY <1>1, <1>3, OrderCalm DEF SellSpot
<1>4. CASE HedgeTransferOut(held) /\ pc' = "sold" /\ UNCHANGED fate
  <2> DEFINE a == [kind |-> "send", amount |-> held, coin |-> spotAsset]
  <2>1. a.kind = "send" /\ Send(a) /\ UNCHANGED <<short, hedge, perpAsset>>
    BY <1>4 DEF HedgeTransferOut, core, owned
  <2> HIDE DEF a
  <2> QED
    BY <1>1, <1>4, <2>1, SentAlone, StepCalm
<1> QED
  BY <1>2, <1>3, <1>4 DEF ReturnHedge, held, px

\* The opening order is sent by the run that will look at the hedge.
LEMMA OpenCalm == ASSUME queue = <<>>, Open PROVE Calm'
<1> DEFINE a == [kind |-> "short", amount |-> work.target \div work.px, coin |-> perpAsset,
                 limit |-> work.px]
<1>1. a.kind = "short" /\ Send(a) /\ pc' = "opened"
  BY DEF Open, OpenShort, Order
<1> HIDE DEF a
<1>2. queue' = <<a>> /\ Len(queue') <= 1 /\ Head(queue') = a
  BY <1>1, SentAlone
<1>3. ~Waiting({"sell", "send"})'
  BY <1>1, <1>2 DEF Waiting
<1> QED
  BY <1>1, <1>2, <1>3 DEF Calm, OneAction

\* The hedge that a read has seen is there, and is of the short's coin.
LEMMA HedgeSeen ==
    ASSUME OneCoin, TypeOK, NEW misread
    PROVE  /\ HeldRead(misread) \in Nat /\ HeldRead(misread) <= hedge[perpAsset]
           /\ misread # "hedge" /\ spotAsset # NoCoin => HeldRead(misread) = hedge[perpAsset]
           /\ misread # "price" /\ spotAsset # NoCoin => PriceRead(misread) \in Prices
<1>1. hedge[perpAsset] \in Nat /\ HeldRead(misread) \in Nat
  BY SpotReadType DEF TypeOK
<1>2. spotAsset # NoCoin => spotAsset = perpAsset
  BY DEF TypeOK, OneCoin
<1>3. spotAsset # NoCoin => PriceRead(misread) = 0 \/ PriceRead(misread) = price[spotAsset]
  BY DEF PriceRead
<1>4. misread # "price" /\ spotAsset # NoCoin => PriceRead(misread) \in Prices
  BY DEF PriceRead, TypeOK
<1> QED
  BY <1>1, <1>2, <1>4 DEF HeldRead, Hedge

\* What the look at the hedge accounts for.
LEMMA CheckHedgeCalm ==
    ASSUME OneCoin, KeeperInv, Calm, queue = <<>>, NEW misread \in Misreads, CheckHedge(misread)
    PROVE  Calm'
<1> DEFINE held == HeldRead(misread)
           gap == Gap(held)
           px == PriceRead(misread)
<1>0. /\ TypeOK /\ Lots \in Nat /\ hedge[perpAsset] \in Nat /\ gap \in Nat /\ held \in Nat
      /\ held <= hedge[perpAsset] /\ Lots <= held + gap
  <2>1. TypeOK /\ Lots \in Nat /\ hedge[perpAsset] \in Nat
    BY LotsType DEF KeeperInv, KeeperTypeOK, TypeOK
  <2>2. held \in Nat /\ held <= hedge[perpAsset] /\ gap \in Nat
    BY <2>1, HedgeSeen, SpotReadType
  <2>3. Lots <= held + gap
    BY <2>1, <2>2 DEF Gap
  <2> QED
    BY <2>1, <2>2, <2>3
<1>1. ASSUME NEW ending, Over(ending), UNCHANGED vars, Attended' PROVE Calm'
  <2>1. UNCHANGED <<queue, short, hedge, perpAsset>> /\ pc' = "off"
    BY <1>1 DEF vars, core, owned, Over
  <2> QED
    BY <1>1, <2>1, RunGoesOn
<1>2. CASE \E ending \in {"told", "failed", "refused"} : Over(ending) /\ UNCHANGED vars
  BY <1>1, <1>2 DEF Over, Attended
<1>3. ASSUME spotAsset # NoCoin, gap * px <= Dollar, ~(gap > 0 /\ misread = "price"),
             UNCHANGED vars
      PROVE  Attended'
  <2>1. UNCHANGED <<short, hedge, perpAsset>> /\ Lots' = Lots
    BY <1>3 DEF vars, core, owned, Lots
  <2>2. CASE gap = 0
    BY <1>0, <2>1, <2>2 DEF Attended
  <2>3. CASE gap # 0
    <3>1. px \in Prices /\ px \in Nat
      BY <1>0, <1>3, <2>3, HedgeSeen, PricesAreAmounts
    <3> DEFINE d == Lots - hedge[perpAsset]
    <3>2. d \in Int /\ d <= gap /\ Dollar \in Nat
      BY <1>0, KeeperAssumption
    <3> HIDE DEF d, gap, px
    <3>3. d > 0 => d * px <= Dollar
      <4> SUFFICES ASSUME d > 0 PROVE d * px <= Dollar
        OBVIOUS
      <4>1. d \in Nat /\ gap \in Nat
        BY <1>0, <3>2
      <4>2. d * px <= gap * px /\ d * px \in Nat /\ gap * px \in Nat
        BY <3>1, <3>2, <4>1, ProductMonotone, ProductType
      <4> QED
        BY <1>3, <3>2, <4>2
    <3>4. d <= 0 => Lots <= hedge[perpAsset]
      BY <1>0 DEF d
    <3>5. Lots <= hedge[perpAsset] \/ (Lots - hedge[perpAsset]) * px <= Dollar
      BY <3>2, <3>3, <3>4 DEF d
    <3> QED
      BY <2>1, <3>1, <3>5 DEF Attended
  <2> QED
    BY <2>2, <2>3
<1>4. ASSUME OpenSpotBuy(px, gap), pc' = "bought", work' = [work EXCEPT !.amount = Lots]
      PROVE  Calm'
  <2> DEFINE a == [kind |-> "buy", amount |-> gap, coin |-> spotAsset, limit |-> px]
  <2>1. a.kind = "buy" /\ Send(a) /\ UNCHANGED <<short, perpAsset>>
    BY <1>4 DEF OpenSpotBuy, Order, core, owned
  <2> HIDE DEF a
  <2>2. queue' = <<a>> /\ Len(queue') <= 1 /\ Head(queue') = a
    BY <2>1, SentAlone
  <2>3. ~Waiting({"short"})' /\ ~Waiting({"sell", "send"})'
    BY <2>1, <2>2 DEF Waiting
  <2>4. Lots' = Lots /\ work'.amount = Lots
    BY <1>4, <2>1 DEF Lots, KeeperInv, KeeperTypeOK
  <2>5. Lots' <= work'.amount
    BY <1>0, <2>4
  <2> QED
    BY <1>4, <2>2, <2>3, <2>5 DEF Calm, OneAction
<1> HIDE DEF held, gap, px
<1>5. \/ \E ending \in {"told", "failed", "refused"} : Over(ending) /\ UNCHANGED vars
      \/ /\ spotAsset # NoCoin /\ gap * px <= Dollar /\ ~(gap > 0 /\ misread = "price")
         /\ Over("hedged") /\ UNCHANGED vars
      \/ OpenSpotBuy(px, gap) /\ pc' = "bought" /\ work' = [work EXCEPT !.amount = Lots]
  BY Zenon DEF CheckHedge, held, gap, px
<1> QED
  BY <1>1, <1>2, <1>3, <1>4, <1>5

LEMMA CheckPurchaseCalm ==
    ASSUME OneCoin, KeeperInv, Calm, queue = <<>>, NEW misread, CheckPurchase(misread)
    PROVE  Calm'
<1>1. /\ TypeOK /\ Lots \in Nat /\ hedge[perpAsset] \in Nat /\ work.amount \in Nat
      /\ Lots <= work.amount
      /\ HeldRead(misread) \in Nat /\ HeldRead(misread) <= hedge[perpAsset]
  BY LotsType, HedgeSeen DEF KeeperInv, KeeperTypeOK, TypeOK, Calm, CheckPurchase
<1>2. UNCHANGED <<queue, short, hedge, perpAsset>> /\ pc' = "off" /\ Lots' = Lots
  BY DEF CheckPurchase, vars, core, owned, Over, Lots
<1>3. CASE HeldRead(misread) >= work.amount
  <2>1. Lots <= hedge[perpAsset]
    BY <1>1, <1>3
  <2> QED
    BY <1>2, <2>1, RunGoesOn DEF Attended
<1>4. CASE ~(HeldRead(misread) >= work.amount)
  <2>1. fate' = "told"
    BY <1>4 DEF CheckPurchase, Over
  <2> QED
    BY <1>2, <2>1, RunGoesOn DEF Attended
<1> QED
  BY <1>3, <1>4

\* A step of the script that is in time.
LEMMA WorkCalm ==
    ASSUME OneCoin, HedgeInv, Work, ~late' PROVE Calm'
<1>1. queue = <<>> /\ (late => pc' = "opened")
  BY DEF Work
<1>2. CASE Open
  BY <1>1, <1>2, OpenCalm
<1>3. ASSUME ~Open PROVE Calm'
  <2>1. pc' # "opened"
    BY <1>3
    DEF Work, Skim, TopUp, CheckHedge, CheckPurchase, Reduce, Unwind, ReturnHedge, Reverted,
        Goto, Exit, Over
  <2>2. Calm /\ KeeperInv
    BY <1>1, <2>1 DEF HedgeInv
  <2>3. CASE Reverted
    <3>1. CASE pc \in {"opened", "bought"}
      BY <2>3, <3>1 DEF Reverted, Accepted
    <3>2. CASE pc \notin {"opened", "bought"}
      BY <1>1, <2>2, <2>3, <3>2, QuietCalm DEF Reverted, Exit, Over
    <3> QED
      BY <3>1, <3>2
  <2> QED
    BY <1>1, <1>3, <2>2, <2>3, SkimCalm, TopUpCalm, ReduceCalm, UnwindCalm, CheckHedgeCalm,
       CheckPurchaseCalm, ReturnHedgeCalm
    DEF Work
<1> QED
  BY <1>2, <1>3

\* The reads and the decision send nothing, and a run that breaks off has its
\* order noted as such.
LEMMA ReadsCalm ==
    ASSUME Calm, UNCHANGED <<vars, fate>>, pc \notin {"opened", "bought"},
           pc' \notin {"opened", "bought", "sell"}
    PROVE  Calm'
<1>1. UNCHANGED <<queue, short, hedge, perpAsset>> /\ Lots' = Lots
  BY DEF vars, core, owned, Lots
<1>2. Attended => Attended'
  BY <1>1 DEF Attended
<1>3. \A kinds : (Waiting(kinds))' => Waiting(kinds)
  BY <1>1 DEF Waiting
<1> QED
  BY <1>1, <1>2, <1>3 DEF Calm, OneAction

LEMMA FailCalm == ASSUME HedgeInv, Calm, Fail PROVE Calm'
<1>1. UNCHANGED vars /\ pc' = "off" /\ fate' = IF fate = "sent" THEN "failed" ELSE fate
  BY DEF Fail, Cut, Over
<1>2. CASE pc \in {"opened", "bought"}
  <2>1. fate' = "failed"
    BY <1>1, <1>2 DEF HedgeInv
  <2>2. UNCHANGED <<queue, short, perpAsset>> /\ Lots' = Lots
    BY <1>1 DEF vars, core, owned, Lots
  <2>3. \A kinds : (Waiting(kinds))' => Waiting(kinds)
    BY <2>2 DEF Waiting
  <2>4. OneAction'
    BY <2>2 DEF Calm, OneAction
  <2> QED
    BY <1>1, <2>1, <2>2, <2>3, <2>4 DEF Calm, Attended
<1>3. CASE pc \notin {"opened", "bought"}
  <2>1. CASE fate = "sent"
    <3>1. UNCHANGED <<queue, short, perpAsset>> /\ Lots' = Lots /\ fate' = "failed"
      BY <1>1, <2>1 DEF vars, core, owned, Lots
    <3>2. \A kinds : (Waiting(kinds))' => Waiting(kinds)
      BY <3>1 DEF Waiting
    <3> QED
      BY <1>1, <3>1, <3>2 DEF Calm, Attended, OneAction
  <2>2. CASE fate # "sent"
    BY <1>1, <1>3, <2>2, ReadsCalm
  <2> QED
    BY <2>1, <2>2
<1> QED
  BY <1>2, <1>3

LEMMA HedgeInvStep == ASSUME OneCoin, HedgeInv, [KeeperNext]_system PROVE HedgeInv'
<1>1. KeeperInv'
  BY KeeperInvStep DEF HedgeInv
<1>2. pc' \in {"opened", "bought"} => fate' = "sent"
  <2>1. CASE Work
    BY <2>1
    DEF HedgeInv, Work, Skim, TopUp, Open, CheckHedge, CheckPurchase, Reduce, Unwind,
        ReturnHedge, Reverted, Goto, Exit, Over
  <2>2. ASSUME NEW apr, NEW target, Decide(apr, target) PROVE pc' \notin {"opened", "bought"}
    BY <2>2 DEF Decide, Exit, Over
  <2>3. CASE UNCHANGED script
    BY <2>3 DEF script, HedgeInv
  <2>4. Read \/ Sync \/ Locate \/ Fail => pc' \notin {"opened", "bought"}
    BY DEF Read, Sync, Locate, Fail, Cut, Over
  <2> QED
    BY <2>1, <2>2, <2>3, <2>4 DEF KeeperNext, system
<1>3. ASSUME ~late' PROVE Calm'
  <2>1. CASE Work
    BY <1>3, <2>1, WorkCalm
  <2>2. CASE (VaultStep \/ CoreStep \/ OperatorStep) /\ UNCHANGED script
    <3>1. ~late
      BY <1>3, <2>2 DEF script
    <3> QED
      BY <1>1, <2>2, <3>1, OutsideCalm
  <2>3. CASE Fail
    <3>1. ~late
      BY <1>3, <2>3 DEF Fail
    <3> QED
      BY <2>3, <3>1, FailCalm DEF HedgeInv
  <2>4. ASSUME UNCHANGED <<vars, fate, late>>, pc \notin {"opened", "bought"},
               pc' \notin {"opened", "bought", "sell"}
        PROVE  Calm'
    BY <1>3, <2>4, ReadsCalm DEF HedgeInv
  <2>5. CASE Read \/ Sync \/ Locate
    BY <2>4, <2>5 DEF Read, Sync, Locate
  <2>6. ASSUME NEW apr, NEW target, Decide(apr, target) PROVE Calm'
    BY <2>4, <2>6 DEF Decide, Exit, Over
  <2>7. CASE UNCHANGED system
    <3>1. /\ UNCHANGED <<queue, short, hedge, perpAsset, pc, work, fate, late>>
          /\ Lots' = Lots
      BY <2>7 DEF system, script, vars, core, owned, Lots
    <3> QED
      BY <1>3, <3>1 DEF HedgeInv, Calm, Attended, OneAction, Waiting
  <2> QED
    BY <2>1, <2>2, <2>3, <2>5, <2>6, <2>7 DEF KeeperNext
<1> QED
  BY <1>1, <1>2, <1>3 DEF HedgeInv

LEMMA HedgeInvStart == KeeperInit => HedgeInv
<1> SUFFICES ASSUME KeeperInit PROVE HedgeInv
  OBVIOUS
<1>1. /\ queue = <<>> /\ pc = "off" /\ short = [c \in Coins |-> 0] /\ perpAsset \in Coins
      /\ hedge = [c \in Coins |-> 0]
  BY DEF KeeperInit, Init
<1>2. Lots = 0 /\ Len(queue) <= 1 /\ hedge[perpAsset] = 0
  BY <1>1 DEF Lots
<1> QED
  BY <1>1, <1>2, KeeperInvStart DEF HedgeInv, Calm, OneAction, Attended, Waiting

\* Only a sale or a transfer out lowers the hedge, and the short is gone then.
LEMMA HedgeStep ==
    ASSUME OneCoin, HedgeInv, [KeeperNext]_system, NEW c \in Coins, hedge'[c] < hedge[c]
    PROVE  short[c] = 0 \/ late
<1> SUFFICES ASSUME ~late PROVE short[c] = 0
  OBVIOUS
<1>1. TypeOK /\ OneAction /\ Calm
  BY DEF HedgeInv, Calm, KeeperInv, KeeperTypeOK
<1>2. hedge \in [Coins -> Nat] /\ hedge[c] \in Nat
  BY <1>1 DEF TypeOK
<1>3. CASE TakeUp
  <2>1. PICK a \in Actions, n \in Nat :
           /\ queue = <<a>> /\ Head(queue) = a
           /\ a.kind \in {"short", "close", "buy", "sell", "send"} => a.coin \in Coins
           /\ hedge' = CASE a.kind = "buy" -> Moved(hedge, a, n)
                         [] a.kind \in {"sell", "send"} -> Moved(hedge, a, -n)
                         [] OTHER -> hedge
    BY <1>1, <1>3, TakeUpLots
  <2>2. CASE a.kind \in {"sell", "send"}
    <3>1. queue # <<>>
      BY <2>1
    <3>2. Waiting({"sell", "send"})
      BY <2>1, <2>2, <3>1 DEF Waiting
    <3>3. Lots = 0 /\ c = perpAsset
      BY <1>1, <3>2 DEF Calm, TypeOK, OneCoin
    <3> QED
      BY <3>3 DEF Lots
  <2>3. CASE a.kind = "buy"
    <3>1. hedge' = Moved(hedge, a, n) /\ a.coin \in Coins
      BY <2>1, <2>3
    <3>2. hedge'[c] = hedge[c] \/ hedge'[c] = hedge[c] + n
      BY <1>2, <3>1 DEF Moved
    <3> QED
      BY <1>2, <3>2
  <2>4. CASE a.kind \notin {"buy", "sell", "send"}
    BY <1>2, <2>1, <2>4
  <2> QED
    BY <2>2, <2>3, <2>4
<1>4. CASE \E b \in Coins : FundSpot(b)
  <2>1. PICK b \in Coins : hedge' = [hedge EXCEPT ![b] = @ + 1]
    BY <1>4 DEF FundSpot
  <2>2. hedge'[c] = hedge[c] \/ hedge'[c] = hedge[c] + 1
    BY <1>2, <2>1
  <2> QED
    BY <1>2, <2>2
<1>5. CASE UNCHANGED hedge
  BY <1>2, <1>5
<1>6. Work => UNCHANGED hedge
  BY DEF Work, Skim, TopUp, Open, CheckHedge, CheckPurchase, Reduce, Unwind, ReturnHedge,
         Reverted, Harvest, BridgeUsdcToCore, BridgeBackToEvm, MoveUsdc, OpenShort, CloseShort,
         OpenSpotBuy, SellSpot, Order, HedgeTransferOut, vars, core
<1> QED
  BY <1>3, <1>4, <1>5, <1>6
  DEF KeeperNext, Read, Sync, Locate, Decide, Fail, VaultStep, CoreStep, OperatorStep, Allocated,
      Recall, Harvest, SetPerpAsset, SetSpotConfig, SetBufferBps, SetSwitches, BridgeUsdcToCore,
      DepositLands, Reprice, Funding, Liquidate, system, vars, core

\* The hedge is given up only when the short is gone, or HyperCore was later
\* than the script, whatever HyperCore drops or fills in part, whatever read
\* fails, whenever a run dies or is refused, and whatever the market, the
\* vault and the owner do meanwhile: for a sleeve of one coin.
THEOREM HedgeIsHeld == ASSUME OneCoin PROVE KeeperSpec => HedgeOutlivesShort
<1>1. KeeperInit => HedgeInv
  BY HedgeInvStart
<1>2. HedgeInv /\ [KeeperNext]_system => HedgeInv'
  BY HedgeInvStep
<1>3. HedgeInv /\ [KeeperNext]_system
        => [\A c \in Coins : hedge'[c] < hedge[c] => short[c] = 0 \/ late]_system
  BY HedgeStep
<1> QED
  BY <1>1, <1>2, <1>3, PTL DEF KeeperSpec, HedgeOutlivesShort

\* Between runs, a short without its hedge has been alerted, is a gap of a
\* dollar at most, or is the work of a failure, a refused purchase or an order
\* taken up late, whatever HyperCore drops or fills in part, and whatever the
\* market, the vault and the owner do: for a sleeve of one coin, and for every
\* setting of the caps, the leverage and the targets.
THEOREM NakedShortsAreAlerted == ASSUME OneCoin PROVE KeeperSpec => []NakedShortIsAlerted
<1>1. KeeperInit => HedgeInv
  BY HedgeInvStart
<1>2. HedgeInv /\ [KeeperNext]_system => HedgeInv'
  BY HedgeInvStep
<1>3. HedgeInv => NakedShortIsAlerted
  <2> SUFFICES ASSUME HedgeInv, pc = "off", Lots > hedge[perpAsset], ~late
               PROVE  \/ fate \in {"told", "failed", "refused"}
                      \/ \E p \in Prices : (Lots - hedge[perpAsset]) * p <= Dollar
    BY DEF NakedShortIsAlerted
  <2>1. Lots \in Nat /\ hedge[perpAsset] \in Nat
    BY LotsType DEF HedgeInv, KeeperInv, KeeperTypeOK, TypeOK
  <2>2. ~(Lots <= hedge[perpAsset])
    BY <2>1
  <2> QED
    BY <2>2 DEF HedgeInv, Calm, Attended
<1> QED
  BY <1>1, <1>2, <1>3, PTL DEF KeeperSpec
=============================================================================
