------------------------ MODULE ProYieldVault_proofs ------------------------
(***************************************************************************)
(* Proofs about ProYieldVault and the fee loop for every number of users,  *)
(* strategies and runs and every value of the constants.  The price is the *)
(* arithmetic of the two floor divisions; that claims are on the books,    *)
(* that books stay behind the money and that credits are funded are        *)
(* ledgers: how each step changes the sums over users, strategies or runs. *)
(***************************************************************************)
EXTENDS FeeRecycling, Arithmetic, FiniteSetTheorems, TLAPS

(* More assets for the same shares: the price does not fall.               *)
LEMMA GrowthKeepsPrice ==
    ASSUME NEW x \in Nat, NEW y \in Nat, NEW z \in Nat, x <= z
    PROVE  z * y >= x * (y - 1)
<1>1. x * y <= z * y
  BY SMT
<1>2. x * (y - 1) = x * y - x
  BY SMT
<1> QED
  BY <1>1, <1>2, ProductType

(* Burning the floor of the proportional shares leaves the price at one or *)
(* more: the core of the price floor.                                      *)
LEMMA BurnKeepsFloor ==
    ASSUME NEW x \in Nat, NEW y \in Nat, NEW a \in Nat, NEW sh \in Nat,
           y <= x, a < x, a * y < sh * x + x
    PROVE  y - sh <= x - a
<1> SUFFICES ASSUME y - sh >= x - a + 1 PROVE FALSE
  OBVIOUS
<1>1. sh + 1 <= y - x + a
  OBVIOUS
<1>2. (sh + 1) * x <= (y - x + a) * x
  BY <1>1, SMT
<1>3. (x - y) * (x - a) >= 0
  BY SMT
<1>4. (y - x + a) * x = a * y - (x - y) * (x - a)
  BY SMT
<1> QED
  BY <1>2, <1>3, <1>4, SMT

-----------------------------------------------------------------------------
(* Types of the helpers.                                                   *)

LEMMA PriceTypes ==
    ASSUME TypeOK
    PROVE  /\ X \in Nat \ {0} /\ Y \in Nat \ {0}
           /\ \A a \in Nat : ToShares(a) \in Nat /\ ToAssets(a) \in Nat
<1>1. totalAssets \in Nat /\ totalShares \in Nat /\ SHARE_OFFSET \in Nat \ {0}
  BY VaultAssumption DEF TypeOK, Uint
<1>2. X \in Nat \ {0} /\ Y \in Nat \ {0}
  BY <1>1 DEF X, Y
<1>3. ASSUME NEW a \in Nat PROVE ToShares(a) \in Nat /\ ToAssets(a) \in Nat
  <2>1. a * Y \in Nat /\ a * X \in Nat
    BY <1>2, ProductType
  <2>2. (a * Y) \div X \in Nat /\ (a * X) \div Y \in Nat
    BY <2>1, <1>2, FloorDivision
  <2> QED
    BY <2>2 DEF ToShares, ToAssets, X, Y
<1> QED
  BY <1>2, <1>3

(* The two conversions are floors: what they return, multiplied back.      *)
LEMMA SharesAreFloor ==
    ASSUME TypeOK, totalShares # 0, NEW a \in Nat
    PROVE  /\ ToShares(a) * X <= a * Y
           /\ a * Y < ToShares(a) * X + X
<1>1. X \in Nat \ {0} /\ Y \in Nat \ {0} /\ a * Y \in Nat
  BY PriceTypes, ProductType
<1>2. ToShares(a) = (a * Y) \div X
  BY DEF ToShares, X, Y
<1> QED
  BY <1>1, <1>2, FloorDivision

LEMMA AssetsAreFloor ==
    ASSUME TypeOK, totalShares # 0, NEW sh \in Nat
    PROVE  ToAssets(sh) * Y <= sh * X
<1>1. X \in Nat \ {0} /\ Y \in Nat \ {0} /\ sh * X \in Nat
  BY PriceTypes, ProductType
<1>2. ToAssets(sh) = (sh * X) \div Y
  BY DEF ToAssets, X, Y
<1> QED
  BY <1>1, <1>2, FloorDivision

LEMMA SlotCounts ==
    ASSUME TypeOK
    PROVE  /\ Cardinality(ActiveSlots) \in Nat
           /\ ActiveSlots # {} => Cardinality(ActiveSlots) # 0
           /\ \A s, n : Cardinality(SlotsOf(s, n)) \in Nat
<1>1. IsFiniteSet(DOMAIN strategyList)
  <2>1. DOMAIN strategyList = 1..Len(strategyList) /\ Len(strategyList) \in Nat
    BY DEF TypeOK
  <2> QED
    BY <2>1, FS_Interval
<1>2. IsFiniteSet(ActiveSlots)
  BY <1>1, FS_Subset DEF ActiveSlots
<1>3. \A s, n : IsFiniteSet(SlotsOf(s, n))
  BY <1>2, FS_Subset DEF SlotsOf
<1> QED
  BY <1>2, <1>3, FS_CardinalityType, FS_EmptySet

(* A recall never takes more from a strategy than it holds.                *)
LEMMA RecallWithinHeld ==
    ASSUME TypeOK, NEW needed \in Nat
    PROVE  /\ RecallShortfall(needed) \in [Strategies -> Nat]
           /\ \A s \in Strategies : RecallShortfall(needed)[s] <= held[s]
<1> DEFINE missing == needed - idle
           per == (missing \div Cardinality(ActiveSlots)) + 1
           Paid(n) == [s \in Strategies |->
                          Lesser(per * Cardinality(SlotsOf(s, n)), held[s])]
           stop == CHOOSE n \in 0..Len(strategyList) :
                      /\ n = Len(strategyList) \/ SumFunction(Paid(n)) >= missing
                      /\ \A m \in 0..(n - 1) :
                            ~(m = Len(strategyList) \/ SumFunction(Paid(m)) >= missing)
<1>1. held \in [Strategies -> Nat] /\ idle \in Nat
  BY VaultAssumption DEF TypeOK, Uint
<1>2. CASE missing <= 0 \/ ActiveSlots = {}
  BY <1>1, <1>2 DEF RecallShortfall
<1>3. CASE ~(missing <= 0 \/ ActiveSlots = {})
  <2>1. per \in Nat
    BY <1>1, <1>3, SlotCounts, FloorDivision
  <2>2. \A n : /\ Paid(n) \in [Strategies -> Nat]
               /\ \A s \in Strategies : Paid(n)[s] <= held[s]
    <3> SUFFICES ASSUME NEW n, NEW s \in Strategies
                 PROVE  Paid(n)[s] \in Nat /\ Paid(n)[s] <= held[s]
      OBVIOUS
    <3>1. per * Cardinality(SlotsOf(s, n)) \in Nat
      BY <2>1, SlotCounts, ProductType
    <3> QED
      BY <3>1, <1>1 DEF Lesser
  <2>3. RecallShortfall(needed) = Paid(stop)
    BY <1>3 DEF RecallShortfall
  <2> HIDE DEF Paid, stop
  <2> QED
    BY <2>2, <2>3
<1> QED
  BY <1>2, <1>3

-----------------------------------------------------------------------------
(* Type correctness.                                                       *)

LEMMA InitType == Init => TypeOK
<1>1. MaxUint \in Nat /\ MaxList \in Nat
  BY VaultAssumption
<1> SUFFICES ASSUME Init PROVE TypeOK
  OBVIOUS
<1>2. strategyList \in Seq(Strategies) /\ Len(strategyList) <= MaxList
  BY <1>1 DEF Init
<1>3. 0 \in Uint
  BY <1>1 DEF Uint
<1> QED
  BY <1>2, <1>3 DEF Init, TypeOK

LEMMA RedeemType ==
    ASSUME TypeOK, NEW u \in Users, NEW sh \in Nat, NEW amount \in Nat, NEW needed \in Nat,
           Redeem(u, sh, amount, RecallShortfall(needed))
    PROVE  TypeOK'
<1>1. /\ shares \in [Users -> Uint] /\ {totalShares, totalAssets} \subseteq Uint
      /\ held \in [Strategies -> Uint] /\ MaxUint \in Nat
  <2>1. MaxUint \in Nat
    BY VaultAssumption
  <2> QED
    BY <2>1 DEF TypeOK
<1>2. /\ sh <= shares[u] /\ sh <= totalShares /\ amount <= totalAssets
      /\ idle' \in Uint
      /\ shares' = [shares EXCEPT ![u] = @ - sh]
      /\ totalShares' = totalShares - sh /\ totalAssets' = totalAssets - amount
      /\ held' = [s \in Strategies |-> held[s] - RecallShortfall(needed)[s]]
  BY DEF Redeem
<1>3. totalShares' \in Uint /\ totalAssets' \in Uint
  BY <1>1, <1>2 DEF Uint
<1>4. shares' \in [Users -> Uint]
  <2>1. shares[u] - sh \in Uint
    BY <1>1, <1>2 DEF Uint
  <2> QED
    BY <1>1, <1>2, <2>1
<1>5. held' \in [Strategies -> Uint]
  <2>1. ASSUME NEW s \in Strategies
        PROVE  held[s] - RecallShortfall(needed)[s] \in Uint
    <3>1. RecallShortfall(needed)[s] \in Nat /\ RecallShortfall(needed)[s] <= held[s]
      BY RecallWithinHeld
    <3> QED
      BY <3>1, <1>1 DEF Uint
  <2> QED
    BY <1>2, <2>1
<1> QED
  BY <1>2, <1>3, <1>4, <1>5 DEF Redeem, TypeOK, config

LEMMA UserStepType == ASSUME TypeOK, UserStep PROVE TypeOK'
<1>1. PICK u \in Users, amount \in Uint :
          Deposit(u, amount) \/ Withdraw(u, amount) \/ WithdrawUpTo(u, amount)
  BY DEF UserStep
<1>2. /\ amount \in Nat /\ ToShares(amount) \in Nat
      /\ shares[u] \in Nat /\ ToAssets(shares[u]) \in Nat
  <2>1. amount \in Nat /\ shares[u] \in Nat
    BY VaultAssumption DEF TypeOK, Uint
  <2> QED
    BY <2>1, PriceTypes
<1>3. CASE Deposit(u, amount)
  BY <1>2, <1>3 DEF Deposit, TypeOK, config, venues
<1>4. CASE Withdraw(u, amount)
  BY <1>2, <1>4, RedeemType DEF Withdraw
<1>5. CASE WithdrawUpTo(u, amount)
  <2> DEFINE want == WantUpTo(u, amount)
             paid == PaidUpTo(u, amount)
             sh == Lesser(ToShares(paid), shares[u])
  <2>1. want \in Nat
    BY <1>2 DEF WantUpTo, Lesser
  <2>2. paid \in Nat /\ Redeem(u, sh, paid, RecallShortfall(want))
    BY <1>5, VaultAssumption DEF WithdrawUpTo, Uint
  <2>3. sh \in Nat
    BY <1>2, <2>2, PriceTypes DEF Lesser
  <2> HIDE DEF want, paid, sh
  <2> QED
    BY <2>1, <2>2, <2>3, RedeemType
<1> QED
  BY <1>1, <1>3, <1>4, <1>5

LEMMA HarvestStepType == ASSUME TypeOK, HarvestStep PROVE TypeOK'
<1>1. /\ held \in [Strategies -> Uint] /\ accrued \in [Strategies -> Uint]
      /\ MaxUint \in Nat
  BY VaultAssumption DEF TypeOK
<1>2. \A s \in Strategies : \A n \in SweepOf(s, MaxUint) :
          held[s] - n \in Uint /\ accrued[s] - n \in Uint
  <2> SUFFICES ASSUME NEW s \in Strategies, NEW n \in SweepOf(s, MaxUint)
               PROVE  held[s] - n \in Uint /\ accrued[s] - n \in Uint
    OBVIOUS
  <2>1. held[s] \in 0..MaxUint /\ accrued[s] \in 0..MaxUint
    BY <1>1 DEF Uint
  <2>2. n \in Nat /\ n <= held[s] /\ n <= accrued[s]
    BY <1>1, <2>1 DEF SweepOf, Lesser
  <2> QED
    BY <1>1, <2>1, <2>2 DEF Uint
<1>3. CASE \E swept \in [Strategies -> Uint] : Harvest(swept)
  <2>1. PICK swept \in [Strategies -> Uint] : Harvest(swept)
    BY <1>3
  <2>2. held' \in [Strategies -> Uint] /\ accrued' \in [Strategies -> Uint]
    <3>1. /\ held' = [s \in Strategies |-> held[s] - swept[s]]
          /\ accrued' = [s \in Strategies |-> accrued[s] - swept[s]]
          /\ \A s \in Strategies : swept[s] \in SweepOf(s, MaxUint)
      BY <2>1 DEF Harvest
    <3> QED
      BY <3>1, <1>2
  <2>3. {idle', feeBalance', totalAssets'} \subseteq Uint
    BY <2>1 DEF Harvest
  <2> QED
    BY <2>1, <2>2, <2>3 DEF Harvest, TypeOK, config
<1>4. CASE \E s \in Strategies, swept \in Uint : HarvestStrategy(s, swept)
  <2>1. PICK s \in Strategies, swept \in Uint : HarvestStrategy(s, swept)
    BY <1>4
  <2>2. held[s] - swept \in Uint /\ accrued[s] - swept \in Uint
    BY <2>1, <1>2 DEF HarvestStrategy
  <2> QED
    BY <1>1, <2>1, <2>2 DEF HarvestStrategy, TypeOK, config, books
<1> QED
  BY <1>3, <1>4 DEF HarvestStep

LEMMA ConfigStepType == ASSUME TypeOK, ConfigStep PROVE TypeOK'
<1>1. CASE \E s \in Strategies : AddStrategy(s)
  <2>1. PICK s \in Strategies : AddStrategy(s)
    BY <1>1
  <2>2. strategyList' \in Seq(Strategies) /\ Len(strategyList') <= MaxList
    BY <2>1, VaultAssumption DEF AddStrategy, TypeOK
  <2> QED
    BY <2>1, <2>2 DEF AddStrategy, TypeOK, books, venues
<1>2. CASE \E s \in Strategies, active \in BOOLEAN : SetStrategyActive(s, active)
  BY <1>2 DEF SetStrategyActive, TypeOK, books, venues
<1>3. CASE \E tvl, perUser \in Caps : SetCaps(tvl, perUser)
  BY <1>3 DEF SetCaps, TypeOK, books, venues
<1>4. CASE \E paused \in Pauses : SetDepositsPaused(paused)
  BY <1>4, VaultAssumption DEF SetDepositsPaused, TypeOK, books, venues
<1>5. CASE \E fee \in Fees : SetPerformanceFee(fee)
  BY <1>5 DEF SetPerformanceFee, TypeOK, books, venues
<1> QED
  BY <1>1, <1>2, <1>3, <1>4, <1>5 DEF ConfigStep

LEMMA OwnerStepType == ASSUME TypeOK, OwnerStep PROVE TypeOK'
<1>1. MaxUint \in Nat /\ totalAssets \in Uint /\ idle \in Uint
  BY VaultAssumption DEF TypeOK
<1>2. CASE Allocate
  BY <1>2 DEF Allocate, TypeOK, books, config
<1>3. CASE EmergencyWithdraw
  <2>1. totalAssets' \in Uint /\ idle' \in Uint
    BY <1>1, <1>3 DEF EmergencyWithdraw, Uint
  <2> QED
    BY <1>3, <2>1 DEF EmergencyWithdraw, TypeOK, config, venues
<1>4. ASSUME NEW amount \in Uint, CreditYield(amount) PROVE TypeOK'
  BY <1>4 DEF CreditYield, TypeOK, config, venues
<1>5. ASSUME NEW amount \in Uint, ReportLoss(amount) PROVE TypeOK'
  <2>1. totalAssets' \in Uint
    BY <1>1, <1>5 DEF ReportLoss, Uint
  <2> QED
    BY <1>5, <2>1 DEF ReportLoss, TypeOK, config, venues
<1> QED
  BY <1>2, <1>3, <1>4, <1>5 DEF OwnerStep

LEMMA VenueStepType == ASSUME TypeOK, VenueStep PROVE TypeOK'
<1>1. /\ held \in [Strategies -> Uint] /\ accrued \in [Strategies -> Uint]
      /\ deployed \in [Strategies -> Uint] /\ MaxUint \in Nat
  BY VaultAssumption DEF TypeOK
<1>2. ASSUME NEW s \in Strategies, NEW amount \in Uint, StrategyDeploy(s, amount) PROVE TypeOK'
  <2>1. held[s] - amount \in Uint
    BY <1>1, <1>2 DEF StrategyDeploy, Uint
  <2> QED
    BY <1>1, <1>2, <2>1 DEF StrategyDeploy, TypeOK, books, config
<1>3. ASSUME NEW s \in Strategies, NEW amount \in Uint, StrategyReturn(s, amount) PROVE TypeOK'
  <2>1. deployed[s] - amount \in Uint
    BY <1>1, <1>3 DEF StrategyReturn, Uint
  <2> QED
    BY <1>1, <1>3, <2>1 DEF StrategyReturn, TypeOK, books, config
<1>4. ASSUME NEW s \in Strategies, NEW amount \in Uint, AccrueYield(s, amount) PROVE TypeOK'
  BY <1>1, <1>4 DEF AccrueYield, TypeOK, books, config
<1>5. ASSUME NEW s \in Strategies, NEW amount \in Uint, VenueLoss(s, amount) PROVE TypeOK'
  <2>1. deployed[s] - amount \in Uint
    BY <1>1, <1>5 DEF VenueLoss, Uint
  <2> QED
    BY <1>1, <1>5, <2>1 DEF VenueLoss, TypeOK, books, config
<1>6. ASSUME NEW amount \in Uint, Arrive(amount) PROVE TypeOK'
  BY <1>6 DEF Arrive, TypeOK, books, config, venues
<1> QED
  BY <1>2, <1>3, <1>4, <1>5, <1>6 DEF VenueStep

LEMMA StutterType == ASSUME TypeOK, UNCHANGED vars PROVE TypeOK'
  BY DEF vars, books, config, venues, TypeOK

(* Every reachable state is well-typed: no order of transactions drives a  *)
(* balance, a share count or the books below zero (an underflow reverts).  *)
THEOREM TypeCorrect == Spec => []TypeOK
<1>1. TypeOK /\ [Next]_vars => TypeOK'
  BY UserStepType, HarvestStepType, ConfigStepType, OwnerStepType, VenueStepType,
     StutterType DEF Next
<1> QED
  BY <1>1, InitType, PTL DEF Spec

-----------------------------------------------------------------------------
(* What each kind of step does to the price.                               *)

LEMMA Numbers ==
    ASSUME TypeOK
    PROVE  /\ totalAssets \in Nat /\ totalShares \in Nat
           /\ X \in Nat \ {0} /\ Y \in Nat \ {0}
           /\ X = totalAssets + SHARE_OFFSET /\ Y = totalShares + SHARE_OFFSET
           /\ X' = totalAssets' + SHARE_OFFSET /\ Y' = totalShares' + SHARE_OFFSET
           /\ SHARE_OFFSET \in Nat \ {0}
<1>1. totalAssets \in Nat /\ totalShares \in Nat /\ SHARE_OFFSET \in Nat \ {0}
  BY VaultAssumption DEF TypeOK, Uint
<1> QED
  BY <1>1, PriceTypes DEF X, Y

(* A deposit mints the floor of its proportional shares.                   *)
LEMMA DepositStep ==
    ASSUME TypeOK, NEW u \in Users, NEW amount \in Uint, Deposit(u, amount)
    PROVE  /\ writtenDown' = writtenDown
           /\ \E sh \in Nat \ {0} :
                 /\ X' = X + amount /\ Y' = Y + sh
                 /\ amount \in Nat
                 /\ totalShares = 0 => sh = amount
                 /\ totalShares # 0 => sh * X <= amount * Y
<1>1. amount \in Nat
  BY VaultAssumption DEF Uint
<1>2. ToShares(amount) \in Nat \ {0}
  BY <1>1, PriceTypes DEF Deposit
<1>3. totalShares = 0 => ToShares(amount) = amount
  BY DEF ToShares
<1>4. totalShares # 0 => ToShares(amount) * X <= amount * Y
  BY <1>1, SharesAreFloor
<1>5. X' = X + amount /\ Y' = Y + ToShares(amount)
  BY <1>1, <1>2, Numbers DEF Deposit
<1> QED
  BY <1>1, <1>2, <1>3, <1>4, <1>5 DEF Deposit

(* A withdrawal burns the floor of the shares its payment is worth: the    *)
(* clamp of withdrawUpTo never binds, and neither path runs on an empty    *)
(* vault.                                                                  *)
LEMMA RedeemStep ==
    ASSUME TypeOK, NEW u \in Users, NEW amount \in Uint,
           Withdraw(u, amount) \/ WithdrawUpTo(u, amount)
    PROVE  /\ writtenDown' = writtenDown
           /\ totalShares # 0
           /\ \E sh, paid \in Nat :
                 /\ X' = X - paid /\ Y' = Y - sh
                 /\ paid < X
                 /\ paid * Y < sh * X + X
<1>1. /\ amount \in Nat /\ shares[u] \in Nat /\ ToShares(amount) \in Nat
      /\ ToAssets(shares[u]) \in Nat
  <2>1. amount \in Nat /\ shares[u] \in Nat
    BY VaultAssumption DEF TypeOK, Uint
  <2> QED
    BY <2>1, PriceTypes
<1>2. ASSUME NEW sh \in Nat, NEW paid \in Nat, NEW recalled, Redeem(u, sh, paid, recalled)
      PROVE  /\ writtenDown' = writtenDown /\ sh <= totalShares
             /\ X' = X - paid /\ Y' = Y - sh /\ paid < X
  <2>1. /\ writtenDown' = writtenDown /\ sh <= totalShares /\ paid <= totalAssets
        /\ totalAssets' = totalAssets - paid /\ totalShares' = totalShares - sh
    BY <1>2, Zenon DEF Redeem
  <2>2. /\ totalAssets \in Nat /\ totalShares \in Nat /\ SHARE_OFFSET \in Nat \ {0}
        /\ X = totalAssets + SHARE_OFFSET /\ Y = totalShares + SHARE_OFFSET
        /\ X' = totalAssets' + SHARE_OFFSET /\ Y' = totalShares' + SHARE_OFFSET
    BY Numbers, Zenon
  <2> QED
    BY <2>1, <2>2
<1>3. CASE Withdraw(u, amount)
  <2>1. Redeem(u, ToShares(amount), amount, RecallShortfall(amount)) /\ ToShares(amount) > 0
    BY <1>3 DEF Withdraw
  <2>2. totalShares # 0
    BY <1>1, <1>2, <2>1
  <2> QED
    BY <1>1, <1>2, <2>1, <2>2, SharesAreFloor
<1>4. CASE WithdrawUpTo(u, amount)
  <2> DEFINE want == WantUpTo(u, amount)
             paid == PaidUpTo(u, amount)
             sh == Lesser(ToShares(paid), shares[u])
  <2>1. /\ want \in Nat /\ want <= ToAssets(shares[u])
    BY <1>1 DEF WantUpTo, Lesser
  <2>2. paid \in Nat \ {0} /\ Redeem(u, sh, paid, RecallShortfall(want)) /\ want > 0
    BY <1>4, VaultAssumption DEF WithdrawUpTo, Uint
  <2>3. paid <= want
    BY <2>1, <2>2 DEF PaidUpTo, Lesser
  <2>4. ToShares(paid) \in Nat
    BY <2>2, PriceTypes
  <2>5. totalShares # 0
    <3> SUFFICES ASSUME totalShares = 0 PROVE FALSE
      OBVIOUS
    <3>1. ToShares(paid) = paid /\ ToAssets(shares[u]) = shares[u]
      BY DEF ToShares, ToAssets
    <3>2. sh = paid
      BY <1>1, <2>1, <2>2, <2>3, <3>1 DEF Lesser
    <3> QED
      BY <1>2, <2>2, <3>2
  <2>6. ToShares(paid) <= shares[u]
    <3>1. paid * Y <= ToAssets(shares[u]) * Y
      BY <1>1, <2>1, <2>2, <2>3, Numbers, SMT
    <3>2. ToAssets(shares[u]) * Y <= shares[u] * X
      BY <1>1, <2>5, AssetsAreFloor
    <3>3. ToShares(paid) * X <= paid * Y
      BY <2>2, <2>5, SharesAreFloor
    <3>4. ToShares(paid) * X <= shares[u] * X
      <4>1. /\ paid * Y \in Nat /\ ToAssets(shares[u]) * Y \in Nat
            /\ shares[u] * X \in Nat /\ ToShares(paid) * X \in Nat
        BY <1>1, <2>2, <2>4, Numbers, ProductType
      <4> QED
        BY <4>1, <3>1, <3>2, <3>3
    <3> QED
      BY <1>1, <2>4, <3>4, Numbers, CancelFactor
  <2>7. sh = ToShares(paid)
    BY <1>1, <2>4, <2>6 DEF Lesser
  <2>8. paid * Y < ToShares(paid) * X + X
    BY <2>2, <2>5, SharesAreFloor
  <2>9. Redeem(u, ToShares(paid), paid, RecallShortfall(want))
    BY <2>2, <2>7
  <2> HIDE DEF want, paid, sh
  <2> QED
    BY <1>2, <2>2, <2>4, <2>5, <2>8, <2>9
<1> QED
  BY <1>3, <1>4

(* No fee exceeds the profit it is taken from.                             *)
LEMMA FeeWithinProfit ==
    ASSUME TypeOK, NEW profit \in Nat
    PROVE  FeeOn(profit) \in Nat /\ FeeOn(profit) <= profit
<1>1. performanceFee \in Nat /\ performanceFee <= BPS /\ BPS \in Nat \ {0}
  BY VaultAssumption DEF TypeOK
<1>2. profit * performanceFee \in Nat
  BY <1>1, ProductType
<1>3. /\ FeeOn(profit) \in Nat
      /\ FeeOn(profit) * BPS <= profit * performanceFee
  BY <1>1, <1>2, FloorDivision DEF FeeOn
<1>4. profit * performanceFee <= profit * BPS
  BY <1>1, SMT
<1>5. FeeOn(profit) * BPS <= profit * BPS
  BY <1>1, <1>2, <1>3, <1>4, ProductType
<1> QED
  BY <1>1, <1>3, <1>5, CancelFactor

(* Every other step leaves the share count alone, and lowers the books     *)
(* only by a write-down.                                                   *)
LEMMA OtherSteps ==
    ASSUME TypeOK, HarvestStep \/ ConfigStep \/ OwnerStep \/ VenueStep \/ UNCHANGED vars
    PROVE  /\ totalShares' = totalShares
           /\ writtenDown' \/ (totalAssets' >= totalAssets /\ writtenDown' = writtenDown)
           /\ WriteDown \/ totalAssets' >= totalAssets
<1>1. totalAssets \in Nat
  BY Numbers
<1>2. CASE HarvestStep
  <2>1. CASE \E swept \in [Strategies -> Uint] : Harvest(swept)
    <3>1. PICK swept \in [Strategies -> Uint] : Harvest(swept)
      BY <2>1
    <3>2. SumFunction(swept) \in Nat
      BY <3>1, VaultAssumption DEF Harvest, Uint
    <3>3. totalAssets' = totalAssets + SumFunction(swept) - FeeOn(SumFunction(swept))
      BY <3>1 DEF Harvest
    <3> QED
      BY <1>1, <3>1, <3>2, <3>3, FeeWithinProfit DEF Harvest
  <2>2. CASE \E s \in Strategies, swept \in Uint : HarvestStrategy(s, swept)
    BY <1>1, <2>2 DEF HarvestStrategy, books
  <2> QED
    BY <1>2, <2>1, <2>2 DEF HarvestStep
<1>3. CASE ConfigStep
  BY <1>1, <1>3 DEF ConfigStep, AddStrategy, SetStrategyActive, SetCaps,
     SetDepositsPaused, SetPerformanceFee, books
<1>4. CASE OwnerStep
  <2>1. CASE Allocate
    BY <1>1, <2>1 DEF Allocate, books
  <2>2. CASE EmergencyWithdraw
    BY <2>2 DEF EmergencyWithdraw, WriteDown
  <2>3. ASSUME NEW amount \in Uint, CreditYield(amount)
        PROVE  totalShares' = totalShares /\ totalAssets' >= totalAssets /\ writtenDown' = writtenDown
    BY <1>1, <2>3, VaultAssumption DEF CreditYield, Uint
  <2>4. ASSUME NEW amount \in Uint, ReportLoss(amount)
        PROVE  totalShares' = totalShares /\ writtenDown' /\ WriteDown
    BY <2>4 DEF ReportLoss, WriteDown
  <2> QED
    BY <1>4, <2>1, <2>2, <2>3, <2>4 DEF OwnerStep
<1>5. CASE VenueStep
  BY <1>1, <1>5 DEF VenueStep, StrategyDeploy, StrategyReturn, AccrueYield, VenueLoss,
     Arrive, books
<1>6. CASE UNCHANGED vars
  BY <1>1, <1>6 DEF vars, books
<1> QED
  BY <1>2, <1>3, <1>4, <1>5, <1>6

(* The same numbers after a step.                                          *)
LEMMA StepNumbers ==
    ASSUME TypeOK, [Next]_vars
    PROVE  /\ TypeOK'
           /\ totalAssets' \in Nat /\ totalShares' \in Nat
           /\ X' \in Nat \ {0} /\ Y' \in Nat \ {0}
<1>1. TypeOK'
  BY UserStepType, HarvestStepType, ConfigStepType, OwnerStepType, VenueStepType,
     StutterType DEF Next
<1>2. totalAssets' \in Nat /\ totalShares' \in Nat /\ SHARE_OFFSET \in Nat \ {0}
  BY <1>1, VaultAssumption DEF TypeOK, Uint
<1>3. X' = totalAssets' + SHARE_OFFSET /\ Y' = totalShares' + SHARE_OFFSET
  BY Numbers
<1>4. ASSUME NEW a \in Nat, NEW b \in Nat \ {0} PROVE a + b \in Nat \ {0}
  BY SMT
<1>5. X' \in Nat \ {0} /\ Y' \in Nat \ {0}
  BY <1>2, <1>3, <1>4, Zenon
<1> QED
  BY <1>1, <1>2, <1>5

-----------------------------------------------------------------------------
(* The price floor.  Together with the types it is inductive.              *)

Inv == TypeOK /\ PriceFloor

LEMMA FloorStep == ASSUME Inv, [Next]_vars PROVE PriceFloor'
<1>1. TypeOK /\ (~writtenDown => Y <= X)
  BY Numbers DEF Inv, PriceFloor
<1>0. /\ totalAssets' \in Nat /\ totalShares' \in Nat
      /\ X' \in Nat /\ Y' \in Nat
      /\ Y' <= X' => totalAssets' >= totalShares'
  BY <1>1, StepNumbers, Numbers
<1> SUFFICES ASSUME ~writtenDown' PROVE totalAssets' >= totalShares'
  BY DEF PriceFloor
<1>2. CASE UserStep
  <2>1. PICK u \in Users, amount \in Uint :
            Deposit(u, amount) \/ Withdraw(u, amount) \/ WithdrawUpTo(u, amount)
    BY <1>2 DEF UserStep
  <2>2. CASE Deposit(u, amount)
    <3>1. PICK sh \in Nat \ {0} :
             /\ X' = X + amount /\ Y' = Y + sh /\ amount \in Nat
             /\ totalShares = 0 => sh = amount
             /\ totalShares # 0 => sh * X <= amount * Y
      BY <1>1, <2>2, DepositStep
    <3>2. Y <= X
      BY <1>1, <2>2, DepositStep
    <3>3. sh <= amount
      <4>1. CASE totalShares = 0
        BY <3>1, <4>1
      <4>2. CASE totalShares # 0
        <5>1. amount * Y <= amount * X
          BY <1>1, <3>1, <3>2, Numbers, SMT
        <5>2. sh * X <= amount * X
          BY <1>1, <3>1, <4>2, <5>1, Numbers, ProductType
        <5> QED
          BY <1>1, <3>1, <5>2, Numbers, CancelFactor
      <4> QED
        BY <4>1, <4>2
    <3>4. Y' <= X'
      BY <1>1, <3>1, <3>2, <3>3, Numbers
    <3> QED
      BY <1>0, <3>4
  <2>3. CASE Withdraw(u, amount) \/ WithdrawUpTo(u, amount)
    <3>1. PICK sh \in Nat, paid \in Nat :
             X' = X - paid /\ Y' = Y - sh /\ paid < X /\ paid * Y < sh * X + X
      BY <1>1, <2>3, RedeemStep
    <3>2. Y <= X
      BY <1>1, <2>3, RedeemStep
    <3>3. Y' <= X'
      BY <1>1, <3>1, <3>2, Numbers, BurnKeepsFloor
    <3> QED
      BY <1>0, <3>3
  <2> QED
    BY <2>1, <2>2, <2>3
<1>3. CASE HarvestStep \/ ConfigStep \/ OwnerStep \/ VenueStep \/ UNCHANGED vars
  <2>1. totalShares' = totalShares /\ totalAssets' >= totalAssets /\ ~writtenDown
    BY <1>1, <1>3, OtherSteps
  <2> QED
    BY <1>1, <1>0, <2>1, Numbers DEF Inv, PriceFloor
<1> QED
  BY <1>2, <1>3 DEF Next

(* Until a loss is written down a share is worth at least one unit,        *)
(* whatever the order of deposits, withdrawals, harvests and credits.      *)
THEOREM PriceFloorHolds == Spec => []PriceFloor
<1>1. Init => PriceFloor
  BY DEF Init, PriceFloor
<1>2. Inv /\ [Next]_vars => Inv'
  BY StepNumbers, FloorStep DEF Inv
<1>3. Init => Inv
  BY <1>1, InitType DEF Inv
<1>4. Inv => PriceFloor
  BY DEF Inv
<1> QED
  BY <1>2, <1>3, <1>4, PTL DEF Spec

-----------------------------------------------------------------------------
(* Deposits never dilute the holders there are.                            *)
THEOREM DepositsDoNotDilute == Spec => DepositNeverDilutes
<1>1. ASSUME TypeOK, [Next]_vars, totalShares > 0, totalShares' > totalShares
      PROVE  X' * Y >= X * Y'
  <2>0. totalShares' \in Nat /\ X' \in Nat /\ Y' \in Nat
    BY <1>1, StepNumbers
  <2>1. CASE UserStep
    <3>1. PICK u \in Users, amount \in Uint :
              Deposit(u, amount) \/ Withdraw(u, amount) \/ WithdrawUpTo(u, amount)
      BY <2>1 DEF UserStep
    <3>2. CASE Deposit(u, amount)
      <4>1. PICK sh \in Nat \ {0} :
               X' = X + amount /\ Y' = Y + sh /\ amount \in Nat /\ sh * X <= amount * Y
        BY <1>1, <3>2, DepositStep
      <4>2. X' * Y = X * Y + amount * Y /\ X * Y' = X * Y + sh * X
        BY <1>1, <4>1, Numbers, SMT
      <4> QED
        BY <1>1, <4>1, <4>2, Numbers, ProductType
    <3>3. CASE Withdraw(u, amount) \/ WithdrawUpTo(u, amount)
      <4>1. PICK sh \in Nat : Y' = Y - sh
        BY <1>1, <3>3, RedeemStep
      <4> QED
        BY <1>1, <2>0, <4>1, Numbers
    <3> QED
      BY <3>1, <3>2, <3>3
  <2>2. CASE HarvestStep \/ ConfigStep \/ OwnerStep \/ VenueStep \/ UNCHANGED vars
    BY <1>1, <2>2, OtherSteps, Numbers
  <2> QED
    BY <1>1, <2>1, <2>2 DEF Next
<1>2. TypeOK /\ [Next]_vars =>
         [totalShares > 0 /\ totalShares' > totalShares => X' * Y >= X * Y']_vars
  BY <1>1
<1> QED
  BY <1>2, TypeCorrect, PTL DEF Spec, DepositNeverDilutes

(* No transaction but a write-down costs the holders more than the one     *)
(* share a withdrawal's rounding may leave unburned.                       *)
THEOREM PriceFallsByRounding == Spec => PriceFallsByRoundingOnly
<1>1. ASSUME TypeOK, [Next]_vars, totalShares > 0, ~WriteDown
      PROVE  X' * Y >= X * (Y' - 1)
  <2>0. totalAssets' \in Nat /\ X' \in Nat /\ Y' \in Nat /\ X \in Nat /\ Y \in Nat
    BY <1>1, StepNumbers, Numbers
  <2>1. CASE UserStep
    <3>1. PICK u \in Users, amount \in Uint :
              Deposit(u, amount) \/ Withdraw(u, amount) \/ WithdrawUpTo(u, amount)
      BY <2>1 DEF UserStep
    <3>2. CASE Deposit(u, amount)
      <4>1. PICK sh \in Nat \ {0} :
               X' = X + amount /\ Y' = Y + sh /\ amount \in Nat /\ sh * X <= amount * Y
        BY <1>1, <3>2, DepositStep
      <4>2. X' * Y = X * Y + amount * Y /\ X * (Y' - 1) = X * Y + sh * X - X
        BY <1>1, <4>1, Numbers, SMT
      <4> QED
        BY <1>1, <4>1, <4>2, Numbers, ProductType
    <3>3. CASE Withdraw(u, amount) \/ WithdrawUpTo(u, amount)
      <4>1. PICK sh \in Nat, paid \in Nat :
               X' = X - paid /\ Y' = Y - sh /\ paid < X /\ paid * Y < sh * X + X
        BY <1>1, <3>3, RedeemStep
      <4>2. X' * Y = X * Y - paid * Y /\ X * (Y' - 1) = X * Y - sh * X - X
        BY <2>0, <4>1, SMT
      <4> QED
        BY <1>1, <4>1, <4>2, Numbers, ProductType
    <3> QED
      BY <3>1, <3>2, <3>3
  <2>2. CASE HarvestStep \/ ConfigStep \/ OwnerStep \/ VenueStep \/ UNCHANGED vars
    <3>1. totalShares' = totalShares /\ totalAssets' >= totalAssets
      BY <1>1, <2>2, OtherSteps
    <3>2. Y' = Y /\ X' >= X
      BY <1>1, <2>0, <3>1, Numbers
    <3> QED
      BY <2>0, <3>2, GrowthKeepsPrice
  <2> QED
    BY <1>1, <2>1, <2>2 DEF Next
<1>2. TypeOK /\ [Next]_vars =>
         [totalShares > 0 /\ ~WriteDown => X' * Y >= X * (Y' - 1)]_vars
  BY <1>1
<1> QED
  BY <1>2, TypeCorrect, PTL DEF Spec, PriceFallsByRoundingOnly
-----------------------------------------------------------------------------
(* The depositors' claims together.                                        *)

\* Burns and mints keep the total in step with the users' shares.
SharesAddUp == totalShares = SumFunction(shares)

\* ClaimsWithinBooks says nothing of the shares' sum or of the price that a
\* claim is valued at, so it takes both to be inductive.
ClaimsInv == Inv /\ SharesAddUp

(* A claim is the floor of its shares' value: where the price is at least  *)
(* one, the claims together are within the books.                          *)
LEMMA ClaimsByInv == ASSUME ClaimsInv PROVE ClaimsWithinBooks
<1>1. TypeOK /\ PriceFloor /\ totalShares = SumFunction(shares)
  BY DEF ClaimsInv, Inv, SharesAddUp
<1>2. /\ shares \in [Users -> Nat] /\ totalAssets \in Nat /\ totalShares \in Nat
      /\ X \in Nat /\ Y \in Nat \ {0}
  BY <1>1, VaultAssumption, Numbers DEF TypeOK, Uint
<1> SUFFICES ASSUME ~writtenDown
             PROVE  SumFunction([u \in Users |-> MaxWithdraw(u)]) <= totalAssets
  BY DEF ClaimsWithinBooks
<1>3. totalShares <= totalAssets
  BY <1>1, <1>2 DEF PriceFloor
<1> DEFINE claims == [u \in Users |-> MaxWithdraw(u)]
           times == [u \in Users |-> Y * claims[u]]
           worth == [u \in Users |-> X * shares[u]]
<1>4. claims \in [Users -> Nat]
  <2>1. \A u \in Users : ToAssets(shares[u]) \in Nat
    BY <1>1, <1>2, PriceTypes
  <2> QED
    BY <2>1 DEF MaxWithdraw
<1>5. CASE totalShares = 0
  <2>1. claims = shares
    BY <1>2, <1>5 DEF MaxWithdraw, ToAssets
  <2> HIDE DEF claims
  <2>2. SumFunction(claims) = totalShares
    BY <1>1, <2>1, Zenon
  <2> QED
    BY <1>2, <1>5, <2>2 DEF claims
<1>6. CASE totalShares # 0
  <2>1. /\ times \in [Users -> Int] /\ worth \in [Users -> Int]
        /\ \A u \in Users : /\ times[u] = Y * claims[u] /\ worth[u] = X * shares[u]
                            /\ times[u] <= worth[u]
    <3>1. ASSUME NEW u \in Users
          PROVE  Y * claims[u] \in Int /\ X * shares[u] \in Int /\ Y * claims[u] <= X * shares[u]
      <4>1. claims[u] * Y <= shares[u] * X
        BY <1>1, <1>2, <1>6, AssetsAreFloor DEF MaxWithdraw
      <4>2. claims[u] \in Nat /\ shares[u] \in Nat
        BY <1>2, <1>4
      <4> HIDE DEF claims
      <4> QED
        BY <1>2, <4>1, <4>2, Distribution
    <3> QED
      BY <3>1
  <2>2. SumFunction(times) <= SumFunction(worth)
    <3> HIDE DEF times, worth
    <3> QED
      BY <2>1, VaultAssumption, SumOrder
  <2>3. SumFunction(claims) \in Nat /\ claims \in [Users -> Int] /\ shares \in [Users -> Int]
    <3>1. claims \in [Users -> Int] /\ shares \in [Users -> Int]
      BY <1>2, <1>4
    <3> HIDE DEF claims
    <3> QED
      BY <1>4, <3>1, VaultAssumption, SumNatural
  <2>4. SumFunction(times) = Y * SumFunction(claims) /\ SumFunction(worth) = X * totalShares
    <3> HIDE DEF times, worth, claims
    <3> QED
      BY <1>1, <1>2, <2>1, <2>3, VaultAssumption, SumScale
  <2>5. X * totalShares <= totalAssets * Y
    <3> DEFINE o == SHARE_OFFSET
    <3>1. o \in Nat /\ X = totalAssets + o /\ Y = totalShares + o
      BY <1>1, Numbers
    <3> HIDE DEF o
    <3>2. totalShares * o <= totalAssets * o
      BY <1>2, <1>3, <3>1, ProductMonotone
    <3>3. /\ X * totalShares = totalAssets * totalShares + totalShares * o
          /\ totalAssets * Y = totalAssets * totalShares + totalAssets * o
      BY <1>2, <3>1, SMT
    <3> QED
      BY <1>2, <3>1, <3>2, <3>3, ProductType
  <2>6. SumFunction(claims) * Y <= totalAssets * Y
    <3> HIDE DEF claims, times, worth
    <3>1. /\ X * totalShares \in Nat /\ totalAssets * Y \in Nat /\ SumFunction(claims) * Y \in Nat
          /\ SumFunction(claims) * Y = Y * SumFunction(claims)
      BY <1>2, <2>3, ProductType
    <3> QED
      BY <2>2, <2>4, <2>5, <3>1
  <2> HIDE DEF claims
  <2>7. SumFunction(claims) <= totalAssets
    BY <1>2, <2>3, <2>6, CancelFactor
  <2> QED
    BY <2>7 DEF claims
<1> QED
  BY <1>5, <1>6

\* u's shares and the total move by the same amount.
Moves(u, n) ==
    /\ shares' \in [Users -> Int]
    /\ shares'[u] = shares[u] + n
    /\ \A v \in Users \ {u} : shares'[v] = shares[v]
    /\ totalShares' = totalShares + n

LEMMA MoveKeepsSum ==
    ASSUME TypeOK, SharesAddUp, NEW u \in Users, NEW n \in Int, Moves(u, n)
    PROVE  SharesAddUp'
<1> DEFINE f == shares
           g == shares'
<1>1. /\ f \in [Users -> Int] /\ g \in [Users -> Int]
      /\ g[u] = f[u] + n /\ \A v \in Users \ {u} : g[v] = f[v]
  BY VaultAssumption DEF TypeOK, Uint, Moves
<1> HIDE DEF f, g
<1>2. SumFunction(g) = SumFunction(f) + (g[u] - f[u]) /\ SumFunction(f) \in Int
  BY <1>1, VaultAssumption, SumChange, SumType
<1>3. g[u] \in Int /\ f[u] \in Int
  BY <1>1
<1>4. totalShares = SumFunction(f)
  BY DEF SharesAddUp, f
<1>5. totalShares' = SumFunction(g)
  BY <1>1, <1>2, <1>3, <1>4 DEF Moves
<1> QED
  BY <1>5 DEF SharesAddUp, g

LEMMA SharesStep == ASSUME TypeOK, SharesAddUp, [Next]_vars PROVE SharesAddUp'
<1>1. CASE UserStep
  <2>1. PICK u \in Users, amount \in Uint :
            Deposit(u, amount) \/ Withdraw(u, amount) \/ WithdrawUpTo(u, amount)
    BY <1>1 DEF UserStep
  <2>2. /\ amount \in Nat /\ ToShares(amount) \in Nat /\ shares \in [Users -> Int]
        /\ shares[u] \in Int /\ totalShares \in Int
    <3>1. amount \in Nat
      BY VaultAssumption DEF Uint
    <3>2. ToShares(amount) \in Nat
      BY <3>1, PriceTypes
    <3> QED
      BY <3>1, <3>2, VaultAssumption DEF TypeOK, Uint
  <2>3. CASE Deposit(u, amount)
    <3>1. Moves(u, ToShares(amount))
      BY <2>2, <2>3 DEF Deposit, Moves
    <3> QED
      BY <2>2, <3>1, MoveKeepsSum
  <2>4. ASSUME NEW sh \in Int, NEW paid, NEW recalled, Redeem(u, sh, paid, recalled)
        PROVE  SharesAddUp'
    <3> DEFINE n == -sh
    <3>1. /\ shares' = [shares EXCEPT ![u] = shares[u] - sh]
          /\ totalShares' = totalShares - sh
      BY <2>4, Zenon DEF Redeem
    <3>2. n \in Int /\ Moves(u, n)
      BY <2>2, <3>1 DEF Moves
    <3> HIDE DEF n
    <3> QED
      BY <3>2, MoveKeepsSum
  <2>5. CASE Withdraw(u, amount)
    BY <2>2, <2>4, <2>5 DEF Withdraw
  <2>6. CASE WithdrawUpTo(u, amount)
    <3>1. PaidUpTo(u, amount) \in Nat
      BY <2>6, VaultAssumption DEF WithdrawUpTo, Uint
    <3>2. Lesser(ToShares(PaidUpTo(u, amount)), shares[u]) \in Int
      BY <2>2, <3>1, PriceTypes DEF Lesser
    <3> QED
      BY <2>4, <2>6, <3>2 DEF WithdrawUpTo
  <2> QED
    BY <2>1, <2>3, <2>5, <2>6
<1>2. CASE HarvestStep \/ ConfigStep \/ OwnerStep \/ VenueStep \/ UNCHANGED vars
  <2>1. shares' = shares /\ totalShares' = totalShares
    BY <1>2 DEF HarvestStep, Harvest, HarvestStrategy, ConfigStep, AddStrategy,
       SetStrategyActive, SetCaps, SetDepositsPaused, SetPerformanceFee, OwnerStep,
       Allocate, EmergencyWithdraw, CreditYield, ReportLoss, VenueStep, StrategyDeploy,
       StrategyReturn, AccrueYield, VenueLoss, Arrive, vars, books
  <2> QED
    BY <2>1 DEF SharesAddUp
<1> QED
  BY <1>1, <1>2 DEF Next

(* What all depositors together are told they can withdraw is on the       *)
(* books, until a loss is written down: however the two floor divisions    *)
(* and the virtual offset round, they never promise more.                  *)
THEOREM ClaimsAreOnTheBooks == Spec => []ClaimsWithinBooks
<1>1. Init => ClaimsInv
  <2> SUFFICES ASSUME Init PROVE ClaimsInv
    OBVIOUS
  <2>1. shares \in [Users -> Int] /\ (\A u \in Users : shares[u] = 0) /\ totalShares = 0
    BY DEF Init
  <2>2. SumFunction(shares) = 0
    BY <2>1, VaultAssumption, SumZero
  <2> QED
    BY <2>1, <2>2, InitType DEF ClaimsInv, Inv, SharesAddUp, Init, PriceFloor
<1>2. ClaimsInv /\ [Next]_vars => ClaimsInv'
  BY StepNumbers, FloorStep, SharesStep DEF ClaimsInv, Inv
<1> QED
  BY <1>1, <1>2, ClaimsByInv, PTL DEF Spec
-----------------------------------------------------------------------------
(* The money behind the books.                                             *)

\* The sums over the strategies that Surplus and Money are made of.
InHand == SumFunction(held)
Out == SumFunction(deployed)
Unbooked == SumFunction(accrued)

LEMMA Ledger ==
    TypeOK => /\ InHand \in Nat /\ Out \in Nat /\ Unbooked \in Nat
              /\ {idle, feeBalance, totalAssets} \subseteq Nat
              /\ Surplus = idle - totalAssets + InHand + Out - Unbooked
              /\ Money = idle + feeBalance + InHand + Out
<1> SUFFICES ASSUME TypeOK
             PROVE  /\ InHand \in Nat /\ Out \in Nat /\ Unbooked \in Nat
                    /\ {idle, feeBalance, totalAssets} \subseteq Nat
                    /\ Surplus = idle - totalAssets + InHand + Out - Unbooked
                    /\ Money = idle + feeBalance + InHand + Out
  OBVIOUS
<1>1. /\ held \in [Strategies -> Nat] /\ deployed \in [Strategies -> Nat]
      /\ accrued \in [Strategies -> Nat]
      /\ {idle, feeBalance, totalAssets} \subseteq Nat
  BY VaultAssumption DEF TypeOK, Uint
<1>2. InHand \in Nat /\ Out \in Nat /\ Unbooked \in Nat
  BY <1>1, VaultAssumption, SumNatural DEF InHand, Out, Unbooked
<1> DEFINE both == [s \in Strategies |-> held[s] + deployed[s]]
           net == [s \in Strategies |-> held[s] + deployed[s] - accrued[s]]
<1>3. /\ both \in [Strategies -> Int] /\ net \in [Strategies -> Int]
      /\ held \in [Strategies -> Int] /\ deployed \in [Strategies -> Int]
      /\ accrued \in [Strategies -> Int]
      /\ \A s \in Strategies : both[s] = held[s] + deployed[s]
      /\ \A s \in Strategies : net[s] = both[s] - accrued[s]
  BY <1>1
<1>4. SumFunction(both) = InHand + Out /\ SumFunction(net) = SumFunction(both) - Unbooked
  <2> HIDE DEF both, net
  <2>1. SumFunction(both) = SumFunction(held) + SumFunction(deployed)
    BY <1>3, VaultAssumption, SumAdd
  <2>2. SumFunction(net) = SumFunction(both) - SumFunction(accrued)
    BY <1>3, VaultAssumption, SumSubtract
  <2> QED
    BY <2>1, <2>2 DEF InHand, Out, Unbooked
<1>5. Surplus = idle - totalAssets + SumFunction(net) /\ Money = idle + feeBalance + SumFunction(both)
  BY DEF Surplus, Money
<1> HIDE DEF both, net
<1> QED
  BY <1>1, <1>2, <1>4, <1>5

LEMMA LedgerNext ==
    TypeOK' => (/\ InHand \in Nat /\ Out \in Nat /\ Unbooked \in Nat
                /\ {idle, feeBalance, totalAssets} \subseteq Nat
                /\ Surplus = idle - totalAssets + InHand + Out - Unbooked
                /\ Money = idle + feeBalance + InHand + Out)'
  BY Ledger, PTL

\* The change of one of the strategies' balances: f to g, the sum by n.
Shifted(f, g, n) == SumFunction(g) = SumFunction(f) + n

(* A change at one strategy.                                               *)
LEMMA ShiftAtOne ==
    ASSUME NEW f \in [Strategies -> Uint], NEW g \in [Strategies -> Uint],
           NEW s \in Strategies, NEW n \in Int, g[s] = f[s] + n,
           \A t \in Strategies \ {s} : g[t] = f[t]
    PROVE  Shifted(f, g, n)
<1>1. f \in [Strategies -> Int] /\ g \in [Strategies -> Int]
  BY VaultAssumption DEF Uint
<1>2. SumFunction(g) = SumFunction(f) + (g[s] - f[s])
  BY <1>1, VaultAssumption, SumChange
<1>3. g[s] - f[s] = n
  BY <1>1
<1> QED
  BY <1>2, <1>3 DEF Shifted

(* Something taken from every strategy.                                    *)
LEMMA ShiftAtAll ==
    ASSUME NEW f \in [Strategies -> Uint], NEW taken \in [Strategies -> Int],
           NEW g \in [Strategies -> Uint], \A s \in Strategies : g[s] = f[s] - taken[s]
    PROVE  SumFunction(g) = SumFunction(f) - SumFunction(taken) /\ SumFunction(taken) \in Int
<1>1. f \in [Strategies -> Int] /\ g \in [Strategies -> Int]
  BY VaultAssumption DEF Uint
<1> QED
  BY <1>1, VaultAssumption, SumSubtract, SumType

(* A withdrawal takes from idle and the recalled strategies what it takes  *)
(* off the books.                                                          *)
LEMMA RedeemLedger ==
    ASSUME TypeOK, TypeOK', NEW u \in Users, NEW sh \in Nat, NEW paid \in Nat,
           NEW needed \in Nat, Redeem(u, sh, paid, RecallShortfall(needed))
    PROVE  Surplus' = Surplus /\ Money' <= Money
<1> DEFINE recalled == RecallShortfall(needed)
<1>1. /\ held \in [Strategies -> Uint] /\ held' \in [Strategies -> Uint]
      /\ recalled \in [Strategies -> Int]
      /\ held' = [s \in Strategies |-> held[s] - recalled[s]]
  BY RecallWithinHeld DEF TypeOK, Redeem
<1>2. InHand' = InHand - SumFunction(recalled) /\ SumFunction(recalled) \in Int
  <2> DEFINE f == held
             g == held'
  <2>1. /\ f \in [Strategies -> Uint] /\ g \in [Strategies -> Uint]
        /\ \A s \in Strategies : g[s] = f[s] - recalled[s]
    BY <1>1
  <2> HIDE DEF recalled, f, g
  <2>2. SumFunction(g) = SumFunction(f) - SumFunction(recalled) /\ SumFunction(recalled) \in Int
    BY <1>1, <2>1, ShiftAtAll
  <2> QED
    BY <2>2 DEF f, g, InHand
<1>3. /\ idle' = idle + SumFunction(recalled) - paid /\ totalAssets' = totalAssets - paid
      /\ feeBalance' = feeBalance /\ Out' = Out /\ Unbooked' = Unbooked
  BY DEF Redeem, Out, Unbooked
<1> HIDE DEF recalled
<1> QED
  BY <1>2, <1>3, Ledger, LedgerNext

LEMMA UserStepLedger ==
    ASSUME TypeOK, TypeOK', UserStep
    PROVE  Surplus' = Surplus /\ (Money' <= Money \/ Money' <= MaxUint)
<1>1. PICK u \in Users, amount \in Uint :
          Deposit(u, amount) \/ Withdraw(u, amount) \/ WithdrawUpTo(u, amount)
  BY DEF UserStep
<1>2. /\ amount \in Nat /\ ToShares(amount) \in Nat
      /\ shares[u] \in Nat /\ ToAssets(shares[u]) \in Nat
  <2>1. amount \in Nat /\ shares[u] \in Nat
    BY VaultAssumption DEF TypeOK, Uint
  <2> QED
    BY <2>1, PriceTypes
<1>3. CASE Deposit(u, amount)
  <2>1. /\ idle' = idle + amount /\ totalAssets' = totalAssets + amount
        /\ feeBalance' = feeBalance /\ Money + amount <= MaxUint
        /\ InHand' = InHand /\ Out' = Out /\ Unbooked' = Unbooked
    BY <1>3 DEF Deposit, CanArrive, venues, InHand, Out, Unbooked
  <2> QED
    BY <1>2, <2>1, Ledger, LedgerNext
<1>4. CASE Withdraw(u, amount)
  BY <1>2, <1>4, RedeemLedger DEF Withdraw
<1>5. CASE WithdrawUpTo(u, amount)
  <2> DEFINE want == WantUpTo(u, amount)
             paid == PaidUpTo(u, amount)
             sh == Lesser(ToShares(paid), shares[u])
  <2>1. want \in Nat
    BY <1>2 DEF WantUpTo, Lesser
  <2>2. paid \in Nat /\ Redeem(u, sh, paid, RecallShortfall(want))
    BY <1>5, VaultAssumption DEF WithdrawUpTo, Uint
  <2>3. sh \in Nat
    BY <1>2, <2>2, PriceTypes DEF Lesser
  <2> HIDE DEF want, paid, sh
  <2> QED
    BY <2>1, <2>2, <2>3, RedeemLedger
<1> QED
  BY <1>1, <1>3, <1>4, <1>5

(* A sweep moves booked nothing: what leaves accrued leaves held too.      *)
LEMMA HarvestStepLedger ==
    ASSUME TypeOK, TypeOK', HarvestStep
    PROVE  Surplus' >= Surplus /\ Money' <= Money
<1>1. /\ {held, held', accrued, accrued'} \subseteq [Strategies -> Uint]
      /\ {idle, feeBalance, totalAssets} \subseteq Nat
  BY VaultAssumption DEF TypeOK, Uint
<1>2. CASE \E swept \in [Strategies -> Uint] : Harvest(swept)
  <2>1. PICK swept \in [Strategies -> Uint] : Harvest(swept)
    BY <1>2
  <2>2. swept \in [Strategies -> Int] /\ SumFunction(swept) \in Nat
    BY <2>1, VaultAssumption DEF Harvest, Uint
  <2>3. /\ held' = [s \in Strategies |-> held[s] - swept[s]]
        /\ accrued' = [s \in Strategies |-> accrued[s] - swept[s]]
    BY <2>1 DEF Harvest
  <2>4. InHand' = InHand - SumFunction(swept)
    <3> DEFINE f == held
               g == held'
    <3>1. /\ f \in [Strategies -> Uint] /\ g \in [Strategies -> Uint]
          /\ \A s \in Strategies : g[s] = f[s] - swept[s]
      BY <1>1, <2>3
    <3> HIDE DEF f, g
    <3>2. SumFunction(g) = SumFunction(f) - SumFunction(swept)
      BY <2>2, <3>1, ShiftAtAll
    <3> QED
      BY <3>2 DEF f, g, InHand
  <2>5. Unbooked' = Unbooked - SumFunction(swept)
    <3> DEFINE f == accrued
               g == accrued'
    <3>1. /\ f \in [Strategies -> Uint] /\ g \in [Strategies -> Uint]
          /\ \A s \in Strategies : g[s] = f[s] - swept[s]
      BY <1>1, <2>3
    <3> HIDE DEF f, g
    <3>2. SumFunction(g) = SumFunction(f) - SumFunction(swept)
      BY <2>2, <3>1, ShiftAtAll
    <3> QED
      BY <3>2 DEF f, g, Unbooked
  <2>6. FeeOn(SumFunction(swept)) \in Nat
    BY <2>2, FeeWithinProfit
  <2>7. /\ idle' = idle + SumFunction(swept) - FeeOn(SumFunction(swept))
        /\ feeBalance' = feeBalance + FeeOn(SumFunction(swept))
        /\ totalAssets' = totalAssets + SumFunction(swept) - FeeOn(SumFunction(swept))
        /\ Out' = Out
    BY <2>1 DEF Harvest, Out
  <2> QED
    BY <2>2, <2>4, <2>5, <2>6, <2>7, Ledger, LedgerNext
<1>3. CASE \E s \in Strategies, swept \in Uint : HarvestStrategy(s, swept)
  <2>1. PICK s \in Strategies, swept \in Uint : HarvestStrategy(s, swept)
    BY <1>3
  <2>2. swept \in Nat /\ -swept \in Int
    BY VaultAssumption DEF Uint
  <2>3. /\ held' = [held EXCEPT ![s] = @ - swept]
        /\ accrued' = [accrued EXCEPT ![s] = @ - swept]
        /\ idle' = idle + swept /\ totalAssets' = totalAssets
        /\ feeBalance' = feeBalance /\ Out' = Out
    BY <2>1 DEF HarvestStrategy, books, Out
  <2>4. Shifted(held, held', -swept) /\ Shifted(accrued, accrued', -swept)
    <3>1. ASSUME NEW f \in [Strategies -> Uint], NEW g \in [Strategies -> Uint],
                 g = [f EXCEPT ![s] = @ - swept]
          PROVE  Shifted(f, g, -swept)
      <4>1. g[s] = f[s] + (-swept) /\ \A t \in Strategies \ {s} : g[t] = f[t]
        BY <2>2, <3>1, VaultAssumption DEF Uint
      <4> QED
        BY <2>2, <4>1, ShiftAtOne
    <3> QED
      BY <1>1, <2>3, <3>1
  <2> QED
    BY <2>2, <2>3, <2>4, Ledger, LedgerNext DEF Shifted, InHand, Unbooked
<1> QED
  BY <1>2, <1>3 DEF HarvestStep
(* An allocation sends exactly what it takes from idle, however often a    *)
(* strategy is listed.                                                     *)
LEMMA AllocateLedger ==
    ASSUME TypeOK, TypeOK', Allocate
    PROVE  Surplus' = Surplus /\ Money' = Money
<1> DEFINE reserve == (totalAssets * RESERVE_BPS) \div BPS
           n == Cardinality(ActiveSlots)
           per == (idle - reserve) \div n
           counts == [s \in Strategies |-> Cardinality({i \in ActiveSlots : strategyList[i] = s})]
           sent == [s \in Strategies |-> per * Cardinality(SlotsOf(s, Len(strategyList)))]
<1>1. /\ DOMAIN strategyList = 1..Len(strategyList) /\ Len(strategyList) \in Nat
      /\ \A i \in DOMAIN strategyList : strategyList[i] \in Strategies
  BY DEF TypeOK
<1>2. IsFiniteSet(ActiveSlots) /\ \A i \in ActiveSlots : strategyList[i] \in Strategies
  <2>1. IsFiniteSet(DOMAIN strategyList)
    BY <1>1, FS_Interval
  <2> QED
    BY <1>1, <2>1, FS_Subset DEF ActiveSlots
<1>3. /\ \A s \in Strategies : Cardinality({i \in ActiveSlots : strategyList[i] = s}) \in Nat
      /\ SumFunction(counts) = n
  BY <1>2, VaultAssumption, CountByValue
<1>4. \A s \in Strategies : SlotsOf(s, Len(strategyList)) = {i \in ActiveSlots : strategyList[i] = s}
  BY <1>1 DEF SlotsOf, ActiveSlots
<1>5. /\ n \in Nat \ {0} /\ idle > reserve /\ reserve \in Nat /\ idle \in Nat
      /\ held' = [s \in Strategies |-> held[s] + sent[s]]
      /\ idle' = idle - per * n
      /\ totalAssets' = totalAssets /\ feeBalance' = feeBalance
      /\ Out' = Out /\ Unbooked' = Unbooked
  <2>1. totalAssets \in Nat /\ idle \in Nat /\ RESERVE_BPS \in Nat /\ BPS \in Nat \ {0}
    BY VaultAssumption DEF TypeOK, Uint
  <2>2. totalAssets * RESERVE_BPS \in Nat
    BY <2>1, ProductType
  <2>3. reserve \in Nat
    BY <2>1, <2>2, FloorDivision
  <2> QED
    BY <2>1, <2>3, SlotCounts DEF Allocate, books, Out, Unbooked
<1>6. per \in Nat
  <2>1. idle - reserve \in Nat
    BY <1>5
  <2> HIDE DEF reserve, n
  <2> QED
    BY <1>5, <2>1, FloorDivision
<1>7. /\ counts \in [Strategies -> Int] /\ sent \in [Strategies -> Int]
      /\ \A s \in Strategies : sent[s] = per * counts[s]
  <2>1. ASSUME NEW s \in Strategies
        PROVE  counts[s] \in Nat /\ sent[s] = per * counts[s] /\ per * counts[s] \in Int
    <3>1. counts[s] \in Nat /\ sent[s] = per * counts[s]
      BY <1>3, <1>4
    <3> HIDE DEF counts, per, sent
    <3> QED
      BY <1>6, <3>1, ProductType
  <2>2. counts = [s \in Strategies |-> counts[s]] /\ sent = [s \in Strategies |-> sent[s]]
    OBVIOUS
  <2> HIDE DEF counts, per, sent
  <2> QED
    BY <2>1, <2>2
<1>8. SumFunction(sent) = per * n
  <2> HIDE DEF counts, per, sent, n
  <2> QED
    BY <1>3, <1>6, <1>7, VaultAssumption, SumScale
<1>9. InHand' = InHand + SumFunction(sent) /\ SumFunction(sent) \in Int
  <2> DEFINE f == held
             g == held'
  <2>1. /\ f \in [Strategies -> Int] /\ g \in [Strategies -> Int]
        /\ \A s \in Strategies : g[s] = f[s] + sent[s]
    <3>1. f \in [Strategies -> Int] /\ g \in [Strategies -> Int]
      BY VaultAssumption DEF TypeOK, Uint
    <3>2. \A s \in Strategies : g[s] = f[s] + sent[s]
      BY <1>5
    <3> QED
      BY <3>1, <3>2
  <2> HIDE DEF f, g, sent
  <2>2. SumFunction(g) = SumFunction(f) + SumFunction(sent) /\ SumFunction(sent) \in Int
    BY <1>7, <2>1, VaultAssumption, SumAdd, SumType
  <2> QED
    BY <2>2 DEF f, g, InHand
<1> HIDE DEF reserve, per, n, sent
<1> QED
  BY <1>5, <1>8, <1>9, Ledger, LedgerNext

LEMMA EmergencyLedger ==
    ASSUME TypeOK, TypeOK', EmergencyWithdraw
    PROVE  Surplus' = Surplus /\ Money' <= Money
<1>1. /\ idle' = 0 /\ totalAssets' = totalAssets - idle /\ feeBalance' = feeBalance
      /\ InHand' = InHand /\ Out' = Out /\ Unbooked' = Unbooked
  BY DEF EmergencyWithdraw, venues, InHand, Out, Unbooked
<1> QED
  BY <1>1, Ledger, LedgerNext

LEMMA CreditLedger ==
    ASSUME TypeOK, TypeOK', NEW amount \in Nat, CreditYield(amount)
    PROVE  Surplus' = Surplus - amount /\ Money' = Money
<1>1. /\ idle' = idle /\ totalAssets' = totalAssets + amount /\ feeBalance' = feeBalance
      /\ InHand' = InHand /\ Out' = Out /\ Unbooked' = Unbooked
  BY DEF CreditYield, venues, InHand, Out, Unbooked
<1> QED
  BY <1>1, Ledger, LedgerNext

LEMMA ReportLossLedger ==
    ASSUME TypeOK, TypeOK', NEW amount \in Nat, ReportLoss(amount)
    PROVE  Surplus' = Surplus + amount /\ Money' = Money
<1>1. /\ idle' = idle /\ totalAssets' = totalAssets - amount /\ feeBalance' = feeBalance
      /\ InHand' = InHand /\ Out' = Out /\ Unbooked' = Unbooked
  BY DEF ReportLoss, venues, InHand, Out, Unbooked
<1> QED
  BY <1>1, Ledger, LedgerNext

(* Principal that moves between a strategy and its venue, yield and losses *)
(* there, and money that arrives at the vault.                             *)
LEMMA StrategyLedger ==
    ASSUME TypeOK, TypeOK', NEW s \in Strategies, NEW amount \in Uint
    PROVE  /\ StrategyDeploy(s, amount) \/ StrategyReturn(s, amount) =>
                 Surplus' = Surplus /\ Money' = Money
           /\ AccrueYield(s, amount) => Surplus' = Surplus /\ Money' <= MaxUint
           /\ VenueLoss(s, amount) => Surplus' = Surplus - amount /\ Money' <= Money
<1>1. /\ {held, held', accrued, accrued', deployed, deployed'} \subseteq [Strategies -> Uint]
      /\ amount \in Nat /\ -amount \in Int
  <2>1. amount \in Nat /\ -amount \in Int
    BY VaultAssumption DEF Uint
  <2> QED
    BY <2>1 DEF TypeOK
<1>2. ASSUME NEW f \in [Strategies -> Uint], NEW g \in [Strategies -> Uint]
      PROVE  /\ g = [f EXCEPT ![s] = @ + amount] => Shifted(f, g, amount)
             /\ g = [f EXCEPT ![s] = @ - amount] => Shifted(f, g, -amount)
             /\ g = f => Shifted(f, g, 0)
  <2>1. ASSUME g = [f EXCEPT ![s] = @ + amount] PROVE Shifted(f, g, amount)
    <3>1. g[s] = f[s] + amount /\ \A t \in Strategies \ {s} : g[t] = f[t]
      BY <1>1, <2>1, VaultAssumption DEF Uint
    <3> QED
      BY <1>1, <3>1, ShiftAtOne
  <2>2. ASSUME g = [f EXCEPT ![s] = @ - amount] PROVE Shifted(f, g, -amount)
    <3>1. g[s] = f[s] + (-amount) /\ \A t \in Strategies \ {s} : g[t] = f[t]
      BY <1>1, <2>2, VaultAssumption DEF Uint
    <3> QED
      BY <1>1, <3>1, ShiftAtOne
  <2>3. ASSUME g = f PROVE Shifted(f, g, 0)
    <3>1. g[s] = f[s] + 0 /\ \A t \in Strategies \ {s} : g[t] = f[t]
      BY <1>1, <2>3, VaultAssumption DEF Uint
    <3> QED
      BY <3>1, ShiftAtOne
  <2> QED
    BY <2>1, <2>2, <2>3
<1>3. ASSUME StrategyDeploy(s, amount) PROVE Surplus' = Surplus /\ Money' = Money
  <2>1. Shifted(held, held', -amount) /\ Shifted(deployed, deployed', amount)
    BY <1>1, <1>2, <1>3 DEF StrategyDeploy
  <2>2. /\ idle' = idle /\ totalAssets' = totalAssets /\ feeBalance' = feeBalance
        /\ Unbooked' = Unbooked
    BY <1>3 DEF StrategyDeploy, books, Unbooked
  <2> QED
    BY <1>1, <2>1, <2>2, Ledger, LedgerNext DEF Shifted, InHand, Out
<1>4. ASSUME StrategyReturn(s, amount) PROVE Surplus' = Surplus /\ Money' = Money
  <2>1. Shifted(held, held', amount) /\ Shifted(deployed, deployed', -amount)
    BY <1>1, <1>2, <1>4 DEF StrategyReturn
  <2>2. /\ idle' = idle /\ totalAssets' = totalAssets /\ feeBalance' = feeBalance
        /\ Unbooked' = Unbooked
    BY <1>4 DEF StrategyReturn, books, Unbooked
  <2> QED
    BY <1>1, <2>1, <2>2, Ledger, LedgerNext DEF Shifted, InHand, Out
<1>5. ASSUME AccrueYield(s, amount) PROVE Surplus' = Surplus /\ Money' <= MaxUint
  <2>1. Shifted(held, held', amount) /\ Shifted(accrued, accrued', amount)
    BY <1>1, <1>2, <1>5 DEF AccrueYield
  <2>2. /\ idle' = idle /\ totalAssets' = totalAssets /\ feeBalance' = feeBalance
        /\ Out' = Out /\ Money + amount <= MaxUint
    BY <1>5 DEF AccrueYield, CanArrive, books, Out
  <2> QED
    BY <1>1, <2>1, <2>2, Ledger, LedgerNext DEF Shifted, InHand, Unbooked
<1>6. ASSUME VenueLoss(s, amount) PROVE Surplus' = Surplus - amount /\ Money' <= Money
  <2>1. Shifted(deployed, deployed', -amount)
    BY <1>1, <1>2, <1>6 DEF VenueLoss
  <2>2. /\ idle' = idle /\ totalAssets' = totalAssets /\ feeBalance' = feeBalance
        /\ InHand' = InHand /\ Unbooked' = Unbooked
    BY <1>6 DEF VenueLoss, books, InHand, Unbooked
  <2> QED
    BY <1>1, <2>1, <2>2, Ledger, LedgerNext DEF Shifted, Out
<1> QED
  BY <1>3, <1>4, <1>5, <1>6

LEMMA ArriveLedger ==
    ASSUME TypeOK, TypeOK', NEW amount \in Uint, Arrive(amount)
    PROVE  Surplus' = Surplus + amount /\ Money' <= MaxUint
<1>1. /\ idle' = idle + amount /\ totalAssets' = totalAssets /\ feeBalance' = feeBalance
      /\ InHand' = InHand /\ Out' = Out /\ Unbooked' = Unbooked
      /\ Money + amount <= MaxUint /\ amount \in Nat
  BY VaultAssumption DEF Arrive, CanArrive, books, venues, InHand, Out, Unbooked, Uint
<1> QED
  BY <1>1, Ledger, LedgerNext

LEMMA QuietLedger ==
    ASSUME ConfigStep \/ UNCHANGED vars
    PROVE  Surplus' = Surplus /\ Money' = Money
<1>1. UNCHANGED <<idle, feeBalance, totalAssets, held, deployed, accrued>>
  BY DEF ConfigStep, AddStrategy, SetStrategyActive, SetCaps, SetDepositsPaused,
     SetPerformanceFee, vars, books, venues
<1> QED
  BY <1>1 DEF Surplus, Money

(* No transaction lets the books run ahead of the money: recalls that come *)
(* up short, uneven allocations, partial sweeps and fee rounding included. *)
THEOREM BooksStayBehindMoney == Spec => BooksFollowMoney
<1>1. ASSUME TypeOK, Next
      PROVE  \/ Surplus' >= Surplus
             \/ \E s \in Strategies, amount \in Uint : VenueLoss(s, amount)
             \/ \E amount \in Uint : CreditYield(amount)
  <2>1. TypeOK' /\ Surplus \in Int
    <3>1. Surplus \in Int
      BY <1>1, Ledger
    <3> QED
      BY <1>1, <3>1, StepNumbers
  <2>2. CASE UserStep
    BY <1>1, <2>1, <2>2, UserStepLedger
  <2>3. CASE HarvestStep
    BY <1>1, <2>1, <2>3, HarvestStepLedger
  <2>4. CASE ConfigStep
    BY <2>1, <2>4, QuietLedger
  <2>5. CASE OwnerStep
    <3>1. ASSUME NEW amount \in Uint, ReportLoss(amount) PROVE Surplus' >= Surplus
      <4>1. amount \in Nat
        BY VaultAssumption DEF Uint
      <4> QED
        BY <1>1, <2>1, <3>1, <4>1, ReportLossLedger
    <3>2. Allocate \/ EmergencyWithdraw => Surplus' >= Surplus
      BY <1>1, <2>1, AllocateLedger, EmergencyLedger
    <3> QED
      BY <2>5, <3>1, <3>2 DEF OwnerStep
  <2>6. CASE VenueStep
    <3>1. ASSUME NEW amount \in Uint, Arrive(amount) PROVE Surplus' >= Surplus
      <4>1. amount \in Nat
        BY VaultAssumption DEF Uint
      <4> QED
        BY <1>1, <2>1, <3>1, <4>1, ArriveLedger
    <3>2. ASSUME NEW s \in Strategies, NEW amount \in Uint,
                 \/ StrategyDeploy(s, amount)
                 \/ StrategyReturn(s, amount)
                 \/ AccrueYield(s, amount)
          PROVE  Surplus' >= Surplus
      BY <1>1, <2>1, <3>2, StrategyLedger
    <3> QED
      BY <2>6, <3>1, <3>2 DEF VenueStep
  <2> QED
    BY <1>1, <2>2, <2>3, <2>4, <2>5, <2>6 DEF Next
<1>2. TypeOK /\ [Next]_vars =>
         [\/ Surplus' >= Surplus
          \/ \E s \in Strategies, amount \in Uint : VenueLoss(s, amount)
          \/ \E amount \in Uint : CreditYield(amount)]_vars
  BY <1>1
<1> QED
  BY <1>2, TypeCorrect, PTL DEF Spec, BooksFollowMoney
-----------------------------------------------------------------------------
(* The fee loop: the vault, the distributor and the recycling script.      *)

\* The script's variables of one run.
Locals == [boost : Uint, treasury : Uint, insurance : Uint,
           assetsBefore : Uint, attempts : 0..1, mined : BOOLEAN]

\* No amount overflows since no more underlying exists than MaxUint.
LoopInv == LoopTypeOK /\ Money <= MaxUint

LEMMA LoopTypes ==
    ASSUME LoopInv
    PROVE  /\ TypeOK /\ Money \in Nat /\ Money <= MaxUint /\ Surplus \in Int
           /\ {idle, feeBalance, totalAssets, totalFeesReceived, totalFeesRouted} \subseteq Nat
           /\ {feeBalance, totalAssets, totalFeesReceived} \subseteq Uint
           /\ at \in [Runs -> Places] /\ local \in [Runs -> Locals]
           /\ unreported \in 0..MaxGap /\ repeated \in 0..MaxGap
           /\ totalFeesRouted \in 0..MaxFees
           /\ MaxFees \in Nat /\ MaxGap \in Nat /\ MaxUint \in Nat
<1>1. /\ TypeOK /\ Money <= MaxUint /\ totalFeesReceived \in Uint /\ totalFeesRouted \in 0..MaxFees
      /\ at \in [Runs -> Places] /\ local \in [Runs -> Locals]
      /\ unreported \in 0..MaxGap /\ repeated \in 0..MaxGap
      /\ MaxFees \in Nat /\ MaxGap \in Nat /\ MaxUint \in Nat
  BY RecyclingAssumption, VaultAssumption DEF LoopInv, LoopTypeOK, Locals
<1>2. Money \in Nat /\ Surplus \in Int
  BY <1>1, Ledger
<1>3. totalFeesReceived \in Nat
  BY <1>1 DEF Uint
<1>4. {feeBalance, totalAssets} \subseteq Uint
  BY <1>1 DEF TypeOK
<1> QED
  BY <1>1, <1>2, <1>3, <1>4, Ledger

LEMMA LoopTypesNext ==
    LoopInv' => (Surplus \in Int /\ {feeBalance, totalAssets} \subseteq Nat)'
<1>1. LoopInv => Surplus \in Int /\ {feeBalance, totalAssets} \subseteq Nat
  BY LoopTypes
<1> QED
  BY <1>1, PTL

(* The transactions of the vault in the loop: none but the reported loss   *)
(* and the loss itself lets the books or the money grow apart, and none    *)
(* takes a fee away.                                                       *)
LEMMA VaultStepLedger ==
    ASSUME LoopInv, VaultStep
    PROVE  TypeOK' /\ Money' <= MaxUint /\ Surplus' >= Surplus /\ feeBalance' >= feeBalance
<1>1. TypeOK
  BY LoopTypes
<1>2. TypeOK'
  BY <1>1, UserStepType, HarvestStepType, OwnerStepType, VenueStepType
     DEF VaultStep, OwnerStep, VenueStep
<1>3. CASE UserStep
  <2>1. feeBalance' = feeBalance
    BY <1>3 DEF UserStep, Deposit, Withdraw, WithdrawUpTo, Redeem
  <2> QED
    BY <1>2, <1>3, <2>1, LoopTypes, UserStepLedger, LedgerNext
<1>4. CASE HarvestStep
  <2>1. ASSUME NEW swept \in [Strategies -> Uint], Harvest(swept)
        PROVE  feeBalance' >= feeBalance
    <3>1. SumFunction(swept) \in Nat /\ feeBalance' = feeBalance + FeeOn(SumFunction(swept))
      BY <2>1, VaultAssumption DEF Harvest, Uint
    <3> QED
      BY <3>1, LoopTypes, FeeWithinProfit
  <2>2. ASSUME NEW s \in Strategies, NEW swept \in Uint, HarvestStrategy(s, swept)
        PROVE  feeBalance' >= feeBalance
    BY <2>2, LoopTypes DEF HarvestStrategy
  <2>3. feeBalance' >= feeBalance
    BY <1>4, <2>1, <2>2 DEF HarvestStep
  <2> QED
    BY <1>2, <1>4, <2>3, LoopTypes, HarvestStepLedger, LedgerNext
<1>5. CASE Allocate
  <2>1. feeBalance' = feeBalance
    BY <1>5 DEF Allocate
  <2> QED
    BY <1>2, <1>5, <2>1, LoopTypes, AllocateLedger
<1>6. CASE EmergencyWithdraw
  <2>1. feeBalance' = feeBalance
    BY <1>6 DEF EmergencyWithdraw
  <2> QED
    BY <1>2, <1>6, <2>1, LoopTypes, EmergencyLedger, LedgerNext
<1>7. ASSUME NEW s \in Strategies, NEW amount \in Uint,
             StrategyDeploy(s, amount) \/ StrategyReturn(s, amount) \/ AccrueYield(s, amount)
      PROVE  Money' <= MaxUint /\ Surplus' >= Surplus /\ feeBalance' >= feeBalance
  <2>1. feeBalance' = feeBalance
    BY <1>7 DEF StrategyDeploy, StrategyReturn, AccrueYield
  <2> QED
    BY <1>2, <1>7, <2>1, LoopTypes, StrategyLedger
<1> QED
  BY <1>2, <1>3, <1>4, <1>5, <1>6, <1>7 DEF VaultStep

(* A route takes what the distributor has of the amount, and brings it to  *)
(* the vault or out of the system.                                         *)
LEMMA RouteLedger ==
    ASSUME LoopInv, NEW amount \in Nat, NEW toVault \in BOOLEAN, Route(amount, toVault)
    PROVE  /\ TypeOK' /\ Money' <= MaxUint /\ totalFeesRouted' \in 0..MaxFees
           /\ Routed(amount) \in Nat /\ (amount <= feeBalance => Routed(amount) = amount)
           /\ totalFeesRouted' + feeBalance' = totalFeesRouted + feeBalance
           /\ Surplus' = Surplus + (IF toVault THEN Routed(amount) ELSE 0)
           /\ totalFeesReceived' = totalFeesReceived
           /\ unreported' = unreported /\ repeated' = repeated
<1> DEFINE moved == Routed(amount)
           kept == IF toVault THEN moved ELSE 0
<1>1. /\ moved \in Nat /\ moved <= feeBalance /\ kept \in Nat /\ kept <= moved
      /\ (amount <= feeBalance => moved = amount)
  <2>1. feeBalance \in Nat
    BY LoopTypes
  <2> QED
    BY <2>1 DEF Routed, Lesser
<1>2. /\ feeBalance' = feeBalance - moved /\ idle' = idle + kept
      /\ totalFeesRouted' = totalFeesRouted + moved /\ totalFeesRouted + moved <= MaxFees
      /\ UNCHANGED <<books, config, venues, writtenDown, totalFeesReceived, history>>
  BY DEF Route
<1> HIDE DEF moved, kept
<1>3. idle' \in Uint /\ feeBalance' \in Uint
  BY <1>1, <1>2, LoopTypes, Ledger DEF Uint
<1>4. TypeOK'
  BY <1>2, <1>3, LoopTypes DEF TypeOK, books, config, venues
<1>5. /\ InHand' = InHand /\ Out' = Out /\ Unbooked' = Unbooked
      /\ totalAssets' = totalAssets /\ totalFeesReceived' = totalFeesReceived
      /\ unreported' = unreported /\ repeated' = repeated
  BY <1>2 DEF books, venues, history, InHand, Out, Unbooked
<1>6. Money' <= MaxUint /\ Surplus' = Surplus + kept
  BY <1>1, <1>2, <1>4, <1>5, LoopTypes, Ledger, LedgerNext
<1>7. totalFeesRouted' \in 0..MaxFees
  BY <1>1, <1>2, LoopTypes
<1>8. totalFeesRouted' + feeBalance' = totalFeesRouted + feeBalance
  BY <1>1, <1>2, LoopTypes
<1> QED
  BY <1>1, <1>4, <1>5, <1>6, <1>7, <1>8 DEF moved, kept

(* A credit, first or repeated, counts against the surplus; what is        *)
(* repeated is counted.                                                    *)
LEMMA CreditedLedger ==
    ASSUME LoopInv, NEW r \in Runs, Credited(r)
    PROVE  /\ TypeOK' /\ Money' <= MaxUint /\ repeated' \in 0..MaxGap
           /\ Surplus' = Surplus - local[r].boost
           /\ repeated' = repeated + (IF local[r].mined THEN local[r].boost ELSE 0)
           /\ feeBalance' = feeBalance
           /\ UNCHANGED <<distributor, unreported>>
<1>1. /\ local[r].boost \in Uint /\ local[r].boost \in Nat /\ TypeOK
  BY LoopTypes DEF Locals, Uint
<1>2. CreditYield(local[r].boost)
  BY DEF Credited
<1>3. TypeOK'
  BY <1>1, <1>2, OwnerStepType DEF OwnerStep
<1>4. Surplus' = Surplus - local[r].boost /\ Money' = Money
  BY <1>1, <1>2, <1>3, CreditLedger
<1>5. repeated' = repeated + (IF local[r].mined THEN local[r].boost ELSE 0) /\ repeated' <= MaxGap
  BY DEF Credited
<1> QED
  BY <1>1, <1>2, <1>3, <1>4, <1>5, LoopTypes DEF Credited, CreditYield

(* The script's own state keeps its type.                                  *)
LEMMA GotoType ==
    ASSUME LoopInv, NEW r \in Runs, NEW place \in Places, NEW l \in Locals, Goto(r, place, l)
    PROVE  at' \in [Runs -> Places] /\ local' \in [Runs -> Locals]
<1>1. Nothing \in Locals
  BY VaultAssumption DEF Nothing, Locals, Uint
<1> QED
  BY <1>1, LoopTypes DEF Goto

\* A change of some of a run's variables to values of their types.
LEMMA LocalsParts ==
    ASSUME NEW l \in Locals
    PROVE  l.boost \in Uint /\ l.mined \in BOOLEAN
  BY DEF Locals

LEMMA SliceType ==
    ASSUME LoopInv, NEW r \in Runs, NEW slice \in {"treasury", "insurance"}
    PROVE  local[r][slice] \in Nat
<1>1. local[r] \in Locals
  BY LoopTypes
<1>2. local[r].treasury \in Uint /\ local[r].insurance \in Uint
  BY <1>1 DEF Locals
<1> QED
  BY <1>2, VaultAssumption DEF Uint

LEMMA FailedLocals ==
    ASSUME NEW l \in Locals, NEW b \in Uint, NEW m \in BOOLEAN
    PROVE  [l EXCEPT !.boost = b, !.mined = m] \in Locals
  BY DEF Locals

LEMMA RetryLocals ==
    ASSUME NEW l \in Locals, NEW n \in 0..1, NEW m \in BOOLEAN
    PROVE  [l EXCEPT !.attempts = n, !.mined = m] \in Locals
  BY DEF Locals

LEMMA CreditedLocals ==
    ASSUME NEW l \in Locals, NEW z \in Uint, NEW n \in 0..1, NEW m \in BOOLEAN
    PROVE  [l EXCEPT !.boost = z, !.assetsBefore = z, !.attempts = n, !.mined = m] \in Locals
  BY DEF Locals

LEMMA SplitLocals ==
    ASSUME NEW l \in Locals, NEW b \in Uint, NEW t \in Uint, NEW i \in Uint
    PROVE  [l EXCEPT !.boost = b, !.treasury = t, !.insurance = i] \in Locals
  BY DEF Locals

LEMMA NothingType == Nothing \in Locals /\ 0 \in Uint
  BY VaultAssumption DEF Nothing, Locals, Uint

LEMMA AfterFailureType ==
    ASSUME LoopInv, NEW r \in Runs, NEW mined \in BOOLEAN, AfterFailure(r, mined)
    PROVE  at' \in [Runs -> Places] /\ local' \in [Runs -> Locals]
<1>1. local[r] \in Locals /\ Nothing \in Locals /\ 1 \in 0..1 /\ local[r].boost \in Uint
  BY LoopTypes, NothingType, LocalsParts
<1>2. CASE local[r].attempts >= 1
  <2> DEFINE l == [Nothing EXCEPT !.boost = local[r].boost, !.mined = mined]
  <2>1. l \in Locals /\ "failed" \in Places
    BY <1>1, FailedLocals DEF Places
  <2>2. Goto(r, "failed", l)
    BY <1>2 DEF AfterFailure
  <2> HIDE DEF l
  <2> QED
    BY <2>1, <2>2, GotoType
<1>3. CASE ~(local[r].attempts >= 1)
  <2> DEFINE l == [local[r] EXCEPT !.attempts = 1, !.mined = mined]
  <2>1. l \in Locals /\ "credit" \in Places
    BY <1>1, RetryLocals DEF Places
  <2>2. Goto(r, "credit", l)
    BY <1>3 DEF AfterFailure
  <2> HIDE DEF l
  <2> QED
    BY <2>1, <2>2, GotoType
<1> QED
  BY <1>2, <1>3

(* The three parts a balance is split into are amounts, and the boost is   *)
(* within the balance.                                                     *)
LEMMA SplitTypes ==
    ASSUME LoopInv
    PROVE  LET toBoost == (feeBalance * BoostPct) \div 100
               toTreasury == (feeBalance * TreasuryPct) \div 100
           IN  /\ toBoost \in Uint /\ toTreasury \in Uint
               /\ feeBalance - toBoost - toTreasury \in Uint
               /\ toBoost <= feeBalance
<1> DEFINE b == BoostPct
           t == TreasuryPct
           toBoost == (feeBalance * b) \div 100
           toTreasury == (feeBalance * t) \div 100
<1>1. /\ b \in Nat /\ t \in Nat /\ b + t <= 100 /\ feeBalance \in Nat /\ feeBalance <= MaxUint
      /\ MaxUint \in Nat
  BY LoopTypes, RecyclingAssumption DEF Uint
<1> HIDE DEF b, t
<1>2. feeBalance * b \in Nat /\ feeBalance * t \in Nat
  BY <1>1, ProductType
<1>3. /\ toBoost \in Nat /\ toBoost * 100 <= feeBalance * b
      /\ toTreasury \in Nat /\ toTreasury * 100 <= feeBalance * t
  BY <1>2, FloorDivision
<1>4. feeBalance * b + feeBalance * t <= feeBalance * 100
  <2>1. (b + t) * feeBalance <= 100 * feeBalance
    BY <1>1, ProductMonotone
  <2>2. feeBalance * b + feeBalance * t = (b + t) * feeBalance /\ 100 * feeBalance = feeBalance * 100
    BY <1>1, SMT
  <2> QED
    BY <2>1, <2>2
<1> HIDE DEF toBoost, toTreasury
<1>5. toBoost + toTreasury <= feeBalance
  BY <1>1, <1>2, <1>3, <1>4
<1>6. /\ toBoost \in Uint /\ toTreasury \in Uint
      /\ feeBalance - toBoost - toTreasury \in Uint
      /\ toBoost <= feeBalance
  BY <1>1, <1>3, <1>5 DEF Uint
<1> QED
  BY <1>6 DEF toBoost, toTreasury, b, t

LEMMA ReadSplitType ==
    ASSUME LoopInv, NEW r \in Runs, ReadSplit(r)
    PROVE  /\ at' \in [Runs -> Places] /\ local' \in [Runs -> Locals]
           /\ at'[r] = "route" => local'[r].boost <= feeBalance
           /\ at'[r] \in {"start", "route", "treasury"}
<1> DEFINE toBoost == (feeBalance * BoostPct) \div 100
           toTreasury == (feeBalance * TreasuryPct) \div 100
           l == [Nothing EXCEPT !.boost = toBoost, !.treasury = toTreasury,
                                !.insurance = feeBalance - toBoost - toTreasury]
           place == IF feeBalance < MinAmount THEN "start"
                    ELSE IF toBoost > 0 THEN "route" ELSE "treasury"
<1>1. /\ toBoost \in Uint /\ toTreasury \in Uint
      /\ feeBalance - toBoost - toTreasury \in Uint
      /\ toBoost <= feeBalance
  BY SplitTypes
<1>2. Goto(r, place, l)
  BY DEF ReadSplit
<1>3. place \in Places /\ place \in {"start", "route", "treasury"}
  BY DEF Places
<1>4. l \in Locals /\ l.boost = toBoost
  <2> DEFINE rest == feeBalance - toBoost - toTreasury
  <2>1. rest \in Uint
    BY <1>1
  <2> HIDE DEF toBoost, toTreasury, rest
  <2>2. [Nothing EXCEPT !.boost = toBoost, !.treasury = toTreasury, !.insurance = rest] \in Locals
    BY <1>1, <2>1, NothingType, SplitLocals
  <2>3. [Nothing EXCEPT !.boost = toBoost, !.treasury = toTreasury, !.insurance = rest].boost
           = toBoost
    BY DEF Nothing
  <2> QED
    BY <2>2, <2>3 DEF rest
<1> HIDE DEF l, place, toBoost, toTreasury
<1>5. at'[r] = place /\ (place # "start" => local'[r] = l)
  BY <1>2, LoopTypes DEF Goto
<1> QED
  BY <1>1, <1>2, <1>3, <1>4, <1>5, GotoType

(* Every step of the loop keeps the types and the money within MaxUint.    *)
LEMMA LoopStepType == ASSUME LoopInv, [LoopNext]_loopVars PROVE LoopInv'
<1>1. ASSUME TypeOK', Money' <= MaxUint,
             totalFeesReceived' \in Uint, totalFeesRouted' \in 0..MaxFees,
             at' \in [Runs -> Places], local' \in [Runs -> Locals],
             {unreported', repeated'} \subseteq 0..MaxGap
      PROVE  LoopInv'
  BY <1>1 DEF LoopInv, LoopTypeOK, Locals
<1>2. /\ UNCHANGED vars => TypeOK' /\ Money' <= MaxUint
      /\ UNCHANGED distributor =>
            totalFeesReceived' \in Uint /\ totalFeesRouted' \in 0..MaxFees
      /\ UNCHANGED script => at' \in [Runs -> Places] /\ local' \in [Runs -> Locals]
      /\ UNCHANGED history => {unreported', repeated'} \subseteq 0..MaxGap
  BY LoopTypes, StutterType, QuietLedger DEF distributor, script, history
<1>3. /\ Nothing \in Locals /\ \A r \in Runs : local[r] \in Locals
      /\ 0 \in Uint /\ {"start", "read", "credit", "treasury", "insurance"} \subseteq Places
  BY LoopTypes, VaultAssumption DEF Nothing, Locals, Uint, Places
<1>4. ASSUME NEW r \in Runs, Reconcile(r) PROVE LoopInv'
  <2>1. totalFeesReceived' \in Uint /\ totalFeesRouted' \in 0..MaxFees
    BY <1>4, LoopTypes DEF Reconcile, ReceiveFees
  <2>2. at' \in [Runs -> Places] /\ local' \in [Runs -> Locals]
    BY <1>3, <1>4, GotoType DEF Reconcile
  <2> QED
    BY <1>1, <1>2, <1>4, <2>1, <2>2 DEF Reconcile
<1>5. ASSUME NEW r \in Runs, ReadSplit(r) PROVE LoopInv'
  BY <1>1, <1>2, <1>5, ReadSplitType DEF ReadSplit
<1>6. ASSUME NEW r \in Runs, RouteBoost(r) PROVE LoopInv'
  <2> DEFINE l == [local[r] EXCEPT !.assetsBefore = totalAssets]
  <2>1. l \in Locals /\ local[r].boost \in Nat
    BY <1>3, LoopTypes DEF Locals, Uint
  <2>2. Goto(r, "credit", l)
    BY <1>6 DEF RouteBoost
  <2> HIDE DEF l
  <2>3. at' \in [Runs -> Places] /\ local' \in [Runs -> Locals]
    BY <1>3, <2>1, <2>2, GotoType
  <2> QED
    BY <1>1, <1>6, <2>1, <2>3, RouteLedger, LoopTypes DEF RouteBoost
<1>7. ASSUME NEW r \in Runs, CreditBoost(r) PROVE LoopInv'
  <2> DEFINE l == [local[r] EXCEPT !.boost = 0, !.assetsBefore = 0, !.attempts = 0, !.mined = FALSE]
             place == IF totalAssets' - local[r].assetsBefore = local[r].boost
                      THEN "treasury" ELSE "start"
  <2>1. l \in Locals /\ place \in Places
    <3>1. local[r] \in Locals /\ 0 \in Uint /\ 0 \in 0..1 /\ FALSE \in BOOLEAN
      BY <1>3
    <3>2. l \in Locals
      BY <3>1, CreditedLocals
    <3> QED
      BY <1>3, <3>2
  <2>2. Goto(r, place, l)
    BY <1>7 DEF CreditBoost
  <2> HIDE DEF l, place
  <2>3. at' \in [Runs -> Places] /\ local' \in [Runs -> Locals]
    BY <2>1, <2>2, GotoType
  <2> QED
    BY <1>1, <1>2, <1>7, <2>3, CreditedLedger, LoopTypes DEF CreditBoost
<1>8. ASSUME NEW r \in Runs, CreditFails(r) PROVE LoopInv'
  <2>1. local[r].mined \in BOOLEAN
    BY <1>3 DEF Locals
  <2> QED
    BY <1>1, <1>2, <1>8, <2>1, AfterFailureType DEF CreditFails
<1>9. ASSUME NEW r \in Runs, CreditReceiptLost(r) PROVE LoopInv'
  BY <1>1, <1>2, <1>9, CreditedLedger, AfterFailureType, LoopTypes DEF CreditReceiptLost
<1>10. ASSUME NEW r \in Runs, RecoverCredit(r) PROVE LoopInv'
  BY <1>1, <1>2, <1>3, <1>10, CreditedLedger, GotoType, LoopTypes DEF RecoverCredit
<1>11. ASSUME NEW r \in Runs, NEW slice \in {"treasury", "insurance"}, RouteSlice(r, slice)
       PROVE  LoopInv'
  <2> DEFINE l == [local[r] EXCEPT !.treasury = 0]
             place == IF slice = "treasury" THEN "insurance" ELSE "start"
  <2>1. l \in Locals /\ place \in Places /\ local[r][slice] \in Nat
    <3>1. l \in Locals /\ place \in Places
      BY <1>3 DEF Locals
    <3>2. local[r].treasury \in Nat /\ local[r].insurance \in Nat
      BY <1>3, VaultAssumption DEF Locals, Uint
    <3> QED
      BY <3>1, <3>2
  <2>2. Goto(r, place, l)
    BY <1>11 DEF RouteSlice
  <2> HIDE DEF l, place
  <2>3. at' \in [Runs -> Places] /\ local' \in [Runs -> Locals]
    BY <2>1, <2>2, GotoType
  <2>4. CASE Route(local[r][slice], FALSE)
    <3> DEFINE a == local[r][slice]
    <3>1. a \in Nat /\ Route(a, FALSE)
      BY <2>1, <2>4
    <3> HIDE DEF a
    <3> QED
      BY <1>1, <2>3, <3>1, RouteLedger, LoopTypes
  <2>5. CASE UNCHANGED <<vars, distributor, history>>
    BY <1>1, <1>2, <2>3, <2>5
  <2> QED
    BY <1>11, <2>4, <2>5 DEF RouteSlice
<1>12. ASSUME NEW r \in Runs, Abort(r) PROVE LoopInv'
  BY <1>1, <1>2, <1>3, <1>12, GotoType DEF Abort
<1>13. CASE OwnerRoute
  <2>1. PICK amount \in Uint, toVault \in BOOLEAN : Route(amount, toVault)
    BY <1>13 DEF OwnerRoute
  <2>2. amount \in Nat
    BY VaultAssumption DEF Uint
  <2> QED
    BY <1>1, <1>2, <1>13, <2>1, <2>2, RouteLedger, LoopTypes DEF OwnerRoute
<1>14. CASE VaultStep /\ UNCHANGED <<distributor, script>>
  BY <1>1, <1>2, <1>14, VaultStepLedger DEF VaultStep
<1>15. CASE LoseAtVenue /\ UNCHANGED <<distributor, script>>
  <2>1. PICK s \in Strategies, amount \in Uint :
           VenueLoss(s, amount) /\ unreported + amount <= MaxGap
           /\ unreported' = unreported + amount /\ UNCHANGED repeated
    BY <1>15 DEF LoseAtVenue
  <2>2. TypeOK'
    BY <2>1, LoopTypes, VenueStepType DEF VenueStep
  <2>3. Money' <= MaxUint
    BY <2>1, <2>2, LoopTypes, StrategyLedger, LedgerNext
  <2>4. {unreported', repeated'} \subseteq 0..MaxGap
    BY <2>1, LoopTypes, VaultAssumption DEF Uint
  <2> QED
    BY <1>1, <1>2, <1>15, <2>2, <2>3, <2>4
<1>16. CASE ReportMeasuredLoss /\ UNCHANGED <<distributor, script>>
  <2>1. PICK amount \in 1..unreported :
           ReportLoss(amount) /\ unreported' = unreported - amount /\ UNCHANGED repeated
    BY <1>16 DEF ReportMeasuredLoss
  <2>2. amount \in Nat /\ amount <= totalAssets
    BY <2>1, LoopTypes DEF ReportLoss
  <2>3. TypeOK'
    <3>1. amount \in Uint
      BY <2>2, LoopTypes DEF Uint
    <3> QED
      BY <2>1, <3>1, LoopTypes, OwnerStepType DEF OwnerStep
  <2>4. Money' <= MaxUint
    BY <2>1, <2>2, <2>3, LoopTypes, ReportLossLedger
  <2>5. {unreported', repeated'} \subseteq 0..MaxGap
    BY <2>1, LoopTypes
  <2> QED
    BY <1>1, <1>2, <1>16, <2>3, <2>4, <2>5
<1>17. CASE UNCHANGED loopVars
  BY <1>1, <1>2, <1>17 DEF loopVars
<1> QED
  BY <1>4, <1>5, <1>6, <1>7, <1>8, <1>9, <1>10, <1>11, <1>12, <1>13, <1>14, <1>15, <1>16, <1>17
     DEF LoopNext, RunStep

LEMMA LoopStarts == LoopInit => LoopInv
<1> SUFFICES ASSUME LoopInit PROVE LoopInv
  OBVIOUS
<1>1. strategyList \in Seq(Strategies) /\ Len(strategyList) <= MaxList
  <2> DEFINE n == Cardinality(Strategies)
             Injections == {f \in [1..n -> Strategies] : IsInjective(f)}
  <2>1. n \in Nat /\ ExistsBijection(1..n, Strategies) /\ n <= MaxList /\ MaxList \in Nat
    BY FS_CardinalityType, VaultAssumption, RecyclingAssumption
  <2>2. PICK f \in [1..n -> Strategies] : IsInjective(f)
    BY <2>1 DEF ExistsBijection, Bijection, Injection
  <2>3. SetToSeq(Strategies) \in [1..n -> Strategies]
    BY <2>2, Zenon DEF SetToSeq
  <2>4. strategyList \in [1..n -> Strategies]
    BY <2>3 DEF LoopInit
  <2> HIDE DEF n
  <2> QED
    BY <2>1, <2>4
<1>2. Nothing \in Locals /\ 0 \in Uint
  BY NothingType
<1>3. TypeOK
  BY <1>1, <1>2 DEF LoopInit, TypeOK
<1>4. Money <= MaxUint
  <2> DEFINE none == [s \in Strategies |-> held[s] + deployed[s]]
  <2>1. none \in [Strategies -> Int] /\ \A s \in Strategies : none[s] = 0
    BY DEF LoopInit
  <2> HIDE DEF none
  <2>2. SumFunction(none) = 0
    BY <2>1, SumZero, VaultAssumption
  <2>3. Money = idle + feeBalance + SumFunction(none)
    BY DEF Money, none
  <2> QED
    BY <2>2, <2>3, VaultAssumption DEF LoopInit
<1>5. at \in [Runs -> Places] /\ local \in [Runs -> Locals]
  BY <1>2 DEF LoopInit, Places
<1>6. totalFeesReceived \in Uint /\ totalFeesRouted \in 0..MaxFees /\ {unreported, repeated} \subseteq 0..MaxGap
  BY <1>2, RecyclingAssumption DEF LoopInit
<1> QED
  BY <1>3, <1>4, <1>5, <1>6 DEF LoopInv, LoopTypeOK, Locals

(* The types hold at every moment of the loop, for any number of runs, and *)
(* no amount overflows.                                                    *)
THEOREM LoopTypesHold == LoopSpec => []LoopTypeOK
<1>1. LoopInv => LoopTypeOK
  BY DEF LoopInv
<1> QED
  BY <1>1, LoopStarts, LoopStepType, PTL DEF LoopSpec

(* What was received stays within what has come in: a fee leaves the       *)
(* distributor only by a route, which counts it, and a reconciliation      *)
(* takes over no more than the balance.                                    *)
THEOREM ReceivedIsNeverOverstated == LoopSpec => []ReceivedNeverOverstates
<1> DEFINE I == LoopInv /\ ReceivedNeverOverstates
<1>1. LoopInit => I
  BY LoopStarts DEF LoopInit, ReceivedNeverOverstates
<1>2. ASSUME I, [LoopNext]_loopVars PROVE I'
  <2>1. LoopInv' /\ LoopInv
    BY <1>2, LoopStepType
  <2>2. /\ totalFeesReceived \in Nat /\ totalFeesRouted \in Nat /\ feeBalance \in Nat
        /\ totalFeesReceived <= totalFeesRouted + feeBalance
    BY <1>2, LoopTypes DEF ReceivedNeverOverstates
  <2>3. feeBalance' \in Nat
    BY <2>1, LoopTypesNext
  <2>4. ASSUME UNCHANGED distributor, feeBalance' >= feeBalance PROVE ReceivedNeverOverstates'
    <3>1. totalFeesReceived' = totalFeesReceived /\ totalFeesRouted' = totalFeesRouted
      BY <2>4 DEF distributor
    <3>2. feeBalance' >= feeBalance
      BY <2>4
    <3> DEFINE before == feeBalance
               after  == feeBalance'
    <3>3. /\ before \in Nat /\ after \in Nat /\ after >= before
          /\ totalFeesReceived <= totalFeesRouted + before
      BY <2>2, <2>3, <3>2
    <3> HIDE DEF before, after
    <3>4. totalFeesReceived <= totalFeesRouted + after
      BY <2>2, <3>3
    <3>5. totalFeesReceived <= totalFeesRouted + feeBalance'
      BY <3>4 DEF after
    <3> QED
      BY <3>1, <3>5 DEF ReceivedNeverOverstates
  <2>5. ASSUME NEW amount \in Nat, NEW toVault \in BOOLEAN, Route(amount, toVault)
        PROVE  ReceivedNeverOverstates'
    BY <2>1, <2>2, <2>5, RouteLedger DEF ReceivedNeverOverstates
  <2>6. ASSUME NEW r \in Runs, Reconcile(r) PROVE ReceivedNeverOverstates'
    BY <2>2, <2>6 DEF Reconcile, ReceiveFees, ReceivedNeverOverstates, vars
  <2>7. ASSUME NEW r \in Runs, ReadSplit(r) \/ CreditFails(r) \/ Abort(r)
        PROVE  ReceivedNeverOverstates'
    BY <2>2, <2>4, <2>7 DEF ReadSplit, CreditFails, Abort, vars
  <2>8. ASSUME NEW r \in Runs, RouteBoost(r) PROVE ReceivedNeverOverstates'
    <3>1. local[r].boost \in Nat
      BY <2>1, LoopTypes, LocalsParts DEF Uint
    <3> QED
      BY <2>5, <2>8, <3>1 DEF RouteBoost
  <2>9. ASSUME NEW r \in Runs, CreditBoost(r) \/ CreditReceiptLost(r) \/ RecoverCredit(r)
        PROVE  ReceivedNeverOverstates'
    <3>1. Credited(r)
      BY <2>9 DEF CreditBoost, CreditReceiptLost, RecoverCredit
    <3> QED
      BY <2>1, <2>2, <2>4, <3>1, CreditedLedger
  <2>10. ASSUME NEW r \in Runs, NEW slice \in {"treasury", "insurance"}, RouteSlice(r, slice)
         PROVE  ReceivedNeverOverstates'
    <3>1. local[r][slice] \in Nat
      BY <2>1, SliceType
    <3> DEFINE a == local[r][slice]
    <3>2. Route(a, FALSE) \/ UNCHANGED <<vars, distributor>>
      BY <2>10 DEF RouteSlice
    <3>3. a \in Nat
      BY <3>1
    <3> HIDE DEF a
    <3>4. CASE Route(a, FALSE)
      BY <2>5, <3>3, <3>4
    <3>5. CASE UNCHANGED <<vars, distributor>>
      BY <2>2, <2>4, <3>5 DEF vars
    <3> QED
      BY <3>2, <3>4, <3>5
  <2>11. CASE OwnerRoute
    <3>1. \A amount \in Uint : amount \in Nat
      BY VaultAssumption DEF Uint
    <3> QED
      BY <2>1, <2>5, <2>11, <3>1 DEF OwnerRoute
  <2>12. CASE VaultStep /\ UNCHANGED <<distributor, script>>
    BY <2>1, <2>2, <2>4, <2>12, VaultStepLedger
  <2>13. CASE (LoseAtVenue \/ ReportMeasuredLoss) /\ UNCHANGED <<distributor, script>>
    BY <2>1, <2>2, <2>4, <2>13 DEF LoseAtVenue, VenueLoss, ReportMeasuredLoss, ReportLoss
  <2>14. CASE UNCHANGED loopVars
    BY <2>1, <2>2, <2>4, <2>14 DEF loopVars, vars
  <2> QED
    BY <1>2, <2>1, <2>6, <2>7, <2>8, <2>9, <2>10, <2>11, <2>12, <2>13, <2>14
       DEF LoopNext, RunStep
<1>3. I => ReceivedNeverOverstates
  OBVIOUS
<1> QED
  BY <1>1, <1>2, <1>3, PTL DEF LoopSpec

-----------------------------------------------------------------------------
(* Credits are funded.                                                     *)

\* Nothing starts a second run beside the first.
OneRun == \A q, r \in Runs : q = r

\* What the run still has to credit, or left to the owner to credit.
Owed == [r \in Runs |-> IF at[r] \in {"credit", "failed"} /\ ~local[r].mined
                        THEN local[r].boost ELSE 0]

\* The boost a run is about to route is still there: none but a run or, when
\* no run is under way, the owner takes fees away.
BoostIsThere == \A r \in Runs : at[r] = "route" => local[r].boost <= feeBalance

FundedInv == LoopInv /\ CreditIsFunded /\ BoostIsThere

LEMMA OwedType == LoopInv => Owed \in [Runs -> Nat] /\ SumFunction(Owed) \in Nat
<1> SUFFICES ASSUME LoopInv PROVE Owed \in [Runs -> Nat] /\ SumFunction(Owed) \in Nat
  OBVIOUS
<1>1. \A r \in Runs : local[r].boost \in Nat
  BY LoopTypes, LocalsParts, VaultAssumption DEF Uint
<1>2. Owed \in [Runs -> Nat]
  BY <1>1 DEF Owed
<1> QED
  BY <1>2, SumNatural, RecyclingAssumption

LEMMA OwedTypeNext == LoopInv' => (Owed \in [Runs -> Nat] /\ SumFunction(Owed) \in Nat)'
  BY OwedType, PTL

\* What covers it: the surplus, the losses still to be reported, and what
\* was credited twice.
Cover == Surplus + unreported + repeated

LEMMA CoverType == LoopInv => Cover \in Int
  BY LoopTypes DEF Cover

LEMMA CoverTypeNext == LoopInv' => Cover' \in Int
<1>1. LoopInv' => (Cover \in Int)'
  BY CoverType, PTL
<1> QED
  BY <1>1

LEMMA FundedBy == CreditIsFunded <=> Cover >= SumFunction(Owed)
  BY Zenon DEF CreditIsFunded, Owed, Cover

LEMMA FundedByNext == CreditIsFunded' <=> Cover' >= SumFunction(Owed')
  BY Zenon DEF CreditIsFunded, Owed, Cover

(* A step of one run changes what is owed by that run alone.               *)
LEMMA OwedStep ==
    ASSUME LoopInv, LoopInv', NEW r \in Runs, NEW place, NEW l, Goto(r, place, l)
    PROVE  /\ SumFunction(Owed') = SumFunction(Owed) + (Owed'[r] - Owed[r])
           /\ at'[r] = place /\ local'[r] = (IF place = "start" THEN Nothing ELSE l)
           /\ Owed[r] \in Nat /\ Owed'[r] \in Nat
           /\ SumFunction(Owed) \in Nat /\ SumFunction(Owed') \in Nat
<1>1. /\ at'[r] = place /\ local'[r] = (IF place = "start" THEN Nothing ELSE l)
      /\ \A q \in Runs \ {r} : at'[q] = at[q] /\ local'[q] = local[q]
  BY LoopTypes DEF Goto
<1> DEFINE f == Owed
           g == Owed'
<1>2. /\ f \in [Runs -> Nat] /\ g \in [Runs -> Nat]
      /\ SumFunction(f) \in Nat /\ SumFunction(g) \in Nat
  BY OwedType, OwedTypeNext
<1>3. \A q \in Runs \ {r} : g[q] = f[q]
  BY <1>1 DEF Owed
<1> HIDE DEF f, g
<1>4. f \in [Runs -> Int] /\ g \in [Runs -> Int] /\ f[r] \in Nat /\ g[r] \in Nat
  BY <1>2
<1>5. SumFunction(g) = SumFunction(f) + (g[r] - f[r])
  BY <1>3, <1>4, SumChange, RecyclingAssumption
<1> QED
  BY <1>1, <1>2, <1>4, <1>5 DEF f, g

\* What a run owes after a step, by the place it goes on at.
LEMMA OwedThere ==
    ASSUME NEW r \in Runs
    PROVE  /\ at[r] \notin {"credit", "failed"} => Owed[r] = 0
           /\ at[r] \in {"credit", "failed"} =>
                 Owed[r] = (IF local[r].mined THEN 0 ELSE local[r].boost)
  BY DEF Owed

LEMMA OwedThereNext ==
    ASSUME NEW r \in Runs
    PROVE  /\ at'[r] \notin {"credit", "failed"} => Owed'[r] = 0
           /\ at'[r] \in {"credit", "failed"} =>
                 Owed'[r] = (IF local'[r].mined THEN 0 ELSE local'[r].boost)
  BY DEF Owed

(* A step of one run keeps the credits funded when the surplus and what is *)
(* counted make up for the change of what that run owes.                   *)
LEMMA StepFunded ==
    ASSUME FundedInv, LoopInv', NEW r \in Runs, NEW place, NEW l, Goto(r, place, l),
           Cover' - Owed'[r] >= Cover - Owed[r]
    PROVE  CreditIsFunded'
<1>1. LoopInv /\ Cover >= SumFunction(Owed)
  BY FundedBy DEF FundedInv
<1>2. /\ SumFunction(Owed') = SumFunction(Owed) + (Owed'[r] - Owed[r])
      /\ Owed[r] \in Nat /\ Owed'[r] \in Nat
      /\ SumFunction(Owed) \in Nat /\ SumFunction(Owed') \in Nat
  BY <1>1, OwedStep
<1> DEFINE h == Cover
           k == Cover'
<1>3. h \in Int /\ k \in Int
  BY <1>1, CoverType, CoverTypeNext
<1>4. h >= SumFunction(Owed) /\ k - Owed'[r] >= h - Owed[r]
  BY <1>1
<1> HIDE DEF h, k
<1>5. k >= SumFunction(Owed')
  BY <1>2, <1>3, <1>4
<1> QED
  BY <1>5, FundedByNext DEF k

(* Anything that leaves the runs where they are.                           *)
LEMMA QuietFunded ==
    ASSUME FundedInv, LoopInv', UNCHANGED script, Cover' >= Cover
    PROVE  CreditIsFunded'
<1>1. LoopInv /\ Cover >= SumFunction(Owed)
  BY FundedBy DEF FundedInv
<1>2. SumFunction(Owed') = SumFunction(Owed) /\ SumFunction(Owed) \in Nat
  <2>1. Owed' = Owed
    BY DEF script, Owed
  <2> QED
    BY <1>1, <2>1, OwedType
<1> DEFINE h == Cover
           k == Cover'
<1>3. h \in Int /\ k \in Int
  BY <1>1, CoverType, CoverTypeNext
<1>4. h >= SumFunction(Owed) /\ k >= h
  BY <1>1
<1> HIDE DEF h, k
<1>5. k >= SumFunction(Owed')
  BY <1>2, <1>3, <1>4
<1> QED
  BY <1>5, FundedByNext DEF k

(* A credit is paid from what the run owes, or it is a repetition.         *)
LEMMA CreditFunded ==
    ASSUME FundedInv, LoopInv', NEW r \in Runs, NEW place, NEW l, Goto(r, place, l),
           at[r] \in {"credit", "failed"}, Credited(r), Owed'[r] = 0
    PROVE  CreditIsFunded'
<1>1. LoopInv
  BY DEF FundedInv
<1>2. /\ Surplus' = Surplus - local[r].boost /\ unreported' = unreported
      /\ repeated' = repeated + (IF local[r].mined THEN local[r].boost ELSE 0)
  BY <1>1, CreditedLedger
<1>3. Owed[r] = (IF local[r].mined THEN 0 ELSE local[r].boost)
  BY OwedThere
<1>4. local[r].boost \in Nat /\ Surplus \in Int /\ unreported \in Nat /\ repeated \in Nat
  BY <1>1, LoopTypes, LocalsParts DEF Uint
<1>5. Cover' - Owed'[r] >= Cover - Owed[r]
  <2>1. CASE local[r].mined
    BY <1>2, <1>3, <1>4, <2>1 DEF Cover
  <2>2. CASE ~local[r].mined
    BY <1>2, <1>3, <1>4, <2>2 DEF Cover
  <2> QED
    BY <2>1, <2>2
<1> QED
  BY <1>5, StepFunded

(* Between a failed try and the next, what a run owes stays.               *)
LEMMA AfterFailureOwes ==
    ASSUME LoopInv, NEW r \in Runs, NEW mined \in BOOLEAN, AfterFailure(r, mined)
    PROVE  /\ \E place, l : Goto(r, place, l)
           /\ at'[r] \in {"credit", "failed"}
           /\ local'[r].boost = local[r].boost /\ local'[r].mined = mined
<1>1. local[r] \in Locals /\ Nothing \in Locals
  BY LoopTypes, NothingType
<1>2. CASE local[r].attempts >= 1
  <2> DEFINE l == [Nothing EXCEPT !.boost = local[r].boost, !.mined = mined]
  <2>1. l.boost = local[r].boost /\ l.mined = mined
    BY DEF Nothing
  <2>2. Goto(r, "failed", l)
    BY <1>2 DEF AfterFailure
  <2> HIDE DEF l
  <2> QED
    BY <2>1, <2>2, LoopTypes DEF Goto
<1>3. CASE ~(local[r].attempts >= 1)
  <2> DEFINE l == [local[r] EXCEPT !.attempts = 1, !.mined = mined]
  <2>1. l.boost = local[r].boost /\ l.mined = mined
    BY <1>1 DEF Locals
  <2>2. Goto(r, "credit", l)
    BY <1>3 DEF AfterFailure
  <2> HIDE DEF l
  <2> QED
    BY <2>1, <2>2, LoopTypes DEF Goto
<1> QED
  BY <1>2, <1>3

LEMMA RunStepFunded ==
    ASSUME FundedInv, LoopInv', RunStep
    PROVE  CreditIsFunded'
<1>1. LoopInv
  BY DEF FundedInv
<1>2. ASSUME UNCHANGED <<vars, history>> PROVE Cover' = Cover
  <2>1. Surplus' = Surplus
    BY <1>2, QuietLedger
  <2> QED
    BY <1>2, <2>1 DEF Cover, history
<1>3. ASSUME NEW r \in Runs, NEW place, NEW l, Goto(r, place, l), Owed'[r] <= Owed[r],
             Cover' >= Cover
      PROVE  CreditIsFunded'
  <2>1. Owed[r] \in Nat /\ Owed'[r] \in Nat /\ Cover \in Int /\ Cover' \in Int
    BY <1>1, <1>3, OwedStep, CoverType, CoverTypeNext
  <2>2. Cover' - Owed'[r] >= Cover - Owed[r]
    BY <1>3, <2>1
  <2> QED
    BY <1>3, <2>2, StepFunded
<1>4. \A r \in Runs : Owed[r] \in Nat /\ local[r].boost \in Nat
  BY <1>1, OwedType, LoopTypes, LocalsParts, VaultAssumption DEF Uint
<1>5. ASSUME NEW r \in Runs, NEW place, NEW l, Goto(r, place, l),
             place \notin {"credit", "failed"}
      PROVE  Owed'[r] = 0
  BY <1>1, <1>5, OwedStep, OwedThereNext
<1>6. ASSUME NEW r \in Runs, Reconcile(r) PROVE CreditIsFunded'
  <2>1. Goto(r, "read", Nothing) /\ Owed'[r] = 0
    BY <1>5, <1>6 DEF Reconcile
  <2>2. Cover' >= Cover
    BY <1>1, <1>2, <1>6, CoverType DEF Reconcile
  <2> QED
    BY <1>3, <1>4, <2>1, <2>2
<1>7. ASSUME NEW r \in Runs, ReadSplit(r) PROVE CreditIsFunded'
  <2>1. PICK place, l : Goto(r, place, l)
    BY <1>7 DEF ReadSplit
  <2>2. Owed'[r] = 0
    BY <1>1, <1>7, ReadSplitType, OwedThereNext
  <2>3. Cover' >= Cover
    BY <1>1, <1>2, <1>7, CoverType DEF ReadSplit
  <2> QED
    BY <1>3, <1>4, <2>1, <2>2, <2>3
<1>8. ASSUME NEW r \in Runs, RouteBoost(r) PROVE CreditIsFunded'
  <2> DEFINE l == [local[r] EXCEPT !.assetsBefore = totalAssets]
             b == local[r].boost
  <2>1. b \in Nat /\ b <= feeBalance /\ Route(b, TRUE)
    BY <1>4, <1>8 DEF RouteBoost, FundedInv, BoostIsThere
  <2>2. Goto(r, "credit", l)
    BY <1>8 DEF RouteBoost
  <2>3. l.boost = b
    BY <1>1, LoopTypes DEF Locals
  <2>4. Owed[r] = 0
    BY <1>8, OwedThere DEF RouteBoost
  <2> HIDE DEF l, b
  <2>5. Surplus' = Surplus + b /\ unreported' = unreported /\ repeated' = repeated
    BY <1>1, <2>1, RouteLedger
  <2>6. local'[r] = l /\ Owed'[r] \in {0, b}
    BY <1>1, <2>2, <2>3, OwedStep, OwedThereNext
  <2>7. Cover' = Cover + b
    BY <1>1, <2>1, <2>5, LoopTypes DEF Cover
  <2>8. Cover' - Owed'[r] >= Cover - Owed[r]
    BY <1>1, <2>1, <2>4, <2>6, <2>7, CoverType
  <2> QED
    BY <2>2, <2>8, StepFunded
<1>9. ASSUME NEW r \in Runs, CreditBoost(r) PROVE CreditIsFunded'
  <2> DEFINE l == [local[r] EXCEPT !.boost = 0, !.assetsBefore = 0, !.attempts = 0, !.mined = FALSE]
             place == IF totalAssets' - local[r].assetsBefore = local[r].boost
                      THEN "treasury" ELSE "start"
  <2>1. Goto(r, place, l) /\ Credited(r) /\ at[r] \in {"credit", "failed"}
    BY <1>9 DEF CreditBoost
  <2>2. place \notin {"credit", "failed"}
    OBVIOUS
  <2> HIDE DEF l, place
  <2> QED
    BY <1>5, <2>1, <2>2, CreditFunded
<1>10. ASSUME NEW r \in Runs, CreditFails(r) PROVE CreditIsFunded'
  <2>1. at[r] \in {"credit", "failed"} /\ local[r].mined \in BOOLEAN /\ AfterFailure(r, local[r].mined)
    BY <1>1, <1>10, LoopTypes, LocalsParts DEF CreditFails
  <2>2. PICK place, l : Goto(r, place, l)
    BY <1>1, <2>1, AfterFailureOwes
  <2>3. /\ at'[r] \in {"credit", "failed"}
        /\ local'[r].boost = local[r].boost /\ local'[r].mined = local[r].mined
    BY <1>1, <2>1, AfterFailureOwes
  <2>4. Owed'[r] = Owed[r]
    BY <2>1, <2>3, OwedThere, OwedThereNext
  <2>5. Cover' >= Cover
    BY <1>1, <1>2, <1>10, CoverType DEF CreditFails
  <2> QED
    BY <1>3, <1>4, <2>2, <2>4, <2>5
<1>11. ASSUME NEW r \in Runs, CreditReceiptLost(r) PROVE CreditIsFunded'
  <2>1. at[r] \in {"credit", "failed"} /\ Credited(r) /\ AfterFailure(r, TRUE)
    BY <1>11 DEF CreditReceiptLost
  <2>2. PICK place, l : Goto(r, place, l)
    BY <1>1, <2>1, AfterFailureOwes
  <2>3. at'[r] \in {"credit", "failed"} /\ local'[r].mined
    BY <1>1, <2>1, AfterFailureOwes
  <2>4. Owed'[r] = 0
    BY <2>3, OwedThereNext
  <2> QED
    BY <2>1, <2>2, <2>4, CreditFunded
<1>12. ASSUME NEW r \in Runs, RecoverCredit(r) PROVE CreditIsFunded'
  <2>1. Goto(r, "start", Nothing) /\ Credited(r) /\ at[r] \in {"credit", "failed"}
    BY <1>12 DEF RecoverCredit
  <2> QED
    BY <1>5, <2>1, CreditFunded
<1>13. ASSUME NEW r \in Runs, NEW slice \in {"treasury", "insurance"}, RouteSlice(r, slice)
       PROVE  CreditIsFunded'
  <2> DEFINE l == [local[r] EXCEPT !.treasury = 0]
             place == IF slice = "treasury" THEN "insurance" ELSE "start"
             a == local[r][slice]
  <2>1. Goto(r, place, l) /\ (Route(a, FALSE) \/ UNCHANGED <<vars, distributor, history>>)
    BY <1>13 DEF RouteSlice
  <2>2. place \notin {"credit", "failed"} /\ a \in Nat
    BY <1>1, SliceType
  <2> HIDE DEF l, place, a
  <2>3. Cover' = Cover
    <3>1. CASE Route(a, FALSE)
      <4>1. Surplus' = Surplus + 0 /\ unreported' = unreported /\ repeated' = repeated
        BY <1>1, <2>2, <3>1, RouteLedger
      <4> QED
        BY <1>1, <4>1, LoopTypes DEF Cover
    <3>2. CASE UNCHANGED <<vars, distributor, history>>
      BY <1>2, <3>2
    <3> QED
      BY <2>1, <3>1, <3>2
  <2>4. Owed'[r] = 0 /\ Owed[r] \in Nat
    BY <1>4, <1>5, <2>1, <2>2
  <2>5. Cover' >= Cover
    BY <1>1, <2>3, CoverType
  <2> QED
    BY <1>3, <2>1, <2>4, <2>5
<1>14. ASSUME NEW r \in Runs, Abort(r) PROVE CreditIsFunded'
  <2>1. Goto(r, "start", Nothing) /\ Owed'[r] = 0
    BY <1>5, <1>14 DEF Abort
  <2>2. Cover' >= Cover
    BY <1>1, <1>2, <1>14, CoverType DEF Abort
  <2> QED
    BY <1>3, <1>4, <2>1, <2>2
<1> QED
  BY <1>6, <1>7, <1>8, <1>9, <1>10, <1>11, <1>12, <1>13, <1>14 DEF RunStep

(* The boost about to be routed stays in the distributor, as no second run *)
(* routes beside the first.                                                *)
LEMMA BoostStays ==
    ASSUME OneRun, FundedInv, LoopInv', [LoopNext]_loopVars
    PROVE  BoostIsThere'
<1>1. LoopInv /\ BoostIsThere /\ feeBalance \in Nat /\ feeBalance' \in Nat
  BY LoopTypes, LoopTypesNext DEF FundedInv
<1>2. ASSUME UNCHANGED script, feeBalance' >= feeBalance PROVE BoostIsThere'
  <2> SUFFICES ASSUME NEW r \in Runs, at'[r] = "route" PROVE local'[r].boost <= feeBalance'
    BY DEF BoostIsThere
  <2>1. at'[r] = at[r] /\ local'[r] = local[r] /\ local[r].boost \in Nat
    BY <1>1, <1>2, LoopTypes, LocalsParts, VaultAssumption DEF script, Uint
  <2>2. local[r].boost <= feeBalance
    BY <1>1, <2>1 DEF BoostIsThere
  <2> DEFINE before == feeBalance
             after  == feeBalance'
  <2>3. before \in Nat /\ after \in Nat /\ after >= before /\ local[r].boost <= before
    BY <1>1, <1>2, <2>2
  <2> HIDE DEF before, after
  <2>4. local[r].boost <= after
    BY <2>1, <2>3
  <2> QED
    BY <2>1, <2>4 DEF after
<1>3. ASSUME NEW r \in Runs, at'[r] # "route" PROVE BoostIsThere'
  BY <1>3 DEF OneRun, BoostIsThere
<1>4. ASSUME NEW r \in Runs, NEW place, NEW l, Goto(r, place, l), place # "route"
      PROVE  BoostIsThere'
  BY <1>1, <1>3, <1>4, OwedStep
<1>5. ASSUME NEW r \in Runs, ReadSplit(r) PROVE BoostIsThere'
  <2>1. at'[r] = "route" => local'[r].boost <= feeBalance
    BY <1>1, <1>5, ReadSplitType
  <2>2. feeBalance' = feeBalance
    BY <1>5 DEF ReadSplit, vars
  <2> QED
    BY <2>1, <2>2 DEF OneRun, BoostIsThere
<1>6. ASSUME NEW r \in Runs, CreditFails(r) \/ CreditReceiptLost(r) PROVE BoostIsThere'
  <2>1. PICK mined \in BOOLEAN : AfterFailure(r, mined)
    BY <1>1, <1>6, LoopTypes, LocalsParts DEF CreditFails, CreditReceiptLost
  <2> QED
    BY <1>1, <1>3, <2>1, AfterFailureOwes
<1>7. CASE RunStep
  <2>1. ASSUME NEW r \in Runs, Reconcile(r) \/ RouteBoost(r) \/ RecoverCredit(r) \/ Abort(r)
        PROVE  BoostIsThere'
    BY <1>4, <2>1 DEF Reconcile, RouteBoost, RecoverCredit, Abort
  <2>2. ASSUME NEW r \in Runs, CreditBoost(r) PROVE BoostIsThere'
    <3> DEFINE l == [local[r] EXCEPT !.boost = 0, !.assetsBefore = 0, !.attempts = 0,
                                     !.mined = FALSE]
               place == IF totalAssets' - local[r].assetsBefore = local[r].boost
                        THEN "treasury" ELSE "start"
    <3>1. Goto(r, place, l) /\ place # "route"
      BY <2>2 DEF CreditBoost
    <3> HIDE DEF l, place
    <3> QED
      BY <1>4, <3>1
  <2>3. ASSUME NEW r \in Runs, NEW slice \in {"treasury", "insurance"}, RouteSlice(r, slice)
        PROVE  BoostIsThere'
    BY <1>4, <2>3 DEF RouteSlice
  <2> QED
    BY <1>5, <1>6, <1>7, <2>1, <2>2, <2>3 DEF RunStep
<1>8. CASE OwnerRoute
  BY <1>8 DEF OwnerRoute, script, BoostIsThere
<1>9. CASE VaultStep /\ UNCHANGED <<distributor, script>>
  BY <1>1, <1>2, <1>9, VaultStepLedger
<1>10. CASE (LoseAtVenue \/ ReportMeasuredLoss) /\ UNCHANGED <<distributor, script>>
  BY <1>1, <1>2, <1>10 DEF LoseAtVenue, VenueLoss, ReportMeasuredLoss, ReportLoss
<1>11. CASE UNCHANGED loopVars
  BY <1>1, <1>2, <1>11 DEF loopVars, vars
<1> QED
  BY <1>7, <1>8, <1>9, <1>10, <1>11 DEF LoopNext

LEMMA OtherStepFunded ==
    ASSUME FundedInv, LoopInv', [LoopNext]_loopVars
    PROVE  CreditIsFunded'
<1>1. LoopInv /\ TypeOK /\ TypeOK' /\ Cover \in Int
  BY CoverType DEF FundedInv, LoopInv, LoopTypeOK
<1>2. CASE RunStep
  BY <1>2, RunStepFunded
<1>3. CASE OwnerRoute
  <2>1. PICK amount \in Uint, toVault \in BOOLEAN : Route(amount, toVault)
    BY <1>3 DEF OwnerRoute
  <2>2. amount \in Nat
    BY VaultAssumption DEF Uint
  <2> DEFINE kept == IF toVault THEN Routed(amount) ELSE 0
  <2>3. kept \in Nat /\ Surplus' = Surplus + kept /\ unreported' = unreported /\ repeated' = repeated
    BY <1>1, <2>1, <2>2, RouteLedger
  <2> HIDE DEF kept
  <2>4. Cover' >= Cover
    BY <1>1, <2>3, LoopTypes DEF Cover
  <2> QED
    BY <1>3, <2>4, QuietFunded DEF OwnerRoute
<1>4. CASE VaultStep /\ UNCHANGED <<distributor, script>>
  <2>1. Surplus' >= Surplus /\ unreported' = unreported /\ repeated' = repeated
    BY <1>1, <1>4, VaultStepLedger DEF VaultStep, history
  <2>2. Surplus \in Int /\ Surplus' \in Int /\ unreported \in Nat /\ repeated \in Nat
    BY <1>1, LoopTypes, LoopTypesNext
  <2>3. Cover' >= Cover
    <3> DEFINE before == Surplus
               after  == Surplus'
    <3>1. before \in Int /\ after \in Int /\ after >= before
      BY <2>1, <2>2
    <3>2. Cover = before + unreported + repeated /\ Cover' = after + unreported + repeated
      BY <2>1 DEF Cover
    <3> HIDE DEF before, after
    <3> QED
      BY <2>2, <3>1, <3>2
  <2> QED
    BY <1>4, <2>3, QuietFunded
<1>5. CASE LoseAtVenue /\ UNCHANGED <<distributor, script>>
  <2>1. PICK s \in Strategies, amount \in Uint :
           VenueLoss(s, amount) /\ unreported' = unreported + amount /\ UNCHANGED repeated
    BY <1>5 DEF LoseAtVenue
  <2>2. Surplus' = Surplus - amount /\ amount \in Nat
    BY <1>1, <2>1, StrategyLedger, VaultAssumption DEF Uint
  <2>3. Cover' >= Cover
    BY <1>1, <2>1, <2>2, LoopTypes DEF Cover
  <2> QED
    BY <1>5, <2>3, QuietFunded
<1>6. CASE ReportMeasuredLoss /\ UNCHANGED <<distributor, script>>
  <2>1. PICK amount \in 1..unreported :
           ReportLoss(amount) /\ unreported' = unreported - amount /\ UNCHANGED repeated
    BY <1>6 DEF ReportMeasuredLoss
  <2>2. amount \in Nat
    BY <1>1, <2>1, LoopTypes
  <2>3. Surplus' = Surplus + amount
    BY <1>1, <2>1, <2>2, ReportLossLedger
  <2>4. Cover' >= Cover
    BY <1>1, <2>1, <2>2, <2>3, LoopTypes DEF Cover
  <2> QED
    BY <1>6, <2>4, QuietFunded
<1>7. CASE UNCHANGED loopVars
  <2>1. Surplus' = Surplus
    BY <1>7, QuietLedger DEF loopVars
  <2>2. unreported' = unreported /\ repeated' = repeated /\ UNCHANGED script
    BY <1>7 DEF loopVars, history
  <2>3. Cover' >= Cover
    BY <1>1, <2>1, <2>2 DEF Cover
  <2> QED
    BY <2>2, <2>3, QuietFunded
<1> QED
  BY <1>2, <1>3, <1>4, <1>5, <1>6, <1>7 DEF LoopNext

LEMMA FundedStarts == LoopInit => FundedInv
<1> SUFFICES ASSUME LoopInit PROVE FundedInv
  OBVIOUS
<1>1. LoopInv /\ BoostIsThere
  BY LoopStarts DEF LoopInit, BoostIsThere
<1>2. SumFunction(Owed) = 0
  <2>1. Owed \in [Runs -> Int] /\ \A r \in Runs : Owed[r] = 0
    BY DEF LoopInit, Owed
  <2> QED
    BY <2>1, SumZero, RecyclingAssumption
<1>3. Cover = 0
  <2> DEFINE none == [s \in Strategies |-> held[s] + deployed[s] - accrued[s]]
  <2>1. none \in [Strategies -> Int] /\ \A s \in Strategies : none[s] = 0
    BY DEF LoopInit
  <2> HIDE DEF none
  <2>2. SumFunction(none) = 0
    BY <2>1, SumZero, VaultAssumption
  <2>3. Surplus = idle - totalAssets + SumFunction(none)
    BY DEF Surplus, none
  <2> QED
    BY <2>2, <2>3 DEF LoopInit, Cover
<1> QED
  BY <1>1, <1>2, <1>3, FundedBy DEF FundedInv

(* The vault stays solvent and what it credits is funded, whatever the     *)
(* depositors, the owner, the venues and the recycler interleave to, as    *)
(* long as runs of the recycler do not overlap.                            *)
THEOREM CreditsAreFunded == ASSUME OneRun PROVE LoopSpec => []CreditIsFunded
<1>1. ASSUME FundedInv, [LoopNext]_loopVars PROVE FundedInv'
  <2>1. LoopInv'
    BY <1>1, LoopStepType DEF FundedInv
  <2>2. CreditIsFunded'
    BY <1>1, <2>1, OtherStepFunded
  <2>3. BoostIsThere'
    BY <1>1, <2>1, BoostStays
  <2> QED
    BY <2>1, <2>2, <2>3 DEF FundedInv
<1>2. FundedInv => CreditIsFunded
  BY DEF FundedInv
<1> QED
  BY <1>1, <1>2, FundedStarts, PTL DEF LoopSpec
=============================================================================
