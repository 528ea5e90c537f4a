----------------------- MODULE MorphoStrategy_proofs -----------------------
(***************************************************************************)
(* Proofs about MorphoStrategy for every amount of money, every interest   *)
(* and every buffer: types, that profit is growth, and that a harvest      *)
(* which sweeps nothing gives nothing up.                                  *)
(***************************************************************************)
EXTENDS MorphoStrategy, Arithmetic, TLAPS

\* The inductive invariant: what the next harvest would take is growth the
\* vault has not been paid yet.
Inv == TypeOK /\ swept + Claimable <= grown

(* The state and the constants, one by one.                                *)
LEMMA Types ==
    ASSUME TypeOK
    PROVE  /\ held \in Nat /\ position \in Nat /\ lastHarvestPosition \in Nat
           /\ grown \in Nat /\ swept \in Nat
           /\ isActive \in BOOLEAN /\ bufferBps \in Buffers \cup {0}
           /\ bufferBps \in Nat /\ bufferBps <= BPS /\ BPS \in Nat \ {0}
           /\ MaxMoney \in Nat /\ MaxGrown \in Nat
  BY MorphoAssumption DEF TypeOK

(* The buffer is a part of the amount it is kept of.                       *)
LEMMA BufferWithin ==
    ASSUME TypeOK, NEW amount \in Nat
    PROVE  Buffer(amount) \in Nat /\ Buffer(amount) <= amount
<1>1. amount * bufferBps \in Nat /\ amount * bufferBps <= amount * BPS
  <2>1. bufferBps * amount <= BPS * amount
    BY Types, ProductMonotone
  <2>2. bufferBps * amount = amount * bufferBps /\ BPS * amount = amount * BPS
    BY Types
  <2> QED
    BY <2>1, <2>2, Types, ProductType
<1>2. /\ Buffer(amount) \in Nat
      /\ Buffer(amount) * BPS <= amount * bufferBps
  BY <1>1, Types, FloorDivision DEF Buffer
<1>3. Buffer(amount) * BPS <= amount * BPS
  BY <1>1, <1>2, Types, ProductType
<1> QED
  BY <1>2, <1>3, Types, CancelFactor

LEMMA ClaimableType ==
    ASSUME TypeOK
    PROVE  /\ Claimable \in Nat /\ Claimable <= position
           /\ Claimable > 0 => position = lastHarvestPosition + Claimable
           /\ Claimable = 0 => position <= lastHarvestPosition
  BY Types DEF Claimable

LEMMA PendingType == ASSUME NEW i \in Pending PROVE i \in Nat
  BY MorphoAssumption DEF Pending

(* What an unwinding of at most the position can do.                       *)
LEMMA UnwoundType ==
    ASSUME TypeOK, NEW need \in Nat, 0 < need, need <= position, NEW out \in Unwound(need)
    PROVE  /\ out.got \in Nat /\ out.left \in Nat /\ out.interest \in Nat
           /\ out.got <= need
           /\ out.left <= position + out.interest - out.got
           /\ \/ out.got = 0 /\ out.left = position /\ out.interest = 0
              \/ out.got >= need - 1
<1>1. CASE out = [got |-> 0, left |-> position, interest |-> 0]
  BY <1>1, Types
<1>2. CASE \E paidLess \in 0..1, worthLess \in {d \in 0..1 : d <= position - need},
              interest \in Pending :
              out = [got |-> need - paidLess, left |-> position + interest - need - worthLess,
                     interest |-> interest]
  <2>1. PICK paidLess \in 0..1, worthLess \in {d \in 0..1 : d <= position - need},
              interest \in Pending :
              out = [got |-> need - paidLess, left |-> position + interest - need - worthLess,
                     interest |-> interest]
    BY <1>2
  <2>2. /\ out.got = need - paidLess /\ out.interest = interest
        /\ out.left = position + interest - need - worthLess
    BY <2>1
  <2>3. interest \in Nat /\ worthLess \in 0..1 /\ worthLess <= position - need
    BY PendingType
  <2> QED
    BY <2>2, <2>3, Types
<1> QED
  BY <1>1, <1>2 DEF Unwound

-----------------------------------------------------------------------------
(* The transactions that move the baseline.                                *)

LEMMA DeployInv ==
    ASSUME Inv, NEW interest \in Pending, NEW less \in 0..1, Deploy(interest, less)
    PROVE  Inv'
<1>1. held \in Nat /\ Buffer(held) \in Nat /\ Buffer(held) < held
  BY Types, BufferWithin DEF Deploy, Inv
<1>2. interest \in Nat
  BY PendingType
<1>3. /\ held' = Buffer(held) /\ position' = position + interest + (held - Buffer(held)) - less
      /\ lastHarvestPosition' = position' /\ grown' = grown + interest /\ swept' = swept
      /\ isActive' = isActive /\ bufferBps' = bufferBps
  BY DEF Deploy, settings
<1>4. held' \in Nat /\ position' \in Nat /\ lastHarvestPosition' \in Nat /\ grown' \in Nat
  BY <1>1, <1>2, <1>3, Types DEF Inv
<1>5. TypeOK'
  BY <1>3, <1>4, Types DEF Inv, TypeOK
<1>6. Claimable' = 0
  BY <1>3, <1>4 DEF Claimable
<1>7. swept \in Nat /\ grown \in Nat /\ Claimable \in Nat /\ swept + Claimable <= grown
  BY Types, ClaimableType DEF Inv
<1> QED
  BY <1>2, <1>3, <1>5, <1>6, <1>7 DEF Inv

(* What Recall and HarvestGrowth have in common: the position is left at    *)
(* some value, and the baseline moves there or stays.  A sweep is paid out  *)
(* of what could be claimed.                                                *)
LEMMA BaselineInv ==
    ASSUME Inv, NEW left \in Nat, NEW interest \in Nat, NEW sweep \in Nat,
           left <= position + interest,
           sweep <= Claimable,
           held' \in Nat, position' = left, grown' = grown + interest,
           swept' = swept + sweep, isActive' = isActive, bufferBps' = bufferBps,
           \/ lastHarvestPosition' = left
           \/ lastHarvestPosition' = lastHarvestPosition /\ sweep = 0
    PROVE  Inv'
<1>1. /\ position \in Nat /\ lastHarvestPosition \in Nat /\ grown \in Nat /\ swept \in Nat
      /\ Claimable \in Nat /\ swept + Claimable <= grown
  BY Types, ClaimableType DEF Inv
<1>2. /\ position' \in Nat /\ lastHarvestPosition' \in Nat
      /\ grown' \in Nat /\ swept' \in Nat
  BY <1>1
<1>3. TypeOK'
  BY <1>2, Types DEF Inv, TypeOK
<1>4. CASE lastHarvestPosition' = left
  <2>1. Claimable' = 0
    BY <1>2, <1>4 DEF Claimable
  <2> QED
    BY <1>1, <1>3, <2>1 DEF Inv
<1>5. CASE lastHarvestPosition' = lastHarvestPosition /\ sweep = 0
  <2>1. Claimable' <= Claimable + interest /\ Claimable' \in Nat
    BY <1>1, <1>2, <1>5 DEF Claimable
  <2>2. swept' = swept
    BY <1>1, <1>5
  <2>3. grown' >= swept + Claimable + interest
    BY <1>1
  <2>4. swept + Claimable' <= grown'
    BY <1>1, <1>2, <1>5, <2>3 DEF Claimable
  <2> QED
    BY <1>3, <2>2, <2>4 DEF Inv
<1> QED
  BY <1>4, <1>5

LEMMA RecallInv ==
    ASSUME Inv, NEW amount \in 1..MaxMoney, Recall(amount)
    PROVE  Inv'
<1>1. PICK need \in Int : need = Lesser(amount - held, position)
  BY Types DEF Inv, Lesser
<1>2. /\ amount \in Nat /\ amount > 0 /\ held \in Nat /\ position \in Nat
      /\ need <= position
  BY <1>1, Types DEF Inv, Lesser
<1>3. PICK out \in IF need > 0 THEN Unwound(need) ELSE Untouched :
          /\ held' = held + out.got - Lesser(amount, held + out.got)
          /\ position' = out.left
          /\ lastHarvestPosition' = IF Lesser(amount, held + out.got) > 0
                                    THEN out.left ELSE lastHarvestPosition
          /\ grown' = grown + out.interest
          /\ UNCHANGED <<settings, swept>>
  BY <1>1 DEF Recall
<1>4. /\ out.got \in Nat /\ out.left \in Nat /\ out.interest \in Nat
      /\ out.left <= position + out.interest
  <2>1. CASE need > 0
    BY <2>1, <1>2, <1>3, UnwoundType, Types DEF Inv
  <2>2. CASE ~(need > 0)
    BY <2>2, <1>2, <1>3 DEF Untouched
  <2> QED
    BY <2>1, <2>2
<1>5. held' \in Nat
  BY <1>2, <1>3, <1>4 DEF Lesser
<1>6. /\ swept' = swept + 0 /\ isActive' = isActive /\ bufferBps' = bufferBps
      /\ \/ lastHarvestPosition' = out.left
         \/ lastHarvestPosition' = lastHarvestPosition
  BY <1>3, Types DEF Inv, settings
<1>7. Claimable \in Nat
  BY ClaimableType DEF Inv
<1> QED
  BY <1>3, <1>4, <1>5, <1>6, <1>7, BaselineInv

(* The parts of a harvest that sweeps, or tries to.                        *)
LEMMA HarvestParts ==
    ASSUME TypeOK, HarvestGrowth
    PROVE  \E got, left, interest, sweep, kept \in Nat :
              /\ sweep <= Claimable /\ left <= position + interest
              /\ held' = (held + got) - sweep /\ held' \in Nat
              /\ position' = left /\ grown' = grown + interest /\ swept' = swept + sweep
              /\ isActive' = isActive /\ bufferBps' = bufferBps
              /\ lastHarvestPosition' = IF sweep > 0 THEN left ELSE lastHarvestPosition
              /\ kept = Buffer(held + got + left)
              /\ sweep = Lesser(Claimable, (held + got) - Lesser(held + got, kept))
              /\ \/ left = position
                 \/ got >= Claimable - held - 1
<1>1. PICK claim \in Nat : claim = Claimable
  BY ClaimableType
<1>2. held \in Nat /\ position \in Nat /\ 0 < claim /\ claim <= position
  BY <1>1, Types, ClaimableType DEF HarvestGrowth
<1>3. PICK out \in IF claim > held THEN Unwound(claim - held) ELSE Untouched :
          /\ held' = (held + out.got) - Lesser(claim, (held + out.got) - Lesser(held + out.got, Buffer(held + out.got + out.left)))
          /\ position' = out.left
          /\ lastHarvestPosition' =
                IF Lesser(claim, (held + out.got) - Lesser(held + out.got, Buffer(held + out.got + out.left))) > 0
                THEN out.left ELSE lastHarvestPosition
          /\ swept' = swept + Lesser(claim, (held + out.got) - Lesser(held + out.got, Buffer(held + out.got + out.left)))
          /\ grown' = grown + out.interest
          /\ UNCHANGED settings
  BY <1>1, Zenon DEF HarvestGrowth
<1>4. /\ out.got \in Nat /\ out.left \in Nat /\ out.interest \in Nat
      /\ out.left <= position + out.interest
      /\ out.left = position \/ out.got >= claim - held - 1
  <2>1. CASE claim > held
    <3>1. claim - held \in Nat /\ 0 < claim - held /\ claim - held <= position
      BY <2>1, <1>2
    <3> QED
      BY <2>1, <3>1, <1>2, <1>3, UnwoundType
  <2>2. CASE ~(claim > held)
    BY <2>2, <1>2, <1>3 DEF Untouched
  <2> QED
    BY <2>1, <2>2
<1>5. held + out.got + out.left \in Nat
  BY <1>2, <1>4
<1>6. PICK kept \in Nat : kept = Buffer(held + out.got + out.left)
  BY <1>5, BufferWithin
<1>7. PICK sweep \in Nat : sweep = Lesser(claim, (held + out.got) - Lesser(held + out.got, kept))
  BY <1>2, <1>4, <1>6 DEF Lesser
<1>8. sweep <= claim /\ sweep <= held + out.got
  BY <1>2, <1>4, <1>6, <1>7 DEF Lesser
<1>9. /\ held' = (held + out.got) - sweep
      /\ position' = out.left
      /\ lastHarvestPosition' = IF sweep > 0 THEN out.left ELSE lastHarvestPosition
      /\ swept' = swept + sweep
      /\ grown' = grown + out.interest
      /\ isActive' = isActive /\ bufferBps' = bufferBps
  BY <1>3, <1>6, <1>7 DEF settings
<1>10. held' \in Nat
  BY <1>2, <1>4, <1>8, <1>9
<1> QED
  BY <1>1, <1>4, <1>6, <1>7, <1>8, <1>9, <1>10

LEMMA HarvestInv == ASSUME Inv, HarvestGrowth PROVE Inv'
<1>1. PICK got, left, interest, sweep \in Nat :
          /\ sweep <= Claimable /\ left <= position + interest
          /\ held' \in Nat
          /\ position' = left /\ grown' = grown + interest /\ swept' = swept + sweep
          /\ isActive' = isActive /\ bufferBps' = bufferBps
          /\ lastHarvestPosition' = IF sweep > 0 THEN left ELSE lastHarvestPosition
  BY HarvestParts DEF Inv
<1>2. \/ lastHarvestPosition' = left
      \/ lastHarvestPosition' = lastHarvestPosition /\ sweep = 0
  <2>1. CASE sweep > 0
    BY <1>1, <2>1
  <2>2. CASE sweep = 0
    BY <1>1, <2>2
  <2> QED
    BY <2>1, <2>2
<1> QED
  BY <1>1, <1>2, BaselineInv

LEMMA StepInv == ASSUME Inv, [Next]_vars PROVE Inv'
<1>1. ASSUME NEW amount \in 1..MaxMoney, Allocate(amount) PROVE Inv'
  BY <1>1, Types DEF Allocate, settings, history, Inv, TypeOK, Claimable
<1>2. ASSUME NEW amount \in 1..MaxMoney, BadDebt(amount) PROVE Inv'
  BY <1>2, Types DEF BadDebt, settings, history, Inv, TypeOK, Claimable
<1>3. ASSUME NEW interest \in Pending, Interest(interest) PROVE Inv'
  BY <1>3, Types, PendingType DEF Interest, settings, Inv, TypeOK, Claimable
<1>4. ASSUME HarvestNothing PROVE Inv'
  BY <1>4, Types DEF HarvestNothing, money, settings, history, Inv, TypeOK, Claimable
<1>5. ASSUME NEW active \in BOOLEAN, SetActive(active) PROVE Inv'
  BY <1>5, Types DEF SetActive, money, history, Inv, TypeOK, Claimable
<1>6. ASSUME NEW buffer \in Buffers, SetBufferBps(buffer) PROVE Inv'
  BY <1>6, Types DEF SetBufferBps, money, history, Inv, TypeOK, Claimable
<1>7. CASE UNCHANGED vars
  BY <1>7 DEF vars, money, settings, history, Inv, TypeOK, Claimable
<1> QED
  BY <1>1, <1>2, <1>3, <1>4, <1>5, <1>6, <1>7, DeployInv, RecallInv, HarvestInv DEF Next

LEMMA InitInv == Init => Inv
  BY DEF Init, Inv, TypeOK, Claimable

LEMMA SpecInv == Spec => []Inv
  BY InitInv, StepInv, PTL DEF Spec

-----------------------------------------------------------------------------
(* The contract's balance, the position and the baseline stay natural       *)
(* numbers: recall and harvest never send more than has arrived.            *)
THEOREM TypeCorrect == Spec => []TypeOK
<1>1. Inv => TypeOK
  BY DEF Inv
<1> QED
  BY <1>1, SpecInv, PTL

(* Principal is never swept as profit, whatever the order of the vault's,   *)
(* the keeper's and the market's steps.                                     *)
THEOREM OnlyGrowthIsSwept == Spec => []ProfitIsGrowth
<1>1. Inv => ProfitIsGrowth
  BY Types, ClaimableType DEF Inv, ProfitIsGrowth
<1> QED
  BY <1>1, SpecInv, PTL

(* A harvest that an illiquid market left empty keeps its claim: without a  *)
(* buffer only the listed steps lower what the next harvest takes.          *)
THEOREM UnsweptIsKept == Spec => UnsweptStays
<1>1. ASSUME Inv, [Next]_vars
      PROVE  \/ Claimable' >= Claimable - 1
             \/ swept' > swept
             \/ bufferBps > 0
             \/ \E amount \in 1..MaxMoney : Recall(amount) \/ BadDebt(amount)
             \/ \E interest \in Pending, less \in 0..1 : Deploy(interest, less)
  <2>0. /\ held \in Nat /\ position \in Nat /\ lastHarvestPosition \in Nat
        /\ swept \in Nat /\ bufferBps \in Nat /\ Claimable \in Nat /\ TypeOK
    BY <1>1, Types, ClaimableType DEF Inv
  <2>1. CASE HarvestGrowth /\ bufferBps = 0
    <3>1. PICK got, left, interest, sweep, kept \in Nat :
              /\ position' = left /\ swept' = swept + sweep
              /\ lastHarvestPosition' = IF sweep > 0 THEN left ELSE lastHarvestPosition
              /\ kept = Buffer(held + got + left)
              /\ sweep = Lesser(Claimable, (held + got) - Lesser(held + got, kept))
              /\ left = position \/ got >= Claimable - held - 1
      BY <2>1, <2>0, HarvestParts
    <3>2. kept = 0
      <4>1. held + got + left \in Nat
        BY <2>0, <3>1
      <4>2. (held + got + left) * bufferBps = 0
        BY <2>0, <2>1, <4>1
      <4> QED
        BY <2>0, <3>1, <4>2, Types, FloorDivision DEF Buffer
    <3>3. CASE sweep > 0
      BY <2>0, <3>1, <3>3
    <3>4. CASE sweep = 0
      <4>1. Claimable > 0
        BY <2>1 DEF HarvestGrowth
      <4>2. held = 0 /\ got = 0
        <5>1. held + got \in Nat /\ Lesser(held + got, kept) = 0
          BY <2>0, <3>1, <3>2 DEF Lesser
        <5>2. Lesser(Claimable, held + got) = 0
          BY <3>1, <3>4, <5>1
        <5> QED
          BY <2>0, <3>1, <4>1, <5>1, <5>2 DEF Lesser
      <4>3. CASE left = position
        BY <2>0, <3>1, <3>4, <4>3 DEF Claimable
      <4>4. CASE got >= Claimable - held - 1
        <5>1. Claimable = 1
          BY <2>0, <4>1, <4>2, <4>4
        <5>2. Claimable' \in Nat
          BY <2>0, <3>1, <3>4 DEF Claimable
        <5> QED
          BY <5>1, <5>2
      <4> QED
        BY <3>1, <4>3, <4>4
    <3> QED
      BY <3>3, <3>4
  <2>2. CASE HarvestGrowth /\ bufferBps # 0
    BY <2>2, <2>0
  <2>3. ASSUME NEW amount \in 1..MaxMoney, Allocate(amount) PROVE Claimable' >= Claimable - 1
    BY <2>3, <2>0 DEF Allocate, Claimable
  <2>4. ASSUME NEW interest \in Pending, Interest(interest) PROVE Claimable' >= Claimable - 1
    BY <2>4, <2>0, PendingType DEF Interest, Claimable
  <2>5. CASE HarvestNothing
    BY <2>5, <2>0 DEF HarvestNothing, money, Claimable
  <2>6. ASSUME NEW active \in BOOLEAN, SetActive(active) PROVE Claimable' >= Claimable - 1
    BY <2>6, <2>0 DEF SetActive, money, Claimable
  <2>7. ASSUME NEW buffer \in Buffers, SetBufferBps(buffer) PROVE Claimable' >= Claimable - 1
    BY <2>7, <2>0 DEF SetBufferBps, money, Claimable
  <2>8. CASE UNCHANGED vars
    BY <2>8, <2>0 DEF vars, money, Claimable
  <2> QED
    BY <1>1, <2>1, <2>2, <2>3, <2>4, <2>5, <2>6, <2>7, <2>8 DEF Next
<1>2. Inv /\ [Next]_vars => (UNCHANGED vars \/
             (\/ Claimable' >= Claimable - 1
              \/ swept' > swept
              \/ bufferBps > 0
              \/ \E amount \in 1..MaxMoney : Recall(amount) \/ BadDebt(amount)
              \/ \E interest \in Pending, less \in 0..1 : Deploy(interest, less)))
  BY <1>1
<1> QED
  BY <1>2, SpecInv, PTL DEF Spec, UnsweptStays
=============================================================================
