-------------------------- MODULE PTSleeve_proofs --------------------------
(***************************************************************************)
(* Proofs about PTSleeve for every bound, headroom and keeper: types, that *)
(* no attestation inflates the books beyond what was sent, and that on the *)
(* runbook the books lose sight of no burn and count no dollar twice.      *)
(***************************************************************************)
EXTENDS PTSleeve, Arithmetic, FiniteSetTheorems, TLAPS

\* The bound alone is not inductive: a sync that is refused any value (all
\* outstanding face is in flight) leaves only the flight counter, which must
\* itself stay within what was sent.
FlightWithinSent == inFlight6 <= sentFace6

Inv == TypeOK /\ FlightWithinSent /\ BookWithinSent

LEMMA Numbers ==
    ASSUME TypeOK
    PROVE  /\ idle \in Nat /\ sentFace6 \in Nat /\ retFace6 \in Nat /\ inFlight6 \in Nat
           /\ arbValue6 \in Nat /\ pendingRecall6 \in Nat /\ headroomBps \in Nat
           /\ headroomBps <= MaxHeadroom /\ MaxHeadroom \in Nat /\ BPS \in Nat \ {0}
           /\ arbUsdc \in Nat /\ pt \in Nat /\ unacked \in Nat /\ lost \in Nat
           /\ outbound \in [Uint -> Nat] /\ inbound \in [Uint -> Nat]
           /\ MaxFace \in Nat /\ MaxUint \in Nat /\ MaxPending \in Nat
           /\ Uint \subseteq Nat /\ Slip \in Nat
<1>1. MaxHeadroom \in Nat /\ BPS \in Nat \ {0} /\ MaxFace \in Nat /\ MaxUint \in Nat
      /\ MaxPending \in Nat /\ Slip \in Nat
  BY SleeveAssumption
<1>2. headroomBps \in 0..MaxHeadroom
  BY SleeveAssumption DEF TypeOK
<1>3. Uint \subseteq Nat
  BY <1>1 DEF Uint
<1>4. /\ idle \in Nat /\ inFlight6 \in Nat /\ arbValue6 \in Nat /\ arbUsdc \in Nat
      /\ pt \in Nat /\ unacked \in Nat /\ lost \in Nat
      /\ outbound \in [Uint -> Nat] /\ inbound \in [Uint -> Nat]
  BY DEF TypeOK
<1>5. sentFace6 \in 0..MaxFace /\ retFace6 \in 0..MaxFace /\ pendingRecall6 \in 0..MaxPending
  BY DEF TypeOK
<1> QED
  BY <1>1, <1>2, <1>3, <1>4, <1>5

(* The attested value is within the face that has arrived and the headroom.*)
LEMMA CapBound ==
    ASSUME TypeOK, FlightWithinSent
    PROVE  /\ ValueCap \in Nat
           /\ (inFlight6 + ValueCap) * BPS <= sentFace6 * (BPS + MaxHeadroom)
<1> DEFINE arrived == IF OutstandingFace > inFlight6 THEN OutstandingFace - inFlight6 ELSE 0
<1>1. arrived \in Nat /\ inFlight6 + arrived <= sentFace6
  BY Numbers DEF OutstandingFace, FlightWithinSent
<1>2. BPS + headroomBps \in Nat /\ BPS + MaxHeadroom \in Nat
  BY Numbers
<1>3. arrived * (BPS + headroomBps) \in Nat /\ arrived * (BPS + MaxHeadroom) \in Nat
  BY <1>1, <1>2, ProductType
<1>4. ValueCap = (arrived * (BPS + headroomBps)) \div BPS
  BY DEF ValueCap
<1> HIDE DEF arrived
<1>5. ValueCap \in Nat /\ ValueCap * BPS <= arrived * (BPS + headroomBps)
  BY <1>3, <1>4, Numbers, FloorDivision
<1>6. arrived * (BPS + headroomBps) <= arrived * (BPS + MaxHeadroom)
  <2>1. (BPS + headroomBps) * arrived <= (BPS + MaxHeadroom) * arrived
    BY <1>1, <1>2, Numbers, ProductMonotone
  <2> QED
    BY <1>1, <1>2, <2>1
<1>7. inFlight6 * BPS <= inFlight6 * (BPS + MaxHeadroom)
  <2>1. BPS * inFlight6 <= (BPS + MaxHeadroom) * inFlight6
    BY <1>2, Numbers, ProductMonotone
  <2> QED
    BY <1>2, <2>1, Numbers
<1>8. (inFlight6 + arrived) * (BPS + MaxHeadroom) <= sentFace6 * (BPS + MaxHeadroom)
  BY <1>1, <1>2, Numbers, ProductMonotone
<1>9. /\ (inFlight6 + ValueCap) * BPS = inFlight6 * BPS + ValueCap * BPS
      /\ (inFlight6 + arrived) * (BPS + MaxHeadroom)
            = inFlight6 * (BPS + MaxHeadroom) + arrived * (BPS + MaxHeadroom)
  BY <1>1, <1>2, <1>5, Numbers, SMT
<1>10. /\ inFlight6 * BPS \in Nat /\ ValueCap * BPS \in Nat
       /\ inFlight6 * (BPS + MaxHeadroom) \in Nat /\ sentFace6 * (BPS + MaxHeadroom) \in Nat
  BY <1>2, <1>5, Numbers, ProductType
<1> QED
  BY <1>3, <1>5, <1>6, <1>7, <1>8, <1>9, <1>10

(* The remote part of the books, lower or with more sent, stays in bounds. *)
LEMMA BookMonotone ==
    ASSUME NEW b \in Nat, NEW c \in Nat, NEW s \in Nat, NEW d \in Nat, NEW k \in Nat,
           b * BPS <= s * k, c <= b + d, k \in Nat, BPS \in Nat, BPS <= k
    PROVE  c * BPS <= (s + d) * k
<1>1. c * BPS <= (b + d) * BPS
  BY ProductMonotone
<1>2. (b + d) * BPS = b * BPS + d * BPS /\ (s + d) * k = s * k + d * k
  BY SMT
<1>3. d * BPS <= d * k
  <2>1. BPS * d <= k * d
    BY ProductMonotone
  <2> QED
    BY <2>1
<1>4. {b * BPS, d * BPS, s * k, d * k, c * BPS} \subseteq Nat
  BY ProductType
<1> QED
  BY <1>1, <1>2, <1>3, <1>4

-----------------------------------------------------------------------------
LEMMA InitInv == ASSUME Init PROVE Inv
<1>1. MaxFace \in Nat /\ MaxPending \in Nat /\ BPS \in Nat /\ MaxHeadroom \in Nat
  BY SleeveAssumption
<1>2. [a \in Uint |-> 0] \in [Uint -> Nat]
  OBVIOUS
<1>3. TypeOK
  BY <1>1, <1>2 DEF Init, TypeOK
<1>4. FlightWithinSent
  BY DEF Init, FlightWithinSent
<1>5. 0 * BPS = 0 /\ 0 * (BPS + MaxHeadroom) = 0
  BY <1>1, SMT
<1>6. BookWithinSent
  BY <1>5 DEF Init, BookWithinSent
<1> QED
  BY <1>3, <1>4, <1>6 DEF Inv

(* A step that leaves the two numbers of the remote book and the sent face *)
(* alone keeps the bound.                                                  *)
LEMMA BookUntouched ==
    ASSUME Inv, UNCHANGED <<sentFace6, inFlight6, arbValue6>>
    PROVE  FlightWithinSent' /\ BookWithinSent'
  BY DEF Inv, FlightWithinSent, BookWithinSent

LEMMA SumBelow ==
    ASSUME NEW a \in Nat, NEW b \in Nat, NEW c \in Nat, NEW d \in Nat, c <= a, d <= b
    PROVE  a + b \in Nat /\ c + d \in Nat /\ c + d <= (a + b) + 0
  OBVIOUS

(* A step that lowers them.                                                *)
LEMMA BookLowered ==
    ASSUME Inv, inFlight6' \in Nat, arbValue6' \in Nat, inFlight6' <= inFlight6,
           arbValue6' <= arbValue6, sentFace6' = sentFace6
    PROVE  FlightWithinSent' /\ BookWithinSent'
<1>1. TypeOK /\ FlightWithinSent /\ BookWithinSent
  BY DEF Inv
<1>2. inFlight6' + arbValue6' \in Nat /\ inFlight6 + arbValue6 \in Nat
      /\ inFlight6' + arbValue6' <= (inFlight6 + arbValue6) + 0
      /\ BPS + MaxHeadroom \in Nat /\ BPS <= BPS + MaxHeadroom
  <2>1. inFlight6 \in Nat /\ arbValue6 \in Nat /\ BPS \in Nat /\ MaxHeadroom \in Nat
    BY <1>1, Numbers
  <2>2. BPS + MaxHeadroom \in Nat /\ BPS <= BPS + MaxHeadroom
    BY <2>1
  <2> QED
    BY <2>1, <2>2, SumBelow
<1>3. (inFlight6' + arbValue6') * BPS <= (sentFace6 + 0) * (BPS + MaxHeadroom)
  <2> DEFINE before == inFlight6 + arbValue6
             after  == inFlight6' + arbValue6'
             rate   == BPS + MaxHeadroom
  <2>1. before * BPS <= sentFace6 * rate
    BY <1>1 DEF BookWithinSent
  <2>2. /\ before \in Nat /\ after \in Nat /\ rate \in Nat /\ sentFace6 \in Nat
        /\ after <= before + 0 /\ BPS \in Nat /\ BPS <= rate
    BY <1>1, <1>2, Numbers
  <2> HIDE DEF before, after, rate
  <2>3. after * BPS <= (sentFace6 + 0) * rate
    BY <2>1, <2>2, BookMonotone
  <2> QED
    BY <2>3 DEF after, rate
<1> QED
  BY <1>1, <1>3, Numbers DEF FlightWithinSent, BookWithinSent

LEMMA StrategyStepInv == ASSUME Inv, StrategyStep, UNCHANGED runbook PROVE Inv'
<1>0. TypeOK /\ FlightWithinSent /\ BookWithinSent
  BY DEF Inv
<1>1. ASSUME NEW amount \in Uint, Allocated(amount) PROVE Inv'
  <2>1. TypeOK'
    BY <1>0, <1>1, Numbers DEF Allocated, TypeOK, faces, owned, executor
  <2> QED
    BY <1>1, <2>1, BookUntouched DEF Allocated, faces, Inv
<1>2. ASSUME NEW amount \in Uint, Recall(amount) PROVE Inv'
  <2>1. TypeOK'
    BY <1>0, <1>2, Numbers DEF Recall, TypeOK, faces, owned, executor
  <2> QED
    BY <1>2, <2>1, BookUntouched DEF Recall, faces, Inv
<1>3. ASSUME NEW amount \in Uint, PushIdle(amount) PROVE Inv'
  <2>1. TypeOK'
    BY <1>0, <1>3, Numbers DEF PushIdle, TypeOK, faces, owned, executor
  <2> QED
    BY <1>3, <2>1, BookUntouched DEF PushIdle, faces, Inv
<1>4. ASSUME NEW amount \in Uint, DeployToArb(amount) PROVE Inv'
  <2>1. TypeOK'
    BY <1>0, <1>4, Numbers DEF DeployToArb, TypeOK, Sent, owned, executor
  <2>2. FlightWithinSent'
    BY <1>0, <1>4, Numbers DEF DeployToArb, FlightWithinSent
  <2>3. BookWithinSent'
    <3>1. /\ amount \in Nat /\ inFlight6 + arbValue6 \in Nat
          /\ inFlight6 + amount + arbValue6 \in Nat
          /\ inFlight6 + amount + arbValue6 <= (inFlight6 + arbValue6) + amount
          /\ BPS + MaxHeadroom \in Nat /\ BPS <= BPS + MaxHeadroom
      BY <1>0, Numbers
    <3>2. (inFlight6 + amount + arbValue6) * BPS <= (sentFace6 + amount) * (BPS + MaxHeadroom)
      BY <1>0, <3>1, Numbers, BookMonotone DEF BookWithinSent
    <3> QED
      BY <1>4, <3>2 DEF DeployToArb, BookWithinSent
  <2> QED
    BY <2>1, <2>2, <2>3 DEF Inv
<1>5. ASSUME NEW amount \in Uint, CompleteInbound(amount) PROVE Inv'
  <2>1. TypeOK'
    BY <1>0, <1>5, Numbers DEF CompleteInbound, TypeOK, Minted, owned, executor
  <2>2. /\ inFlight6' = inFlight6 /\ arbValue6' \in Nat /\ arbValue6' <= arbValue6
        /\ sentFace6' = sentFace6
    BY <1>0, <1>5, Numbers DEF CompleteInbound
  <2> QED
    BY <1>0, <2>1, <2>2, Numbers, BookLowered DEF Inv
<1>6. ASSUME NEW amount \in Uint, AckArrival(amount) PROVE Inv'
  <2>1. TypeOK'
    BY <1>0, <1>6, Numbers DEF AckArrival, TypeOK, faces, owned, executor
  <2>2. /\ inFlight6' \in Nat /\ inFlight6' <= inFlight6 /\ arbValue6' = arbValue6
        /\ sentFace6' = sentFace6
    BY <1>0, <1>6, Numbers DEF AckArrival, faces
  <2> QED
    BY <1>0, <2>1, <2>2, Numbers, BookLowered DEF Inv
<1>7. ASSUME NEW value \in Uint, SyncArbValue(value) PROVE Inv'
  <2>1. TypeOK'
    BY <1>0, <1>7, Numbers DEF SyncArbValue, TypeOK, faces, owned, executor
  <2>2. /\ inFlight6' = inFlight6 /\ sentFace6' = sentFace6 /\ arbValue6' = value
        /\ value <= ValueCap /\ value \in Nat
    BY <1>0, <1>7, Numbers DEF SyncArbValue, faces
  <2>3. BookWithinSent'
    <3>1. ValueCap \in Nat /\ (inFlight6 + ValueCap) * BPS <= sentFace6 * (BPS + MaxHeadroom)
      BY <1>0, CapBound
    <3>2. (inFlight6 + value) * BPS <= (inFlight6 + ValueCap) * BPS
      BY <1>0, <2>2, <3>1, Numbers, ProductMonotone
    <3>3. /\ (inFlight6 + value) * BPS \in Nat /\ (inFlight6 + ValueCap) * BPS \in Nat
          /\ sentFace6 * (BPS + MaxHeadroom) \in Nat
      BY <1>0, <2>2, <3>1, Numbers, ProductType
    <3>4. (inFlight6 + value) * BPS <= sentFace6 * (BPS + MaxHeadroom)
      BY <3>1, <3>2, <3>3
    <3> QED
      BY <2>2, <3>4 DEF BookWithinSent
  <2> QED
    BY <1>0, <2>1, <2>2, <2>3 DEF Inv, FlightWithinSent
<1>8. ASSUME NEW headroom \in Headrooms, NEW minimum \in MinBridges,
             SetParams(headroom, minimum)
      PROVE  Inv'
  <2>1. TypeOK'
    BY <1>0, <1>8 DEF SetParams, TypeOK, faces, executor
  <2> QED
    BY <1>8, <2>1, BookUntouched DEF SetParams, faces, Inv
<1>9. ASSUME NEW active \in BOOLEAN, SetActive(active) PROVE Inv'
  <2>1. TypeOK'
    BY <1>0, <1>9 DEF SetActive, TypeOK, faces, executor
  <2> QED
    BY <1>9, <2>1, BookUntouched DEF SetActive, faces, Inv
<1> QED
  BY <1>1, <1>2, <1>3, <1>4, <1>5, <1>6, <1>7, <1>8, <1>9 DEF StrategyStep

(* The other chain, the bridge and the readings leave the books alone.     *)
LEMMA RemoteStepInv == ASSUME Inv, ExecutorStep \/ BridgeStep, UNCHANGED runbook PROVE Inv'
<1>0. TypeOK
  BY DEF Inv
<1>1. ASSUME NEW amount \in Uint, NEW slip \in 0..Slip,
             BuyPT(amount, slip) \/ SellPT(amount, slip) \/ BridgeBack(amount)
      PROVE  Inv'
  <2>1. TypeOK'
    <3>1. CASE BuyPT(amount, slip)
      BY <1>0, <3>1, Numbers DEF BuyPT, TypeOK, faces, owned
    <3>2. CASE SellPT(amount, slip)
      BY <1>0, <3>2, Numbers DEF SellPT, TypeOK, faces, owned
    <3>3. CASE BridgeBack(amount)
      BY <1>0, <3>3, Numbers DEF BridgeBack, Sent, TypeOK, faces, owned
    <3> QED
      BY <1>1, <3>1, <3>2, <3>3
  <2>2. UNCHANGED <<sentFace6, inFlight6, arbValue6>>
    BY <1>1 DEF BuyPT, SellPT, BridgeBack, faces
  <2> QED
    BY <2>1, <2>2, BookUntouched DEF Inv
<1>2. ASSUME NEW amount \in Uint, Arrive(amount) \/ ReceiveDirectly(amount) \/ ReadArb(amount)
      PROVE  Inv'
  <2>1. TypeOK'
    <3>1. CASE Arrive(amount)
      BY <1>0, <3>1, Numbers DEF Arrive, Minted, TypeOK, faces, owned
    <3>2. CASE ReceiveDirectly(amount)
      BY <1>0, <3>2, Numbers DEF ReceiveDirectly, Minted, TypeOK, faces, owned, executor
    <3>3. CASE ReadArb(amount)
      BY <1>0, <3>3, Numbers DEF ReadArb, TypeOK, faces, owned, executor
    <3> QED
      BY <1>2, <3>1, <3>2, <3>3
  <2>2. UNCHANGED <<sentFace6, inFlight6, arbValue6>>
    BY <1>2 DEF Arrive, ReceiveDirectly, ReadArb, faces
  <2> QED
    BY <2>1, <2>2, BookUntouched DEF Inv
<1> QED
  BY <1>1, <1>2 DEF ExecutorStep, BridgeStep

LEMMA StutterInv == ASSUME Inv, UNCHANGED vars PROVE Inv'
  BY DEF Inv, vars, faces, owned, executor, TypeOK, FlightWithinSent, BookWithinSent

(* The keeper can attest and acknowledge what it likes, in any order: the  *)
(* remote part of totalAssets stays within what left the strategy and the  *)
(* headroom.                                                               *)
THEOREM BookIsBounded == Spec => []BookWithinSent
<1>1. Inv /\ [Next]_vars => Inv'
  BY StrategyStepInv, RemoteStepInv, StutterInv DEF Next
<1>2. Inv => BookWithinSent
  BY DEF Inv
<1> QED
  BY <1>1, <1>2, InitInv, PTL DEF Spec

(* No counter, balance or message count leaves its type.                   *)
THEOREM TypeCorrect == Spec => []TypeOK
<1>1. Inv /\ [Next]_vars => Inv'
  BY StrategyStepInv, RemoteStepInv, StutterInv DEF Next
<1>2. Inv => TypeOK
  BY DEF Inv
<1> QED
  BY <1>1, <1>2, InitInv, PTL DEF Spec

-----------------------------------------------------------------------------
(* What is between the chains, and what the books say of it.               *)

LEMMA TransitType == ASSUME NEW m \in [Uint -> Nat] PROVE InTransit(m) \in Nat
<1> DEFINE f == [a \in Uint |-> a * m[a]]
<1>1. f \in [Uint -> Nat]
  <2>1. ASSUME NEW a \in Uint PROVE a * m[a] \in Nat
    <3>1. a \in Nat /\ m[a] \in Nat
      BY SleeveAssumption DEF Uint
    <3> QED
      BY <3>1, ProductType
  <2> QED
    BY <2>1
<1>2. IsFiniteSet(Uint)
  BY FS_Interval, SleeveAssumption DEF Uint
<1> HIDE DEF f
<1>3. SumFunction(f) \in Nat
  BY <1>1, <1>2, SumNatural
<1> QED
  BY <1>3 DEF InTransit, f

(* A burn adds its amount to what is in transit, a mint takes it off.      *)
LEMMA TransitChange ==
    ASSUME NEW m \in [Uint -> Nat], NEW amount \in Uint
    PROVE  /\ InTransit(Sent(m, amount)) = InTransit(m) + amount
           /\ InTransit(Minted(m, amount)) = InTransit(m) - amount
<1> DEFINE f == [a \in Uint |-> a * m[a]]
           g == [a \in Uint |-> a * Sent(m, amount)[a]]
           h == [a \in Uint |-> a * Minted(m, amount)[a]]
<1>1. amount \in Nat /\ m[amount] \in Nat /\ IsFiniteSet(Uint)
  <2>1. amount \in Nat /\ IsFiniteSet(Uint)
    BY FS_Interval, SleeveAssumption DEF Uint
  <2> QED
    BY <2>1
<1>2. /\ f[amount] = amount * m[amount]
      /\ g[amount] = amount * (m[amount] + 1) /\ h[amount] = amount * (m[amount] - 1)
  BY DEF Sent, Minted
<1>3. /\ f[amount] \in Int
      /\ g[amount] = f[amount] + amount /\ h[amount] = f[amount] - amount
  <2>1. /\ amount * m[amount] \in Int
        /\ amount * (m[amount] + 1) = amount * m[amount] + amount * 1
        /\ amount * (m[amount] - 1) = amount * m[amount] - amount * 1
    BY <1>1, Distribution
  <2> QED
    BY <1>1, <1>2, <2>1
<1>4. \A a \in Uint \ {amount} : g[a] = f[a]
  BY DEF Sent
<1>5. \A a \in Uint \ {amount} : h[a] = f[a]
  BY DEF Minted
<1>6. f \in [Uint -> Int]
  <2>1. ASSUME NEW a \in Uint PROVE a * m[a] \in Int
    <3>1. a \in Nat /\ m[a] \in Nat
      BY SleeveAssumption DEF Uint
    <3> QED
      BY <3>1, ProductType
  <2> QED
    BY <2>1
<1>7. g = [a \in Uint |-> g[a]] /\ h = [a \in Uint |-> h[a]]
  OBVIOUS
<1> HIDE DEF f, g, h
<1>8. \A a \in Uint : g[a] \in Int /\ h[a] \in Int
  BY <1>1, <1>3, <1>4, <1>5, <1>6
<1>9. g \in [Uint -> Int] /\ h \in [Uint -> Int]
  BY <1>7, <1>8
<1>10. SumFunction(g) = SumFunction(f) + (g[amount] - f[amount])
  BY <1>1, <1>4, <1>6, <1>9, SumChange
<1>11. SumFunction(h) = SumFunction(f) + (h[amount] - f[amount])
  BY <1>1, <1>5, <1>6, <1>9, SumChange
<1>12. SumFunction(f) \in Int
  BY <1>1, <1>6, SumType
<1>13. /\ InTransit(m) = SumFunction(f)
       /\ InTransit(Sent(m, amount)) = SumFunction(g)
       /\ InTransit(Minted(m, amount)) = SumFunction(h)
  BY DEF InTransit, f, g, h
<1> QED
  BY <1>1, <1>3, <1>10, <1>11, <1>12, <1>13

Out  == InTransit(outbound)
Back == InTransit(inbound)

(* The totals alone are not inductive.  An arrival is counted twice until  *)
(* it is acknowledged: as flight, and in the executor's USDC that the      *)
(* keeper could read.  So while some arrival is open, it must be whole on  *)
(* the executor, the attested value must fit beside it into what is there  *)
(* or on its way back, and so must the reading the keeper still holds.  A  *)
(* return minted behind the strategy's back breaks the attested value      *)
(* only.                                                                   *)
OnRunbook ==
    runbook =>
        /\ inFlight6 = Out + unacked
        /\ unacked <= arbUsdc
        /\ ~DirectReceive => arbValue6 + unacked <= arbUsdc + pt + Back + lost
        /\ quote # NoQuote => quote + unacked <= arbUsdc + pt + lost

RunbookInv == Inv /\ OnRunbook

LEMMA TransitNumbers ==
    TypeOK => Out \in Nat /\ Back \in Nat
  BY TransitType DEF TypeOK, Out, Back

LEMMA RunbookPromise ==
    ASSUME RunbookInv
    PROVE  FlightCovered /\ (~DirectReceive => CountsOnce)
<1>1. TypeOK /\ OnRunbook
  BY DEF RunbookInv, Inv
<1>2. FlightCovered
  BY <1>1 DEF OnRunbook, FlightCovered, Out
<1>3. ASSUME ~DirectReceive PROVE CountsOnce
  <2> SUFFICES ASSUME runbook PROVE TotalAssets <= Real + lost
    BY DEF CountsOnce
  <2>1. TotalAssets = idle + inFlight6 + arbValue6 /\ Real = idle + Out + arbUsdc + pt + Back
    BY DEF TotalAssets, Real, Out, Back
  <2>2. inFlight6 = Out + unacked /\ arbValue6 + unacked <= arbUsdc + pt + Back + lost
    BY <1>1, <1>3 DEF OnRunbook
  <2> QED
    BY <1>1, <2>1, <2>2, Numbers, TransitNumbers
<1> QED
  BY <1>2, <1>3

(* What a step must do to the figures the runbook keeps in line.           *)
LEMMA StrategyStepOnRunbook ==
    ASSUME RunbookInv, StrategyStep, UNCHANGED runbook
    PROVE  OnRunbook'
<1> SUFFICES ASSUME runbook
             PROVE  /\ inFlight6' = Out' + unacked'
                    /\ unacked' <= arbUsdc'
                    /\ ~DirectReceive => arbValue6' + unacked' <= arbUsdc' + pt' + Back' + lost'
                    /\ quote' # NoQuote => quote' + unacked' <= arbUsdc' + pt' + lost'
  BY DEF OnRunbook
<1>1. /\ TypeOK /\ inFlight6 = Out + unacked
      /\ unacked <= arbUsdc
      /\ ~DirectReceive => arbValue6 + unacked <= arbUsdc + pt + Back + lost
      /\ quote # NoQuote => quote + unacked <= arbUsdc + pt + lost
  BY DEF RunbookInv, Inv, OnRunbook
<1>2. /\ {inFlight6, unacked, arbUsdc, arbValue6, pt, lost, Out, Back} \subseteq Nat
      /\ quote # NoQuote => quote \in Nat
      /\ outbound \in [Uint -> Nat] /\ inbound \in [Uint -> Nat] /\ Uint \subseteq Nat
  BY <1>1, Numbers, TransitNumbers DEF TypeOK
<1>3. ASSUME UNCHANGED <<inFlight6, arbValue6, outbound, inbound, executor, quote, unacked, lost>>
      PROVE  /\ inFlight6' = Out' + unacked'
             /\ unacked' <= arbUsdc'
             /\ ~DirectReceive => arbValue6' + unacked' <= arbUsdc' + pt' + Back' + lost'
             /\ quote' # NoQuote => quote' + unacked' <= arbUsdc' + pt' + lost'
  BY <1>1, <1>3 DEF executor, Out, Back
<1>4. ASSUME NEW amount \in Uint, Allocated(amount) \/ Recall(amount) \/ PushIdle(amount)
      PROVE  UNCHANGED <<inFlight6, arbValue6, outbound, inbound, executor, quote, unacked, lost>>
  BY <1>4 DEF Allocated, Recall, PushIdle
<1>5. ASSUME NEW headroom, NEW minimum, SetParams(headroom, minimum)
      PROVE  UNCHANGED <<inFlight6, arbValue6, outbound, inbound, executor, quote, unacked, lost>>
  BY <1>5 DEF SetParams
<1>6. ASSUME NEW active, SetActive(active)
      PROVE  UNCHANGED <<inFlight6, arbValue6, outbound, inbound, executor, quote, unacked, lost>>
  BY <1>6 DEF SetActive
<1>7. ASSUME NEW amount \in Uint, DeployToArb(amount) PROVE OnRunbook'
  <2>1. Out' = Out + amount
    BY <1>2, <1>7, TransitChange DEF DeployToArb, Out
  <2>2. /\ inFlight6' = inFlight6 + amount
        /\ UNCHANGED <<arbValue6, inbound, arbUsdc, pt, quote, unacked, lost>>
    BY <1>7 DEF DeployToArb, executor
  <2>3. Back' = Back
    BY <2>2 DEF Back
  <2> QED
    BY <1>1, <1>2, <2>1, <2>2, <2>3 DEF OnRunbook
<1>8. ASSUME NEW amount \in Uint, CompleteInbound(amount) PROVE OnRunbook'
  <2>1. Back' = Back - amount
    BY <1>2, <1>8, TransitChange DEF CompleteInbound, Back
  <2>2. /\ arbValue6' = IF arbValue6 > amount THEN arbValue6 - amount ELSE 0
        /\ UNCHANGED <<inFlight6, outbound, arbUsdc, pt, quote, unacked, lost>>
    BY <1>8 DEF CompleteInbound, executor
  <2>3. Out' = Out
    BY <2>2 DEF Out
  <2>4. Back' \in Nat
    <3>1. inbound' \in [Uint -> Nat]
      BY <1>2, <1>8 DEF CompleteInbound, Minted
    <3> QED
      BY <3>1, TransitType DEF Back
  <2> QED
    BY <1>1, <1>2, <2>1, <2>2, <2>3, <2>4 DEF OnRunbook
<1>9. ASSUME NEW amount \in Uint, AckArrival(amount) PROVE OnRunbook'
  <2>1. /\ inFlight6' = inFlight6 - amount /\ unacked' = unacked - amount
        /\ UNCHANGED <<arbValue6, outbound, inbound, arbUsdc, pt, quote, lost>>
    BY <1>9 DEF AckArrival, executor
  <2>2. Out' = Out /\ Back' = Back
    BY <2>1 DEF Out, Back
  <2> QED
    BY <1>1, <1>2, <2>1, <2>2 DEF OnRunbook
<1>10. ASSUME NEW value \in Uint, SyncArbValue(value) PROVE OnRunbook'
  <2>1. /\ value = quote /\ arbValue6' = value /\ quote' = NoQuote
        /\ UNCHANGED <<inFlight6, outbound, inbound, arbUsdc, pt, unacked, lost>>
    BY <1>10 DEF SyncArbValue, executor
  <2>2. Out' = Out /\ Back' = Back
    BY <2>1 DEF Out, Back
  <2>3. quote # NoQuote
    BY <1>2, <2>1 DEF NoQuote
  <2> QED
    BY <1>1, <1>2, <2>1, <2>2, <2>3 DEF OnRunbook
<1> QED
  BY <1>3, <1>4, <1>5, <1>6, <1>7, <1>8, <1>9, <1>10 DEF StrategyStep, OnRunbook

(* The runbook settles arrivals before it trades or bridges, and does not  *)
(* bridge on an open reading.                                              *)
LEMMA RemoteStepOnRunbook ==
    ASSUME RunbookInv, ExecutorStep \/ BridgeStep, UNCHANGED runbook
    PROVE  OnRunbook'
<1> SUFFICES ASSUME runbook PROVE OnRunbook'
  BY DEF OnRunbook
<1>1. /\ TypeOK /\ inFlight6 = Out + unacked
      /\ unacked <= arbUsdc
      /\ ~DirectReceive => arbValue6 + unacked <= arbUsdc + pt + Back + lost
      /\ quote # NoQuote => quote + unacked <= arbUsdc + pt + lost
  BY DEF RunbookInv, Inv, OnRunbook
<1>2. /\ {inFlight6, unacked, arbUsdc, arbValue6, pt, lost, Out, Back} \subseteq Nat
      /\ quote # NoQuote => quote \in Nat
      /\ outbound \in [Uint -> Nat] /\ inbound \in [Uint -> Nat] /\ Uint \subseteq Nat
      /\ Slip \in Nat
  BY <1>1, Numbers, TransitNumbers DEF TypeOK
<1>3. ASSUME NEW amount \in Uint, NEW slip \in 0..Slip, BuyPT(amount, slip) PROVE OnRunbook'
  <2>1. /\ arbUsdc' = arbUsdc - amount /\ pt' = pt + amount + slip /\ amount <= arbUsdc
        /\ unacked = 0 /\ slip \in Nat /\ amount \in Nat
        /\ UNCHANGED <<inFlight6, arbValue6, outbound, inbound, quote, unacked, lost>>
    BY <1>2, <1>3 DEF BuyPT, Settled
  <2>2. Out' = Out /\ Back' = Back
    BY <2>1 DEF Out, Back
  <2> QED
    BY <1>1, <1>2, <2>1, <2>2 DEF OnRunbook
<1>4. ASSUME NEW amount \in Uint, NEW slip \in 0..Slip, SellPT(amount, slip) PROVE OnRunbook'
  <2>1. /\ pt' = pt - amount /\ arbUsdc' = arbUsdc + amount - slip /\ lost' = lost + slip
        /\ unacked = 0 /\ slip \in Nat /\ amount \in Nat /\ slip <= amount
        /\ UNCHANGED <<inFlight6, arbValue6, outbound, inbound, quote, unacked>>
    BY <1>2, <1>4 DEF SellPT, Settled
  <2>2. Out' = Out /\ Back' = Back
    BY <2>1 DEF Out, Back
  <2> QED
    BY <1>1, <1>2, <2>1, <2>2 DEF OnRunbook
<1>5. ASSUME NEW amount \in Uint, BridgeBack(amount) PROVE OnRunbook'
  <2>1. /\ arbUsdc' = arbUsdc - amount /\ quote = NoQuote /\ amount <= arbUsdc
        /\ unacked = 0 /\ amount \in Nat
        /\ UNCHANGED <<inFlight6, arbValue6, outbound, pt, quote, unacked, lost>>
    BY <1>2, <1>5 DEF BridgeBack, Settled
  <2>2. Out' = Out
    BY <2>1 DEF Out
  <2>3. Back' = Back + amount
    BY <1>2, <1>5, TransitChange DEF BridgeBack, Back
  <2> QED
    BY <1>1, <1>2, <2>1, <2>2, <2>3 DEF OnRunbook
<1>6. ASSUME NEW amount \in Uint, Arrive(amount) PROVE OnRunbook'
  <2>1. /\ arbUsdc' = arbUsdc + amount /\ unacked' = unacked + amount /\ amount \in Nat
        /\ UNCHANGED <<inFlight6, arbValue6, inbound, pt, quote, lost>>
    BY <1>2, <1>6 DEF Arrive
  <2>2. Back' = Back
    BY <2>1 DEF Back
  <2>3. Out' = Out - amount
    BY <1>2, <1>6, TransitChange DEF Arrive, Out
  <2> QED
    BY <1>1, <1>2, <2>1, <2>2, <2>3 DEF OnRunbook
<1>7. ASSUME NEW amount \in Uint, ReceiveDirectly(amount) PROVE OnRunbook'
  <2>1. /\ DirectReceive
        /\ UNCHANGED <<inFlight6, arbValue6, outbound, arbUsdc, pt, quote, unacked, lost>>
    BY <1>7 DEF ReceiveDirectly, executor
  <2>2. Out' = Out
    BY <2>1 DEF Out
  <2> QED
    BY <1>1, <2>1, <2>2 DEF OnRunbook
<1>8. ASSUME NEW value \in Uint, ReadArb(value) PROVE OnRunbook'
  <2>1. /\ value <= arbUsdc + pt /\ quote' = value /\ unacked = 0 /\ value \in Nat
        /\ UNCHANGED <<inFlight6, arbValue6, outbound, inbound, arbUsdc, pt, unacked, lost>>
    BY <1>2, <1>8 DEF ReadArb, executor
  <2>2. Out' = Out /\ Back' = Back
    BY <2>1 DEF Out, Back
  <2> QED
    BY <1>1, <1>2, <2>1, <2>2 DEF OnRunbook
<1> QED
  BY <1>3, <1>4, <1>5, <1>6, <1>7, <1>8 DEF ExecutorStep, BridgeStep

LEMMA RunbookStarts == Init => RunbookInv
<1> SUFFICES ASSUME Init PROVE RunbookInv
  OBVIOUS
<1> DEFINE none == [a \in Uint |-> 0]
           f == [a \in Uint |-> a * none[a]]
<1>1. InTransit(none) = 0
  <2>1. IsFiniteSet(Uint) /\ \A a \in Uint : a \in Nat
    BY FS_Interval, SleeveAssumption DEF Uint
  <2>2. f \in [Uint -> Int] /\ \A a \in Uint : f[a] = 0
    BY <2>1
  <2>3. InTransit(none) = SumFunction(f)
    BY DEF InTransit
  <2> HIDE DEF f, none
  <2> QED
    BY <2>1, <2>2, <2>3, SumZero
<1>2. Out = InTransit(none) /\ Back = InTransit(none)
  BY DEF Init, Out, Back
<1> QED
  BY <1>1, <1>2, InitInv DEF Init, RunbookInv, OnRunbook

LEMMA RunbookStep == ASSUME RunbookInv, [Next]_vars PROVE RunbookInv'
<1>1. Inv /\ Inv'
  BY StrategyStepInv, RemoteStepInv, StutterInv DEF RunbookInv, Next
<1>2. CASE UNCHANGED vars
  <2>1. UNCHANGED <<inFlight6, unacked, arbUsdc, arbValue6, pt, lost, quote, runbook,
                    outbound, inbound>>
    BY <1>2 DEF vars, executor
  <2>2. Out' = Out /\ Back' = Back
    BY <2>1 DEF Out, Back
  <2>3. OnRunbook'
    BY <2>1, <2>2 DEF RunbookInv, OnRunbook
  <2> QED
    BY <1>1, <2>3 DEF RunbookInv
<1> QED
  BY <1>1, <1>2, StrategyStepOnRunbook, RemoteStepOnRunbook DEF RunbookInv, Next

(* On the runbook every burn that has not arrived, and every arrival not   *)
(* acknowledged, is in the flight counter, and nothing else is.            *)
THEOREM FlightIsCovered == Spec => []FlightCovered
<1>1. RunbookInv => FlightCovered
  BY RunbookPromise
<1> QED
  BY <1>1, RunbookStarts, RunbookStep, PTL DEF Spec

(* On the runbook, with returns completed on the strategy and not minted   *)
(* behind its back, totalAssets counts no dollar twice.                    *)
THEOREM DollarsCountOnce == ASSUME ~DirectReceive PROVE Spec => []CountsOnce
<1>1. RunbookInv => CountsOnce
  BY RunbookPromise
<1> QED
  BY <1>1, RunbookStarts, RunbookStep, PTL DEF Spec
=============================================================================
