--------------------------- MODULE CronJobs_proofs ---------------------------
(***************************************************************************)
(* Proofs about the jobs the cron starts.  GasDripper, for any rows, tanks, *)
(* caps and failures: types, and that no recipient is paid twice for one   *)
(* recorded drip.  Publishing, for any number of blocks, days, runs and    *)
(* failures: types, that the sentinel sends no flow twice and raises the   *)
(* alarm for what it says, and that what is published is whole and was     *)
(* read in its own run.                                                    *)
(***************************************************************************)
EXTENDS GasDripper, Publishing, TLAPS

-----------------------------------------------------------------------------
(* The gas dripper.                                                        *)

\* The loop is at one row: two rows of a leg have different ids.
LEMMA CurrentIsUnique ==
    ASSUME TypeOK, NEW r, NEW q, Current(r), Current(q)
    PROVE  r = q
<1>1. r \in Pending(leg) /\ q \in Pending(leg)
  BY DEF TypeOK, Current
<1>2. r \in Legs \X Nat /\ q \in Legs \X Nat /\ r[1] = q[1]
  BY <1>1, DripperAssumption DEF Pending
<1>3. r[2] <= q[2] /\ q[2] <= r[2]
  BY DEF Current
<1>4. r[2] = q[2]
  BY <1>2, <1>3
<1> QED
  BY <1>2, <1>4

\* What a run has in hand, apart from the types.
Hand ==
    /\ todo \subseteq Pending(leg)
    /\ (pc \in {"send", "wait"}) = (todo # {})

\* A leg that is over leaves nothing in hand.
LEMMA OverIsOK ==
    ASSUME TypeOK, LegOver
    PROVE  /\ pc' \in {"idle", "leg"} /\ leg' \in Legs /\ todo' = {} /\ bal' = bal /\ Hand'
<1>1. pc' \in {"idle", "leg"} /\ leg' \in Legs /\ todo' = {} /\ bal' = bal
  BY DEF LegOver, End, Legs, TypeOK
<1> QED
  BY <1>1 DEF Hand

\* The next row leaves the rest of the rows in hand, if only this one may
\* have changed its status.
LEMMA NextIsOK ==
    ASSUME TypeOK, NEW r \in Rows, r \in todo, NextRow(r),
           \A q \in Rows : q # r => status'[q] = status[q]
    PROVE  /\ pc' \in {"idle", "leg", "send"} /\ leg' \in Legs /\ bal' = bal
           /\ todo' \subseteq todo \ {r} /\ Hand'
<1>1. CASE todo = {r}
  BY <1>1, OverIsOK DEF NextRow
<1>2. CASE todo # {r}
  <2>1. pc' = "send" /\ todo' = todo \ {r} /\ leg' = leg /\ bal' = bal
    BY <1>2 DEF NextRow
  <2>2. todo' # {} /\ todo \subseteq Pending(leg) /\ leg \in Legs
    BY <1>2, <2>1 DEF TypeOK
  <2>3. todo' \subseteq Pending(leg)'
    BY <2>1, <2>2 DEF Pending
  <2> QED
    BY <2>1, <2>2, <2>3 DEF Hand
<1> QED
  BY <1>1, <1>2

\* Counters stay counters.
LEMMA CountUp ==
    ASSUME NEW f \in [Rows -> Nat], NEW r \in Rows
    PROVE  [f EXCEPT ![r] = @ + 1] \in [Rows -> Nat]
  OBVIOUS

\* A failure is counted within its bound.
LEMMA FaultIsOK == ASSUME TypeOK, Fault PROVE faults' \in 0..MaxFaults
  BY DripperAssumption DEF TypeOK, Fault

\* Types hold at the start ...
LEMMA TypeInit == Init => TypeOK
  BY DripperAssumption DEF Init, TypeOK, Legs, Recorded, Pending

\* ... and after every step.
LEMMA TypeNext == TypeOK /\ [Next]_vars => TypeOK'
<1> SUFFICES ASSUME TypeOK, [Next]_vars PROVE TypeOK'
  OBVIOUS
<1>h. Hand
  BY DEF TypeOK, Hand
<1>1. CASE UNCHANGED vars
  BY <1>1 DEF vars, run, TypeOK, Pending
<1>2. ASSUME NEW r \in Rows, Request(r) PROVE TypeOK'
  <2>1. status' \in [Rows -> Recorded \cup {"none", "pending"}]
    BY <1>2 DEF Request, TypeOK
  <2>2. Pending(leg) \subseteq Pending(leg)'
    BY <1>2 DEF Request, Pending, run, TypeOK
  <2> QED
    BY <1>2, <2>1, <2>2 DEF Request, run, TypeOK
<1>3. ASSUME NEW l \in Legs, FundTank(l) PROVE TypeOK'
  BY <1>3 DEF FundTank, run, TypeOK, Pending
<1>4. CASE StartRun
  BY <1>4 DEF StartRun, TypeOK, Pending, Legs
<1>5. CASE ReadLeg
  <2>1. UNCHANGED <<status, tank, sent, unrecorded, faults>>
    BY <1>5 DEF ReadLeg
  <2>2. CASE LegOver
    BY <2>1, <2>2, OverIsOK DEF TypeOK, Hand
  <2>3. CASE pc' = "send" /\ todo' = Selected(leg) /\ bal' = tank[leg] /\ leg' = leg /\ Selected(leg) # {}
    <3>1. Selected(leg) \subseteq Pending(leg)
      BY DEF Selected
    <3>2. Pending(leg)' = Pending(leg)
      BY <2>1, <2>3 DEF Pending
    <3>3. tank[leg] \in Nat
      BY DEF TypeOK
    <3> QED
      BY <2>1, <2>3, <3>1, <3>2, <3>3 DEF TypeOK
  <2> QED
    BY <1>5, <2>2, <2>3 DEF ReadLeg
<1>6. CASE SkipLeg \/ TankLow
  <2>1. UNCHANGED <<status, tank, sent, unrecorded>> /\ LegOver /\ faults' \in 0..MaxFaults
    BY <1>6, FaultIsOK DEF SkipLeg, TankLow, TypeOK
  <2> QED
    BY <2>1, OverIsOK DEF TypeOK, Hand
<1>7. CASE LegThrows
  <2>1. faults' \in 0..MaxFaults
    BY <1>7, FaultIsOK DEF LegThrows
  <2> QED
    BY <1>7, <2>1 DEF LegThrows, End, TypeOK, Pending
<1>8. CASE Crash
  <2>1. faults' \in 0..MaxFaults
    BY <1>8, FaultIsOK DEF Crash
  <2>2. unrecorded' \in [Rows -> Nat]
    BY <1>8 DEF Crash, TypeOK
  <2> QED
    BY <1>8, <2>1, <2>2 DEF Crash, End, TypeOK, Pending
<1>9. ASSUME NEW r \in Rows, Send(r) PROVE TypeOK'
  <2>1. r \in todo /\ pc = "send" /\ tank[leg] > 0 /\ leg \in Legs
    BY <1>9 DEF Send, Broadcast, Funded, Current, TypeOK
  <2>2. tank' = [tank EXCEPT ![leg] = @ - 1] /\ sent' = [sent EXCEPT ![r] = @ + 1]
        /\ pc' = "wait" /\ UNCHANGED <<status, leg, todo, bal, unrecorded, faults>>
    BY <1>9 DEF Send, Broadcast
  <2>3. tank[leg] - 1 \in Nat
    BY <2>1 DEF TypeOK
  <2>4. tank' \in [Legs -> Nat] /\ sent' \in [Rows -> Nat]
    BY <2>1, <2>2, <2>3, CountUp DEF TypeOK
  <2> QED
    BY <2>1, <2>2, <2>4 DEF TypeOK, Pending
<1>10. ASSUME NEW r \in Rows, SendThrows(r) \/ SendFails(r) PROVE TypeOK'
  <2>1. r \in todo /\ NextRow(r) /\ UNCHANGED <<status, tank, sent, unrecorded>>
    BY <1>10 DEF SendThrows, SendFails, Current
  <2>2. faults' \in 0..MaxFaults
    BY <1>10, FaultIsOK DEF SendThrows, SendFails, TypeOK
  <2> QED
    BY <2>1, <2>2, NextIsOK DEF TypeOK, Hand
<1>11. ASSUME NEW r \in Rows, AnswerLost(r) PROVE TypeOK'
  <2>1. r \in todo /\ NextRow(r) /\ tank[leg] > 0 /\ leg \in Legs
    BY <1>11 DEF AnswerLost, Broadcast, Current, TypeOK
  <2>2. tank' = [tank EXCEPT ![leg] = @ - 1] /\ sent' = [sent EXCEPT ![r] = @ + 1]
        /\ unrecorded' = [unrecorded EXCEPT ![r] = @ + 1] /\ status' = status
    BY <1>11 DEF AnswerLost, Broadcast
  <2>3. tank[leg] - 1 \in Nat
    BY <2>1 DEF TypeOK
  <2>4. tank' \in [Legs -> Nat] /\ sent' \in [Rows -> Nat] /\ unrecorded' \in [Rows -> Nat]
    BY <2>1, <2>2, <2>3, CountUp DEF TypeOK
  <2>5. faults' \in 0..MaxFaults
    BY <1>11, FaultIsOK DEF AnswerLost
  <2> QED
    BY <2>1, <2>2, <2>4, <2>5, NextIsOK DEF TypeOK, Hand
<1>12. ASSUME NEW r \in Rows, NEW ok \in BOOLEAN, Settle(r, ok) PROVE TypeOK'
  <2>1. r \in todo /\ NextRow(r) /\ UNCHANGED <<tank, sent, unrecorded>>
    BY <1>12 DEF Settle, Current
  <2>2. status' = [status EXCEPT ![r] = IF ok THEN "done" ELSE "sent_unconfirmed"]
    BY <1>12 DEF Settle, Marked
  <2>3. status' \in [Rows -> Recorded \cup {"none", "pending"}]
        /\ \A q \in Rows : q # r => status'[q] = status[q]
    BY <2>2 DEF TypeOK, Recorded
  <2>4. faults' \in 0..MaxFaults
    BY <1>12, FaultIsOK DEF Settle, TypeOK
  <2> QED
    BY <2>1, <2>3, <2>4, NextIsOK DEF TypeOK, Hand
<1>13. ASSUME NEW r \in Rows, UpdateFails(r) PROVE TypeOK'
  <2>1. r \in todo /\ NextRow(r) /\ UNCHANGED <<status, tank, sent>>
        /\ unrecorded' = [unrecorded EXCEPT ![r] = @ + 1]
    BY <1>13 DEF UpdateFails, Current
  <2>2. faults' \in 0..MaxFaults /\ unrecorded' \in [Rows -> Nat]
    BY <1>13, <2>1, FaultIsOK, CountUp DEF UpdateFails, TypeOK
  <2> QED
    BY <2>1, <2>2, NextIsOK DEF TypeOK, Hand
<1> QED
  BY <1>1, <1>2, <1>3, <1>4, <1>5, <1>6, <1>7, <1>8, <1>9, <1>10, <1>11, <1>12, <1>13
  DEF Next, Work, RowStep, Failure

\* Every behaviour is of the right types, and a run has pending rows of its
\* own leg in hand.
THEOREM TypeCorrect == Spec => []TypeOK
<1>1. Spec => Init /\ [][Next]_vars
  BY DEF Spec
<1> QED
  BY <1>1, TypeInit, TypeNext, PTL

(***************************************************************************)
(* Nobody is paid twice.                                                   *)
(***************************************************************************)

\* A transfer of a row that is accounted for: recorded, or awaited right now.
Accounted(r) == IF status[r] \in Recorded \/ (pc = "wait" /\ Current(r)) THEN 1 ELSE 0

\* A row in hand is pending.
LEMMA InHandIsPending ==
    ASSUME TypeOK, NEW r, r \in todo
    PROVE  r \in Rows /\ status[r] = "pending" /\ status[r] \notin Recorded
  BY DEF TypeOK, Pending, Recorded

\* A step that leaves the row's status and awaits nothing before or after
\* leaves what is accounted for.
LEMMA SameAccount ==
    ASSUME NEW r, status'[r] = status[r],
           ~(pc = "wait" /\ Current(r)), ~(pc' = "wait" /\ Current(r)')
    PROVE  Accounted(r)' = Accounted(r)
  BY DEF Accounted

\* Nobody has been paid at the start ...
LEMMA PaidInit == Init => PaidOnce
  BY DEF Init, PaidOnce, Recorded

\* ... and every step pays or records at most the row it is at.
LEMMA PaidNext == TypeOK /\ PaidOnce /\ [Next]_vars => PaidOnce'
<1> SUFFICES ASSUME TypeOK, PaidOnce, [Next]_vars, NEW q \in Rows
             PROVE  sent'[q] = unrecorded'[q] + Accounted(q)'
  BY DEF PaidOnce, Accounted
<1>0. sent[q] \in Nat /\ unrecorded[q] \in Nat /\ sent[q] = unrecorded[q] + Accounted(q)
      /\ sent \in [Rows -> Nat] /\ unrecorded \in [Rows -> Nat]
      /\ status \in [Rows -> Recorded \cup {"none", "pending"}]
  BY DEF TypeOK, PaidOnce, Accounted
<1>1. CASE UNCHANGED vars
  BY <1>0, <1>1 DEF vars, run, Accounted, Current
<1>2. ASSUME NEW r \in Rows, Request(r) PROVE sent'[q] = unrecorded'[q] + Accounted(q)'
  <2>1. status' = [status EXCEPT ![r] = "pending"] /\ status[r] = "none"
        /\ UNCHANGED <<pc, todo, sent, unrecorded>>
    BY <1>2 DEF Request, run
  <2>2. (status'[q] \in Recorded) = (status[q] \in Recorded)
    BY <2>1, <1>0 DEF Recorded
  <2>3. Accounted(q)' = Accounted(q)
    BY <2>1, <2>2 DEF Accounted, Current
  <2> QED
    BY <1>0, <2>1, <2>3
<1>3. ASSUME NEW l \in Legs, FundTank(l) PROVE sent'[q] = unrecorded'[q] + Accounted(q)'
  BY <1>0, <1>3 DEF FundTank, run, Accounted, Current
<1>4. CASE StartRun \/ ReadLeg \/ TankLow \/ SkipLeg \/ LegThrows
  <2>1. UNCHANGED <<status, sent, unrecorded>> /\ pc # "wait" /\ pc' # "wait"
    BY <1>4 DEF StartRun, ReadLeg, TankLow, SkipLeg, LegThrows, LegOver, End
  <2> QED
    BY <1>0, <2>1 DEF Accounted
<1>5. CASE Crash
  <2>1. UNCHANGED <<status, sent>> /\ pc' = "idle"
        /\ unrecorded'[q] = unrecorded[q] + (IF pc = "wait" /\ Current(q) THEN 1 ELSE 0)
    BY <1>5 DEF Crash, End
  <2>2. pc = "wait" /\ Current(q) => status[q] \notin Recorded
    BY InHandIsPending DEF Current
  <2> QED
    BY <1>0, <2>1, <2>2 DEF Accounted
<1>6. ASSUME NEW r \in Rows, Send(r) PROVE sent'[q] = unrecorded'[q] + Accounted(q)'
  <2>1. Current(r) /\ pc = "send" /\ pc' = "wait" /\ UNCHANGED <<status, todo, unrecorded>>
        /\ sent' = [sent EXCEPT ![r] = @ + 1]
    BY <1>6 DEF Send, Broadcast, Funded
  <2>2. Current(q)' = Current(q)
    BY <2>1 DEF Current
  <2>3. CASE q = r
    <3>1. status[r] \notin Recorded
      BY <2>1, InHandIsPending DEF Current
    <3>2. sent'[q] = sent[q] + 1
      BY <2>1, <2>3, <1>0
    <3> QED
      BY <1>0, <2>1, <2>2, <2>3, <3>1, <3>2 DEF Accounted
  <2>4. CASE q # r
    <3>1. ~Current(q)
      BY <2>1, <2>4, CurrentIsUnique
    <3>2. sent'[q] = sent[q]
      BY <2>1, <2>4, <1>0
    <3> QED
      BY <1>0, <2>1, <2>2, <3>1, <3>2 DEF Accounted
  <2> QED
    BY <2>3, <2>4
<1>7. ASSUME NEW r \in Rows, SendThrows(r) \/ SendFails(r) PROVE sent'[q] = unrecorded'[q] + Accounted(q)'
  <2>1. UNCHANGED <<status, sent, unrecorded>> /\ pc = "send" /\ NextRow(r)
    BY <1>7 DEF SendThrows, SendFails, Funded
  <2>2. pc' # "wait"
    BY <2>1 DEF NextRow, LegOver, End
  <2> QED
    BY <1>0, <2>1, <2>2 DEF Accounted
<1>8. ASSUME NEW r \in Rows, AnswerLost(r) PROVE sent'[q] = unrecorded'[q] + Accounted(q)'
  <2>1. status' = status /\ pc = "send" /\ NextRow(r)
        /\ sent' = [sent EXCEPT ![r] = @ + 1] /\ unrecorded' = [unrecorded EXCEPT ![r] = @ + 1]
    BY <1>8 DEF AnswerLost, Broadcast, Funded
  <2>2. pc' # "wait"
    BY <2>1 DEF NextRow, LegOver, End
  <2>3. Accounted(q)' = Accounted(q) /\ Accounted(q) \in Nat
    BY <2>1, <2>2 DEF Accounted
  <2>4. \/ sent'[q] = sent[q] + 1 /\ unrecorded'[q] = unrecorded[q] + 1
        \/ sent'[q] = sent[q] /\ unrecorded'[q] = unrecorded[q]
    BY <2>1, <1>0
  <2> QED
    BY <1>0, <2>3, <2>4
<1>9. ASSUME NEW r \in Rows, NEW ok \in BOOLEAN, Settle(r, ok)
      PROVE  sent'[q] = unrecorded'[q] + Accounted(q)'
  <2>1. Current(r) /\ pc = "wait" /\ NextRow(r) /\ UNCHANGED <<sent, unrecorded>>
        /\ status' = [status EXCEPT ![r] = IF ok THEN "done" ELSE "sent_unconfirmed"]
    BY <1>9 DEF Settle, Marked
  <2>2. pc' # "wait"
    BY <2>1 DEF NextRow, LegOver, End
  <2>3. CASE q = r
    <3>1. status'[q] \in Recorded
      BY <2>1, <2>3, <1>0 DEF Recorded
    <3> QED
      BY <1>0, <2>1, <2>3, <3>1 DEF Accounted
  <2>4. CASE q # r
    <3>1. ~Current(q) /\ status'[q] = status[q]
      BY <2>1, <2>4, <1>0, CurrentIsUnique
    <3> QED
      BY <1>0, <2>1, <2>2, <3>1 DEF Accounted
  <2> QED
    BY <2>3, <2>4
<1>10. ASSUME NEW r \in Rows, UpdateFails(r) PROVE sent'[q] = unrecorded'[q] + Accounted(q)'
  <2>1. Current(r) /\ pc = "wait" /\ NextRow(r) /\ UNCHANGED <<sent, status>>
        /\ unrecorded' = [unrecorded EXCEPT ![r] = @ + 1]
    BY <1>10 DEF UpdateFails
  <2>2. pc' # "wait"
    BY <2>1 DEF NextRow, LegOver, End
  <2>3. CASE q = r
    <3>1. status[q] \notin Recorded
      BY <2>1, <2>3, InHandIsPending DEF Current
    <3>2. unrecorded'[q] = unrecorded[q] + 1
      BY <2>1, <2>3, <1>0
    <3> QED
      BY <1>0, <2>1, <2>2, <2>3, <3>1, <3>2 DEF Accounted
  <2>4. CASE q # r
    <3>1. ~Current(q)
      BY <2>1, <2>4, CurrentIsUnique
    <3>2. unrecorded'[q] = unrecorded[q]
      BY <2>1, <2>4, <1>0
    <3> QED
      BY <1>0, <2>1, <2>2, <3>1, <3>2 DEF Accounted
  <2> QED
    BY <2>3, <2>4
<1> QED
  BY <1>1, <1>2, <1>3, <1>4, <1>5, <1>6, <1>7, <1>8, <1>9, <1>10
  DEF Next, Work, RowStep, Failure

\* A recipient is paid once, and once more for each UPDATE that never landed,
\* whatever fails and whenever the process dies.
THEOREM NobodyIsPaidTwice == Spec => []PaidOnce
<1>1. Spec => Init /\ [][Next]_vars
  BY DEF Spec
<1> QED
  BY <1>1, TypeInit, TypeNext, PaidInit, PaidNext, PTL

-----------------------------------------------------------------------------
(* The chain as the publishing jobs see it: it only grows.                 *)

LEMMA LogGrows ==
    ASSUME LiveTypeOK, NEW kind \in Kinds, Mine(kind)
    PROVE  /\ LiveTypeOK' /\ Block \in Nat /\ Block' = Block + 1
           /\ \A i \in 1..Block : log'[i] = log[i]
           /\ Flows \subseteq Flows' /\ Flows' \subseteq Flows \cup {Block'}
<1>1. log \in Seq(Kinds) /\ Len(log) < MaxBlock /\ log' = Append(log, kind) /\ MaxBlock \in Nat
  BY PublishAssumption DEF LiveTypeOK, Mine, Block
<1>2. Len(log') = Len(log) + 1 /\ log' \in Seq(Kinds) /\ Len(log) \in Nat
  BY <1>1
<1>3. \A i \in 1..Len(log) : log'[i] = log[i]
  BY <1>1
<1>4. Flows \subseteq Flows' /\ Flows' \subseteq Flows \cup {Len(log')}
  BY <1>2, <1>3 DEF Flows, Block
<1> QED
  BY <1>1, <1>2, <1>3, <1>4 DEF LiveTypeOK, Mine, Block

LEMMA BlockType == LiveTypeOK => Block \in Nat /\ Block <= MaxBlock /\ MaxBlock \in Nat
  BY PublishAssumption DEF LiveTypeOK, Block

\* Nothing is mined in this step.
LEMMA SameChain ==
    ASSUME LiveTypeOK, NEW ok, Answers(ok)
    PROVE  LiveTypeOK' /\ Block' = Block /\ Flows' = Flows
<1>1. failures' \in 0..MaxFailures
  BY PublishAssumption DEF LiveTypeOK, Answers
<1> QED
  BY <1>1 DEF LiveTypeOK, Answers, Block, Flows

LEMMA QuietChain ==
    ASSUME LiveTypeOK, UNCHANGED <<log, failures>>
    PROVE  LiveTypeOK' /\ Block' = Block /\ Flows' = Flows
  BY DEF LiveTypeOK, Block, Flows

-----------------------------------------------------------------------------
(* The sentinel.                                                           *)

\* A flow that a run has scanned and got out.
Sent(b) ==
    /\ b \in Flows /\ prev # NoReading
    /\ armedAt <= b /\ b <= prev.block /\ b \notin missed \cup alerts

WatchTypeOK ==
    /\ prev \in [block : Null..Block, fields : Torn..Block]
    /\ cur \in [block : Null..Block, fields : Torn..Block]
    /\ watching \in {"idle", "fields", "scan", "notify"}
    /\ alerts \subseteq Flows /\ missed \subseteq Flows
    /\ reported \in [1..MaxBlock -> Nat] /\ armedAt \in Int

\* Readings follow each other: the fields are read after the block number,
\* and a run after the one whose reading it finds.
ReadingsFollow ==
    /\ \/ prev = NoReading \/ prev.fields = Torn
       \/ 0 <= prev.block /\ prev.block <= prev.fields
    /\ watching \in {"fields", "scan"} => 0 <= cur.block /\ prev.fields <= cur.block
    /\ watching = "scan" => cur.block <= cur.fields

\* What is in hand and what was lost lies between the arming and the last
\* reading, and nothing is both.
AlertsScanned ==
    /\ watching # "notify" => alerts = {} /\ notes = {}
    /\ armedAt <= prev.block + 1
    /\ \A b \in missed \cup alerts : prev # NoReading /\ armedAt <= b /\ b <= prev.block
    /\ missed \cap alerts = {}

WatchInv ==
    /\ LiveTypeOK /\ WatchTypeOK /\ ReadingsFollow /\ AlertsScanned
    /\ \A b \in 1..MaxBlock : reported[b] = IF Sent(b) THEN 1 ELSE 0

\* The sentinel rests, and so does the chain.
LEMMA WatchRests ==
    ASSUME WatchInv, LiveTypeOK', Block' = Block, Flows' = Flows, UNCHANGED watch
    PROVE  WatchInv'
  BY DEF WatchInv, WatchTypeOK, ReadingsFollow, AlertsScanned, Sent, watch

\* A block is mined while the sentinel rests: it is beyond what was scanned.
LEMMA WatchMined ==
    ASSUME WatchInv, NEW kind \in Kinds, Mine(kind), UNCHANGED watch
    PROVE  WatchInv'
<1>1. /\ LiveTypeOK' /\ Block \in Nat /\ Block' = Block + 1
      /\ Flows \subseteq Flows' /\ Flows' \subseteq Flows \cup {Block'}
  BY LogGrows DEF WatchInv
<1>2. WatchTypeOK'
  BY <1>1 DEF WatchInv, WatchTypeOK, watch, Null, Torn
<1>3. ReadingsFollow' /\ AlertsScanned'
  BY DEF WatchInv, ReadingsFollow, AlertsScanned, watch
<1>4. ASSUME NEW b \in 1..MaxBlock PROVE Sent(b)' <=> Sent(b)
  <2>1. b = Block' => ~(b <= prev.block)
    <3>1. prev.block \in Null..Block
      BY DEF WatchInv, WatchTypeOK
    <3> QED
      BY <1>1, <3>1 DEF Null
  <2> QED
    BY <1>1, <2>1 DEF Sent, watch
<1> QED
  BY <1>1, <1>2, <1>3, <1>4 DEF WatchInv, watch

LEMMA WatchBlockStep == ASSUME WatchInv, WatchBlock PROVE WatchInv'
<1>1. LiveTypeOK' /\ Block' = Block /\ Flows' = Flows /\ Block \in Nat
  BY QuietChain, BlockType DEF WatchInv, WatchBlock
<1>2. cur' = [block |-> Block, fields |-> Null] /\ watching = "idle" /\ watching' = "fields"
  BY DEF WatchBlock
<1>3. prev' = prev /\ UNCHANGED <<alerts, notes, armedAt, reported, missed>>
  BY DEF WatchBlock
<1>4. prev.fields \in Torn..Block
  BY DEF WatchInv, WatchTypeOK
<1>5. WatchTypeOK'
  BY <1>1, <1>2, <1>3 DEF WatchInv, WatchTypeOK, Null, Torn
<1>6. ReadingsFollow'
  BY <1>1, <1>2, <1>3, <1>4 DEF WatchInv, ReadingsFollow, Null, Torn
<1>7. AlertsScanned'
  BY <1>2, <1>3 DEF WatchInv, AlertsScanned
<1> QED
  BY <1>1, <1>3, <1>5, <1>6, <1>7 DEF WatchInv, Sent

LEMMA WatchFieldsStep == ASSUME WatchInv, WatchFields PROVE WatchInv'
<1>1. LiveTypeOK' /\ Block' = Block /\ Flows' = Flows /\ Block \in Nat
  BY QuietChain, BlockType DEF WatchInv, WatchFields
<1>2. /\ cur' = [cur EXCEPT !.fields = Block] /\ watching = "fields" /\ watching' = "scan"
      /\ cur \in [block : Null..Block, fields : Torn..Block]
  BY DEF WatchInv, WatchTypeOK, WatchFields
<1>3. prev' = prev /\ UNCHANGED <<alerts, notes, armedAt, reported, missed>>
  BY DEF WatchFields
<1>4. cur'.block = cur.block /\ cur'.fields = Block /\ cur.block \in Null..Block
  BY <1>2
<1>5. cur' \in [block : Null..Block, fields : Torn..Block]
  BY <1>1, <1>2 DEF Null, Torn
<1>6. WatchTypeOK'
  BY <1>1, <1>2, <1>3, <1>5 DEF WatchInv, WatchTypeOK
<1>7. ReadingsFollow'
  BY <1>1, <1>2, <1>3, <1>4 DEF WatchInv, ReadingsFollow, Null
<1>8. AlertsScanned'
  BY <1>2, <1>3 DEF WatchInv, AlertsScanned
<1> QED
  BY <1>1, <1>3, <1>6, <1>7, <1>8 DEF WatchInv, Sent

\* A scan takes the events after the last reading up to its own block number:
\* none of them was sent, lost or in hand before.
LEMMA WatchScanStep == ASSUME WatchInv, NEW ok, ok \in BOOLEAN, WatchScan(ok) PROVE WatchInv'
<1>1. LiveTypeOK' /\ Block' = Block /\ Flows' = Flows /\ Block \in Nat
  BY SameChain, BlockType DEF WatchInv, WatchScan
<1>2. /\ prev \in [block : Null..Block, fields : Torn..Block]
      /\ cur \in [block : Null..Block, fields : Torn..Block]
      /\ watching = "scan" /\ watching' = "notify" /\ prev' = cur
      /\ cur' = cur /\ reported' = reported
  BY DEF WatchInv, WatchTypeOK, WatchScan
<1>3. /\ prev.block \in Int /\ prev.fields \in Int /\ cur.block \in Int /\ cur.fields \in Int
      /\ 0 <= cur.block /\ prev.fields <= cur.block /\ cur.block <= cur.fields
      /\ prev = NoReading \/ (0 <= prev.block /\ prev.block <= prev.fields)
  BY <1>1, <1>2 DEF WatchInv, ReadingsFollow, WatchScan, Null, Torn
<1>4. cur # NoReading
  BY <1>3 DEF NoReading, Null
<1>5. ReadingsFollow'
  BY <1>2, <1>3 DEF ReadingsFollow
<1>6. Flows \subseteq 1..Block /\ armedAt \in Int /\ alerts = {} /\ notes = {}
  BY <1>2 DEF Flows, WatchInv, WatchTypeOK, AlertsScanned
<1>7. CASE prev = NoReading
  <2>1. armedAt' = cur.block + 1 /\ UNCHANGED <<alerts, missed>>
    BY <1>7 DEF WatchScan
  <2>2. missed = {}
    BY <1>7 DEF WatchInv, AlertsScanned
  <2>3. WatchTypeOK'
    BY <1>1, <1>2, <1>3, <2>1 DEF WatchInv, WatchTypeOK
  <2>4. AlertsScanned'
    BY <1>2, <1>3, <1>6, <2>1, <2>2 DEF AlertsScanned
  <2>5. ASSUME NEW b \in 1..MaxBlock PROVE ~Sent(b)' /\ ~Sent(b)
    <3>1. ~(cur.block + 1 <= b /\ b <= cur.block)
      BY <1>3
    <3> QED
      BY <1>2, <1>7, <2>1, <3>1 DEF Sent
  <2> QED
    BY <1>1, <1>2, <1>5, <2>3, <2>4, <2>5 DEF WatchInv
<1>8. CASE prev # NoReading
  <2>1. /\ alerts' = (IF ok THEN Events ELSE {})
        /\ missed' = (IF ok THEN missed ELSE missed \cup Events)
        /\ armedAt' = armedAt
    BY <1>8 DEF WatchScan
  <2>2. armedAt <= prev.block + 1
    BY <1>8 DEF WatchInv, AlertsScanned
  <2>3. \A b \in missed : armedAt <= b /\ b <= prev.block
    BY DEF WatchInv, AlertsScanned
  <2>4. Events = {b \in Flows : prev.block + 1 <= b /\ b <= cur.block}
    BY DEF Events, FromBlock
  <2>5. missed \subseteq Flows
    BY DEF WatchInv, WatchTypeOK
  <2>6. /\ missed' \cup alerts' = missed \cup Events
        /\ missed' \cap alerts' = {}
    <3>1. missed \cap Events = {}
      <4> SUFFICES ASSUME NEW b \in missed, b \in Events PROVE FALSE
        OBVIOUS
      <4>1. b \in Int /\ b <= prev.block /\ prev.block + 1 <= b
        BY <1>6, <2>3, <2>4
      <4> QED
        BY <1>3, <4>1
    <3> QED
      BY <2>1, <3>1
  <2>7. WatchTypeOK'
    BY <1>1, <1>2, <1>3, <1>6, <2>1, <2>4, <2>5 DEF WatchInv, WatchTypeOK
  <2>8. ASSUME NEW b \in missed' \cup alerts' PROVE armedAt' <= b /\ b <= prev'.block
    <3>1. b \in Int
      <4>1. b \in Flows
        BY <2>4, <2>5, <2>6
      <4> QED
        BY <1>1, <1>6, <4>1
    <3>2. CASE b \in missed
      BY <1>2, <1>3, <1>6, <1>8, <2>1, <2>3, <3>1, <3>2
    <3>3. CASE b \in Events
      BY <1>2, <1>3, <1>6, <2>1, <2>2, <2>4, <3>1, <3>3
    <3> QED
      BY <2>6, <3>2, <3>3
  <2>9. armedAt' <= prev'.block + 1
    BY <1>2, <1>3, <1>6, <1>8, <2>1, <2>2
  <2>10. AlertsScanned'
    BY <1>2, <1>4, <2>6, <2>8, <2>9 DEF AlertsScanned
  <2>11. ASSUME NEW b \in 1..MaxBlock PROVE Sent(b)' <=> Sent(b)
    <3>1. Sent(b)' <=> b \in Flows /\ armedAt <= b /\ b <= cur.block /\ b \notin missed \cup Events
      BY <1>1, <1>2, <1>4, <2>1, <2>6 DEF Sent
    <3>2. Sent(b) <=> b \in Flows /\ armedAt <= b /\ b <= prev.block /\ b \notin missed
      BY <1>6, <1>8 DEF Sent
    <3>3. b \in Flows /\ b <= cur.block /\ b \notin Events => b <= prev.block
      BY <1>3, <1>6, <2>4
    <3>4. b <= prev.block => b <= cur.block /\ b \notin Events
      BY <1>3, <1>6, <1>8, <2>4
    <3> QED
      BY <3>1, <3>2, <3>3, <3>4
  <2> QED
    BY <1>1, <1>2, <1>5, <2>7, <2>10, <2>11 DEF WatchInv
<1> QED
  BY <1>7, <1>8

LEMMA WatchNotifyStep == ASSUME WatchInv, NEW ok, WatchNotify(ok) PROVE WatchInv'
<1>1. LiveTypeOK' /\ Block' = Block /\ Flows' = Flows /\ Block \in Nat
  BY SameChain, BlockType DEF WatchInv, WatchNotify
<1>2. /\ watching' = "idle" /\ alerts' = {} /\ notes' = {} /\ cur' = NoReading
      /\ prev' = prev /\ armedAt' = armedAt
  BY DEF WatchNotify, WatchOver
<1>3. cur' \in [block : Null..Block, fields : Torn..Block]
  BY <1>1, <1>2 DEF NoReading, Null, Torn
<1>4. /\ reported \in [1..MaxBlock -> Nat] /\ alerts \subseteq Flows /\ missed \subseteq Flows
  BY DEF WatchInv, WatchTypeOK
<1>5. ReadingsFollow'
  BY <1>2 DEF WatchInv, ReadingsFollow
<1>6. CASE ok
  <2>1. /\ missed' = missed
        /\ reported' = [b \in 1..MaxBlock |-> reported[b] + IF b \in alerts THEN 1 ELSE 0]
    BY <1>6 DEF WatchNotify
  <2>2. reported' \in [1..MaxBlock -> Nat]
    BY <1>4, <2>1
  <2>3. WatchTypeOK'
    BY <1>1, <1>2, <1>3, <2>1, <2>2 DEF WatchInv, WatchTypeOK
  <2>4. AlertsScanned'
    BY <1>2, <2>1 DEF WatchInv, AlertsScanned
  <2>5. ASSUME NEW b \in 1..MaxBlock PROVE reported'[b] = IF Sent(b)' THEN 1 ELSE 0
    <3>1. reported'[b] = reported[b] + IF b \in alerts THEN 1 ELSE 0
      BY <2>1
    <3>2. reported[b] = IF Sent(b) THEN 1 ELSE 0
      BY DEF WatchInv
    <3>3. CASE b \in alerts
      <4>1. ~Sent(b)
        BY <3>3 DEF Sent
      <4>2. b \in Flows /\ prev # NoReading /\ armedAt <= b /\ b <= prev.block /\ b \notin missed
        BY <1>4, <3>3 DEF WatchInv, AlertsScanned
      <4>3. Sent(b)'
        BY <1>1, <1>2, <2>1, <4>2 DEF Sent
      <4> QED
        BY <3>1, <3>2, <3>3, <4>1, <4>3
    <3>4. CASE b \notin alerts
      <4>1. Sent(b)' <=> Sent(b)
        BY <1>1, <1>2, <2>1, <3>4 DEF Sent
      <4>2. reported'[b] = reported[b]
        BY <1>4, <3>1, <3>4
      <4> QED
        BY <3>2, <4>1, <4>2
    <3> QED
      BY <3>3, <3>4
  <2> QED
    BY <1>1, <1>5, <2>3, <2>4, <2>5 DEF WatchInv
<1>7. CASE ~ok
  <2>1. missed' = missed \cup alerts /\ reported' = reported
    BY <1>7 DEF WatchNotify
  <2>2. WatchTypeOK'
    BY <1>1, <1>2, <1>3, <1>4, <2>1 DEF WatchInv, WatchTypeOK
  <2>3. AlertsScanned'
    BY <1>2, <2>1 DEF WatchInv, AlertsScanned
  <2>4. ASSUME NEW b \in 1..MaxBlock PROVE Sent(b)' <=> Sent(b)
    BY <1>1, <1>2, <2>1 DEF Sent
  <2> QED
    BY <1>1, <1>5, <2>1, <2>2, <2>3, <2>4 DEF WatchInv
<1> QED
  BY <1>6, <1>7

\* The run is over, and the state file as it was or cut short.
LEMMA WatchEnds ==
    ASSUME WatchInv, LiveTypeOK', Block' = Block, Flows' = Flows, WatchOver,
           prev' \in {prev, [prev EXCEPT !.fields = Torn]}, missed' = missed \cup alerts,
           UNCHANGED <<armedAt, reported>>
    PROVE  WatchInv'
<1>1. watching' = "idle" /\ alerts' = {} /\ notes' = {} /\ cur' = NoReading
  BY DEF WatchOver
<1>2. Block \in Nat /\ prev \in [block : Null..Block, fields : Torn..Block]
  BY BlockType DEF WatchInv, WatchTypeOK
<1>3. /\ prev' \in [block : Null..Block, fields : Torn..Block] /\ prev'.block = prev.block
      /\ prev' = prev \/ prev'.fields = Torn
      /\ prev # NoReading => prev' # NoReading
  BY <1>2 DEF NoReading, Null, Torn
<1>4. cur' \in [block : Null..Block, fields : Torn..Block]
  BY <1>1, <1>2 DEF NoReading, Null, Torn
<1>5. WatchTypeOK'
  BY <1>1, <1>3, <1>4 DEF WatchInv, WatchTypeOK
<1>6. ReadingsFollow'
  BY <1>1, <1>3 DEF WatchInv, ReadingsFollow
<1>7. AlertsScanned'
  BY <1>1, <1>3 DEF WatchInv, AlertsScanned
<1>8. ASSUME NEW b \in 1..MaxBlock PROVE Sent(b)' <=> Sent(b)
  <2>1. CASE prev = NoReading
    <3>1. ~(b <= prev.block)
      BY <2>1 DEF NoReading, Null
    <3> QED
      BY <1>3, <3>1 DEF Sent
  <2>2. CASE prev # NoReading
    BY <1>1, <1>3, <2>2 DEF Sent
  <2> QED
    BY <2>1, <2>2
<1> QED
  BY <1>5, <1>6, <1>7, <1>8 DEF WatchInv

LEMMA WatchDiesStep == ASSUME WatchInv, WatchDies PROVE WatchInv'
<1>1. LiveTypeOK' /\ Block' = Block /\ Flows' = Flows
  BY SameChain DEF WatchInv, WatchDies
<1> QED
  BY <1>1, WatchEnds DEF WatchDies

LEMMA WatchRefusesStep == ASSUME WatchInv, WatchRefuses PROVE WatchInv'
<1>1. LiveTypeOK' /\ Block' = Block /\ Flows' = Flows
  BY QuietChain DEF WatchInv, WatchRefuses
<1>2. missed' = missed \cup alerts
  BY DEF WatchRefuses, WatchInv, AlertsScanned
<1> QED
  BY <1>1, <1>2, WatchEnds DEF WatchRefuses

LEMMA ChainStart == LiveInit => LiveTypeOK /\ Flows = {} /\ Block = 0
  BY PublishAssumption DEF LiveInit, LiveTypeOK, Block, Flows

LEMMA WatchStart == PublishInit => WatchInv
<1> SUFFICES ASSUME PublishInit PROVE WatchInv
  OBVIOUS
<1>1. LiveTypeOK /\ Flows = {} /\ Block = 0
  BY ChainStart DEF PublishInit
<1>2. /\ prev = NoReading /\ cur = NoReading /\ watching = "idle" /\ alerts = {} /\ notes = {}
      /\ armedAt = Null /\ reported = [b \in 1..MaxBlock |-> 0] /\ missed = {}
  BY DEF PublishInit, WatchInit
<1>3. NoReading \in [block : Null..Block, fields : Torn..Block]
  BY <1>1 DEF NoReading, Null, Torn
<1>4. WatchTypeOK
  BY <1>2, <1>3 DEF WatchTypeOK, Null
<1>5. ReadingsFollow /\ AlertsScanned
  BY <1>2 DEF ReadingsFollow, AlertsScanned, NoReading, Null
<1>6. \A b \in 1..MaxBlock : ~Sent(b)
  BY <1>2 DEF Sent
<1> QED
  BY <1>1, <1>2, <1>4, <1>5, <1>6 DEF WatchInv

\* The chain in a step of the feed or of the attestation.
LEMMA FeedStepChain ==
    ASSUME LiveTypeOK, StatusNext PROVE LiveTypeOK' /\ Block' = Block /\ Flows' = Flows
  BY SameChain, QuietChain
  DEF StatusNext, StatusStart, StatusDies, StatusRead, StatusWrite, StatusPush

LEMMA AttestStepChain ==
    ASSUME LiveTypeOK, AttestNext PROVE LiveTypeOK' /\ Block' = Block /\ Flows' = Flows
  BY SameChain, QuietChain
  DEF AttestNext, NextDay, AttestStart, NoProvider, AttestDies, AttestRead, AttestWrite,
      Snapshots, AttestPush

LEMMA MinedOne == Mined => \E kind \in Kinds : Mine(kind)
  BY DEF Mined, Kinds

LEMMA WatchStep == WatchInv /\ [PublishNext]_publishing => WatchInv'
<1> SUFFICES ASSUME WatchInv, [PublishNext]_publishing PROVE WatchInv'
  OBVIOUS
<1>0. LiveTypeOK
  BY DEF WatchInv
<1>1. CASE UNCHANGED publishing
  BY <1>0, <1>1, QuietChain, WatchRests DEF publishing
<1>2. CASE Mined /\ UNCHANGED <<watch, feeding, attest, job>>
  BY <1>2, MinedOne, WatchMined
<1>3. CASE WatchNext
  BY <1>3, WatchBlockStep, WatchFieldsStep, WatchScanStep, WatchNotifyStep, WatchDiesStep,
     WatchRefusesStep
  DEF WatchNext
<1>4. CASE StatusNext /\ UNCHANGED watch
  BY <1>0, <1>4, FeedStepChain, WatchRests
<1>5. CASE AttestNext /\ UNCHANGED watch
  BY <1>0, <1>5, AttestStepChain, WatchRests
<1> QED
  BY <1>1, <1>2, <1>3, <1>4, <1>5 DEF PublishNext, JobStep

LEMMA WatchInvHolds == PublishSpec => []WatchInv
  BY WatchStart, WatchStep, PTL DEF PublishSpec

\* The sentinel sends every flow since it was armed exactly once, unless its
\* run could not scan or send, however blocks fall between and within runs;
\* after a state file that was cut short it sends nothing.
THEOREM FlowsAreSentOnce == PublishSpec => []FlowsReportedOnce
<1>1. WatchInv => FlowsReportedOnce
  <2> SUFFICES ASSUME WatchInv, NEW b \in Flows
               PROVE  reported[b] = IF /\ prev # NoReading /\ armedAt <= b /\ b <= prev.block
                                       /\ b \notin missed \cup alerts
                                    THEN 1 ELSE 0
    BY DEF FlowsReportedOnce
  <2>1. Block \in Nat /\ MaxBlock \in Nat /\ Block <= MaxBlock
    BY BlockType DEF WatchInv
  <2>2. b \in 1..MaxBlock
    BY <2>1 DEF Flows
  <2> QED
    BY <2>2 DEF WatchInv, Sent
<1> QED
  BY <1>1, WatchInvHolds, PTL

\* Two blocks between which nothing happened show the same assets.
LEMMA SameAssets ==
    ASSUME NEW p \in Nat, NEW c \in Nat, p <= c,
           \A b \in (p + 1)..c : log[b] \notin {"deposit", "withdraw", "yield"}
    PROVE  Assets(p) = Assets(c)
<1>1. ASSUME NEW kinds, kinds \subseteq {"deposit", "withdraw", "yield"}
      PROVE  {i \in 1..p : log[i] \in kinds} = {i \in 1..c : log[i] \in kinds}
  <2>1. ASSUME NEW i \in 1..c, log[i] \in kinds PROVE i \in 1..p
    <3>1. i \notin (p + 1)..c
      BY <1>1, <2>1
    <3> QED
      BY <3>1
  <2>2. \A i \in 1..p : i \in 1..c
    OBVIOUS
  <2> QED
    BY <2>1, <2>2
<1>2. Count({"deposit", "yield"}, p) = Count({"deposit", "yield"}, c)
  BY <1>1 DEF Count
<1>3. Count({"withdraw"}, p) = Count({"withdraw"}, c)
  BY <1>1 DEF Count
<1> QED
  BY <1>2, <1>3 DEF Assets

\* The alarm of a scan that went through.
LEMMA AlarmExplained ==
    ASSUME WatchInv, watching = "scan", prev # NoReading, prev.fields # Torn, Unmatched(TRUE)
    PROVE  \E b \in (prev.fields + 1)..cur.fields :
              log[b] = "yield" \/ (b \in Flows /\ b > cur.block)
<1>1. /\ prev \in [block : Null..Block, fields : Torn..Block]
      /\ cur \in [block : Null..Block, fields : Torn..Block]
      /\ Block \in Nat
  BY BlockType DEF WatchInv, WatchTypeOK
<1>2. /\ prev.fields \in Nat /\ cur.fields \in Nat /\ prev.block \in Nat /\ cur.block \in Nat
      /\ prev.block <= prev.fields /\ prev.fields <= cur.fields /\ cur.fields <= Block
  BY <1>1 DEF WatchInv, ReadingsFollow, Null, Torn
<1>3. PICK b \in (prev.fields + 1)..cur.fields : log[b] \in {"deposit", "withdraw", "yield"}
  BY <1>2, SameAssets DEF Unmatched
<1>4. CASE log[b] = "yield"
  BY <1>4
<1>5. CASE log[b] # "yield"
  <2>1. b \in Flows
    BY <1>1, <1>2, <1>3, <1>5 DEF Flows
  <2>2. b \notin Events
    BY DEF Unmatched
  <2>3. b > cur.block
    BY <1>2, <1>3, <2>1, <2>2 DEF Events, FromBlock
  <2> QED
    BY <2>1, <2>3
<1> QED
  BY <1>4, <1>5

\* The alarm for assets that moved without an event is raised for a yield
\* since the last reading, a flow between this reading's block number and its
\* fields, or a scan that failed; never for a flow that is sent.
THEOREM AlarmsAreExplained == PublishSpec => UnmatchedIsExplained
<1> DEFINE Explained ==
       watching = "scan" /\ "unmatched" \in notes' =>
          \/ "scan failed" \in notes'
          \/ \E b \in (prev.fields + 1)..cur.fields :
                log[b] = "yield" \/ (b \in Flows /\ b > cur.block)
<1>1. WatchInv /\ [PublishNext]_publishing => [Explained]_<<log, watch>>
  <2> SUFFICES ASSUME WatchInv, PublishNext, watching = "scan", "unmatched" \in notes',
                      "scan failed" \notin notes'
               PROVE  \E b \in (prev.fields + 1)..cur.fields :
                         log[b] = "yield" \/ (b \in Flows /\ b > cur.block)
    BY DEF publishing, watch
  <2>1. CASE WatchNext
    <3>1. PICK ok \in BOOLEAN : WatchScan(ok)
      BY <2>1 DEF WatchNext, WatchBlock, WatchFields, WatchNotify, WatchRefuses, WatchDies, WatchOver
    <3>2. prev # NoReading
      <4> SUFFICES ASSUME prev = NoReading PROVE FALSE
        OBVIOUS
      <4>1. notes' = {"armed"}
        BY <3>1 DEF WatchScan
      <4>2. "unmatched" \notin {"armed"}
        OBVIOUS
      <4> QED
        BY <4>1, <4>2, Zenon
    <3>3. notes' = Notes(ok)
      BY <3>1, <3>2 DEF WatchScan
    <3>4. ok = TRUE
      BY <3>3 DEF Notes
    <3>5. Unmatched(TRUE)
      BY <3>3, <3>4 DEF Notes
    <3> QED
      BY <3>1, <3>2, <3>5, AlarmExplained DEF WatchScan
  <2>2. CASE UNCHANGED watch
    <3>1. notes' = {}
      BY <2>2 DEF watch, WatchInv, AlertsScanned
    <3> QED
      BY <3>1
  <2> QED
    BY <2>1, <2>2 DEF PublishNext, JobStep
<1> QED
  BY <1>1, WatchInvHolds, PTL DEF PublishSpec, UnmatchedIsExplained

-----------------------------------------------------------------------------
(* The website's feed.                                                     *)

LEMMA FeedTable ==
    /\ Len(FeedSteps) = 8 /\ Len(FeedFigures) = 5
    /\ FeedSteps[1] = "totalAssets" /\ FeedSteps[2] = "totalShares" /\ FeedSteps[3] = "idle"
    /\ FeedSteps[4] = "morpho" /\ FeedSteps[5] = "dn" /\ FeedSteps[6] = "public"
    /\ FeedSteps[7] = "dist" /\ FeedSteps[8] = "push"
  BY DEF FeedSteps, FeedFigures

LEMMA FeedFigureNames ==
    Range(FeedFigures) = {"totalAssets", "totalShares", "idle", "morpho", "dn"}
  BY DEF Range, FeedFigures

\* A step of the feed by its number.
LEMMA FeedAtStep ==
    ASSUME feedStep \in 0..8
    PROVE  /\ \A f \in Range(FeedFigures) : FeedAt(f) => feedStep \in 1..5
           /\ FeedAt("totalAssets") => feedStep = 1
           /\ FeedAt("totalShares") => feedStep = 2
           /\ feedStep = 1 => \A f \in Range(FeedFigures) : FeedAt(f) => f = "totalAssets"
           /\ feedStep = 2 => \A f \in Range(FeedFigures) : FeedAt(f) => f = "totalShares"
           /\ \A place \in FeedPlaces : FeedAt(place) => feedStep \in 6..7
<1>1. feedStep \in {0, 1, 2, 3, 4, 5, 6, 7, 8}
  OBVIOUS
<1> QED
  BY <1>1, FeedTable, FeedFigureNames DEF FeedAt, FeedPlaces

FeedShape == [figures : [Range(FeedFigures) -> Int], total : SUBSET Range(FeedFigures),
              begun : Int, done : Int]

\* Every figure is a gap or was read while the run was reading.
ReadInRun(shown) ==
    \A f \in Range(FeedFigures) :
        shown.figures[f] = Null \/ (shown.begun <= shown.figures[f]
                                    /\ shown.figures[f] <= shown.done)

\* Both figures of the price.
Priced(shown) == \A f \in RequiredFigures : shown.figures[f] # Null

\* The total adds up what the feed shows.
Totalled(shown) == \A f \in TotalParts : f \in shown.total <=> shown.figures[f] # Null

\* What may stand in a place.
Showable(shown) == ReadInRun(shown) /\ (shown.done # Null => Priced(shown)) /\ Totalled(shown)

FeedInv ==
    /\ LiveTypeOK
    /\ feedStep \in 0..8 /\ feed \in FeedShape
    /\ (feed.begun = Null) = (feedStep = 0)
    /\ feed.begun <= Block /\ feed.done <= Block /\ ReadInRun(feed)
    /\ feedStep > 1 => feed.figures["totalAssets"] # Null
    /\ feedStep > 2 => feed.figures["totalShares"] # Null
    /\ \A shown \in {feeds[p] : p \in FeedPlaces} \cup {pushedFeed} : Showable(shown)
    /\ feeds \in [FeedPlaces -> FeedShape] /\ pushedFeed \in FeedShape

LEMMA NoFeedIsEmpty ==
    \A shown \in {NoFeed, TornFeed} :
        shown \in FeedShape /\ ReadInRun(shown) /\ shown.done = Null /\ Showable(shown)
  BY FeedFigureNames
  DEF NoFeed, TornFeed, FeedShape, ReadInRun, Showable, Totalled, TotalParts, Null

LEMMA FeedRests ==
    ASSUME FeedInv, LiveTypeOK', Block <= Block', UNCHANGED feeding
    PROVE  FeedInv'
<1>1. Block \in Int /\ Block' \in Int
  BY DEF FeedInv, LiveTypeOK, Block
<1>2. feed.begun \in Int /\ feed.done \in Int
  BY DEF FeedInv, FeedShape
<1>3. feed.begun <= Block' /\ feed.done <= Block'
  BY <1>1, <1>2 DEF FeedInv
<1> QED
  BY <1>3 DEF FeedInv, ReadInRun, feeding

\* The feeds stay, and the run is over.
LEMMA FeedEnds ==
    ASSUME FeedInv, LiveTypeOK', Block' = Block, FeedOver, UNCHANGED <<feeds, pushedFeed>>
    PROVE  FeedInv'
<1>1. feedStep' = 0 /\ feed' = NoFeed
  BY DEF FeedOver
<1>2. NoFeed.begun = Null /\ NoFeed.done = Null /\ NoFeed \in FeedShape /\ ReadInRun(NoFeed)
  BY NoFeedIsEmpty DEF NoFeed
<1>3. Block \in Nat
  BY BlockType DEF FeedInv
<1> QED
  BY <1>1, <1>2, <1>3 DEF FeedInv, ReadInRun, Null

LEMMA StatusStartStep == ASSUME FeedInv, StatusStart PROVE FeedInv'
<1>1. LiveTypeOK' /\ Block' = Block /\ Block \in Nat
  BY QuietChain, BlockType DEF FeedInv, StatusStart
<1>2. feedStep' = 1 /\ feed' = [NoFeed EXCEPT !.begun = Block] /\ UNCHANGED <<feeds, pushedFeed>>
  BY DEF StatusStart
<1>3. /\ feed' \in FeedShape /\ feed'.begun = Block /\ feed'.done = Null
      /\ ReadInRun(feed')
  BY <1>1, <1>2 DEF NoFeed, FeedShape, ReadInRun, Null
<1> QED
  BY <1>1, <1>2, <1>3 DEF FeedInv, ReadInRun, Null

\* One more figure of the feed, read at block b.
LEMMA FeedWith ==
    ASSUME NEW S,
           NEW old \in [figures : [S -> Int], total : SUBSET S, begun : Int, done : Int],
           NEW f \in S, NEW x \in Int, NEW b \in Int,
           NEW new, new = [old EXCEPT !.figures[f] = x, !.done = b]
    PROVE  /\ new \in [figures : [S -> Int], total : SUBSET S, begun : Int, done : Int]
           /\ new.begun = old.begun /\ new.done = b
           /\ new.figures[f] = x /\ \A g \in S \ {f} : new.figures[g] = old.figures[g]
  OBVIOUS

LEMMA StatusReadStep ==
    ASSUME FeedInv, NEW ok \in BOOLEAN, NEW f \in Range(FeedFigures), StatusRead(f, ok)
    PROVE  FeedInv'
<1>1. LiveTypeOK' /\ Block' = Block /\ Block \in Nat
  BY SameChain, BlockType DEF FeedInv, StatusRead
<1>2. UNCHANGED <<feeds, pushedFeed>> /\ FeedAt(f)
  BY DEF StatusRead
<1>3. CASE ~ok /\ f \in RequiredFigures
  BY <1>1, <1>2, <1>3, FeedEnds DEF StatusRead
<1>4. CASE ok \/ f \notin RequiredFigures
  <2> DEFINE x == FigureRead(f, ok)
  <2>1. /\ feed' = [feed EXCEPT !.figures[f] = x, !.done = Block]
        /\ feedStep' = feedStep + 1
    BY <1>4 DEF StatusRead, FeedGoesOn
  <2>2. x \in Int /\ (x = Null \/ x = Block) /\ (f \in RequiredFigures => x # Null)
    BY <1>1, <1>4 DEF FigureRead, Null
  <2> HIDE DEF x
  <2>3. /\ feed \in FeedShape /\ feed.begun \in Int /\ feed.done \in Int
        /\ feed.begun <= Block /\ feed.done <= Block
        /\ feed.figures \in [Range(FeedFigures) -> Int]
    BY DEF FeedInv, FeedShape
  <2>4. /\ feed' \in FeedShape /\ feed'.begun = feed.begun /\ feed'.done = Block
        /\ feed'.figures[f] = x
        /\ \A g \in Range(FeedFigures) \ {f} : feed'.figures[g] = feed.figures[g]
    <3>1. Block \in Int /\ feed \in [figures : [Range(FeedFigures) -> Int],
                                     total : SUBSET Range(FeedFigures), begun : Int, done : Int]
      BY <1>1, <2>3 DEF FeedShape
    <3> QED
      BY <2>1, <2>2, <3>1, FeedWith, Zenon DEF FeedShape
  <2>6. ReadInRun(feed')
    <3> SUFFICES ASSUME NEW g \in Range(FeedFigures), feed'.figures[g] # Null
                 PROVE  feed'.begun <= feed'.figures[g] /\ feed'.figures[g] <= feed'.done
      BY DEF ReadInRun
    <3>1. CASE g = f
      BY <1>1, <2>2, <2>3, <2>4, <3>1
    <3>2. CASE g # f
      <4>1. feed.begun <= feed.figures[g] /\ feed.figures[g] <= feed.done
        BY <2>4, <3>2 DEF FeedInv, ReadInRun
      <4>2. feed'.figures[g] = feed.figures[g] /\ feed.figures[g] \in Int
        BY <2>3, <2>4, <3>2
      <4> QED
        BY <1>1, <2>3, <2>4, <4>1, <4>2
    <3> QED
      BY <3>1, <3>2
  <2>7. feedStep \in 1..5
    BY <1>2, FeedAtStep DEF FeedInv
  <2>8. "totalAssets" \in RequiredFigures /\ "totalShares" \in RequiredFigures
        /\ RequiredFigures \subseteq Range(FeedFigures)
    BY FeedFigureNames DEF RequiredFigures
  <2>9. /\ feedStep' > 1 => feed'.figures["totalAssets"] # Null
        /\ feedStep' > 2 => feed'.figures["totalShares"] # Null
    <3>1. feedStep = 1 => f = "totalAssets"
      BY <1>2, FeedAtStep DEF FeedInv
    <3>2. feedStep = 2 => f = "totalShares"
      BY <1>2, FeedAtStep DEF FeedInv
    <3>3. feedStep > 1 => feed.figures["totalAssets"] # Null
      BY DEF FeedInv
    <3>4. feedStep > 2 => feed.figures["totalShares"] # Null
      BY DEF FeedInv
    <3>5. feed'.figures["totalAssets"] # Null
      BY <2>2, <2>4, <2>7, <2>8, <3>1, <3>3
    <3>6. feedStep' > 2 => feed'.figures["totalShares"] # Null
      BY <2>1, <2>2, <2>4, <2>7, <2>8, <3>2, <3>4
    <3> QED
      BY <3>5, <3>6
  <2>10. feedStep' \in 1..8 /\ feedStep # 0 /\ feed.begun # Null
    BY <2>1, <2>7 DEF FeedInv
  <2>11. /\ (feed'.begun = Null) = (feedStep' = 0) /\ feedStep' \in 0..8
         /\ feed'.begun <= Block' /\ feed'.done <= Block'
    BY <1>1, <2>3, <2>4, <2>10
  <2> QED
    BY <1>1, <1>2, <2>4, <2>6, <2>9, <2>11 DEF FeedInv, ReadInRun
<1> QED
  BY <1>3, <1>4

\* What stands in a place is replaced by what is all of its own run.
LEMMA FeedPut ==
    ASSUME FeedInv, NEW place \in FeedPlaces, NEW shown \in FeedShape, Showable(shown),
           feeds' = [feeds EXCEPT ![place] = shown], pushedFeed' = pushedFeed
    PROVE  /\ feeds' \in [FeedPlaces -> FeedShape] /\ pushedFeed' \in FeedShape
           /\ \A s \in {feeds'[p] : p \in FeedPlaces} \cup {pushedFeed'} : Showable(s)
<1>1. feeds \in [FeedPlaces -> FeedShape]
  BY DEF FeedInv
<1>2. \A p \in FeedPlaces : feeds'[p] = shown \/ feeds'[p] = feeds[p]
  BY <1>1
<1>3. \A s \in {feeds'[p] : p \in FeedPlaces} :
         s = shown \/ s \in {feeds[p] : p \in FeedPlaces}
  BY <1>2
<1> QED
  BY <1>1, <1>3 DEF FeedInv

LEMMA StatusWriteStep ==
    ASSUME FeedInv, NEW place \in FeedPlaces, StatusWrite(place) PROVE FeedInv'
<1>1. LiveTypeOK' /\ Block' = Block /\ Block \in Nat
  BY QuietChain, BlockType DEF FeedInv, StatusWrite
<1> DEFINE shown == [feed EXCEPT !.total = Total(feed.figures)]
<1>2. /\ feeds' = [feeds EXCEPT ![place] = shown] /\ pushedFeed' = pushedFeed /\ feed' = feed
      /\ feedStep' = feedStep + 1 /\ FeedAt(place)
  BY DEF StatusWrite, FeedGoesOn
<1>3. feedStep \in 6..7
  BY <1>2, FeedAtStep DEF FeedInv
<1>4. Priced(feed)
  BY <1>3 DEF FeedInv, Priced, RequiredFigures
<1>5. /\ feeds' \in [FeedPlaces -> FeedShape] /\ pushedFeed' \in FeedShape
      /\ \A s \in {feeds'[p] : p \in FeedPlaces} \cup {pushedFeed'} : Showable(s)
  <2>1. /\ Total(feed.figures) \subseteq Range(FeedFigures) /\ feed \in FeedShape
        /\ TotalParts \subseteq Range(FeedFigures)
    BY FeedFigureNames DEF Total, TotalParts, FeedInv
  <2>2. /\ shown \in FeedShape /\ shown.figures = feed.figures /\ shown.begun = feed.begun
        /\ shown.done = feed.done /\ shown.total = Total(feed.figures)
    BY <2>1 DEF FeedShape
  <2>3. Showable(shown)
    BY <1>4, <2>2 DEF FeedInv, Showable, ReadInRun, Priced, Totalled, Total
  <2> HIDE DEF shown
  <2> QED
    BY <1>2, <2>2, <2>3, FeedPut
<1>6. feedStep' \in 0..8 /\ feedStep' > 2 /\ feedStep' # 0 /\ feedStep # 0 /\ feedStep > 2
  BY <1>2, <1>3
<1> QED
  BY <1>1, <1>2, <1>5, <1>6 DEF FeedInv, ReadInRun, Priced

LEMMA StatusPushStep == ASSUME FeedInv, NEW ok, StatusPush(ok) PROVE FeedInv'
<1>1. LiveTypeOK' /\ Block' = Block /\ Block \in Nat
  BY SameChain, BlockType DEF FeedInv, StatusPush
<1>2. "public" \in FeedPlaces
  BY DEF FeedPlaces
<1>3. /\ feeds' = feeds /\ pushedFeed' \in {feeds["public"], pushedFeed}
      /\ feedStep' = 0 /\ feed' = NoFeed
  BY DEF StatusPush, FeedOver
<1>4. NoFeed.begun = Null /\ NoFeed.done = Null /\ NoFeed \in FeedShape /\ ReadInRun(NoFeed)
  BY NoFeedIsEmpty DEF NoFeed
<1>5. /\ pushedFeed' \in FeedShape
      /\ \A s \in {feeds'[p] : p \in FeedPlaces} \cup {pushedFeed'} : Showable(s)
  BY <1>2, <1>3 DEF FeedInv
<1> QED
  BY <1>1, <1>3, <1>4, <1>5 DEF FeedInv, ReadInRun, Priced, Null

LEMMA StatusDiesStep == ASSUME FeedInv, StatusDies PROVE FeedInv'
<1>1. LiveTypeOK' /\ Block' = Block /\ Block \in Nat
  BY SameChain, BlockType DEF FeedInv, StatusDies
<1>2. pushedFeed' = pushedFeed /\ FeedOver
  BY DEF StatusDies
<1>3. CASE UNCHANGED feeds
  BY <1>1, <1>2, <1>3, FeedEnds
<1>4. ASSUME NEW place \in FeedPlaces, feeds' = [feeds EXCEPT ![place] = TornFeed]
      PROVE  FeedInv'
  <2>1. /\ feeds' \in [FeedPlaces -> FeedShape] /\ pushedFeed' \in FeedShape
        /\ \A s \in {feeds'[p] : p \in FeedPlaces} \cup {pushedFeed'} : Showable(s)
    BY <1>2, <1>4, FeedPut, NoFeedIsEmpty
  <2>2. feedStep' = 0 /\ feed' = NoFeed
    BY <1>2 DEF FeedOver
  <2>3. NoFeed.begun = Null /\ NoFeed.done = Null /\ NoFeed \in FeedShape /\ ReadInRun(NoFeed)
    BY NoFeedIsEmpty DEF NoFeed
  <2> QED
    BY <1>1, <2>1, <2>2, <2>3 DEF FeedInv, ReadInRun, Priced, Null
<1> QED
  BY <1>3, <1>4 DEF StatusDies

LEMMA FeedStart == PublishInit => FeedInv
<1> SUFFICES ASSUME PublishInit PROVE FeedInv
  OBVIOUS
<1>1. LiveTypeOK /\ Block = 0
  BY ChainStart DEF PublishInit
<1>2. /\ feeds = [p \in FeedPlaces |-> NoFeed] /\ pushedFeed = NoFeed
      /\ feed = NoFeed /\ feedStep = 0
  BY DEF PublishInit, StatusInit
<1>3. NoFeed.begun = Null /\ NoFeed.done = Null /\ NoFeed \in FeedShape /\ ReadInRun(NoFeed)
      /\ Showable(NoFeed)
  BY NoFeedIsEmpty DEF NoFeed
<1> QED
  BY <1>1, <1>2, <1>3 DEF FeedInv, ReadInRun, Null

\* The chain in a step of the sentinel.
LEMMA WatchStepChain ==
    ASSUME LiveTypeOK, WatchNext PROVE LiveTypeOK' /\ Block' = Block
  BY SameChain, QuietChain
  DEF WatchNext, WatchBlock, WatchFields, WatchScan, WatchNotify, WatchRefuses, WatchDies

LEMMA FeedStep == FeedInv /\ [PublishNext]_publishing => FeedInv'
<1> SUFFICES ASSUME FeedInv, [PublishNext]_publishing PROVE FeedInv'
  OBVIOUS
<1>0. LiveTypeOK /\ Block \in Nat
  BY BlockType DEF FeedInv
<1>1. CASE UNCHANGED publishing
  BY <1>0, <1>1, QuietChain, FeedRests DEF publishing
<1>2. CASE Mined /\ UNCHANGED <<watch, feeding, attest, job>>
  <2>1. LiveTypeOK' /\ Block <= Block'
    BY <1>0, <1>2, MinedOne, LogGrows
  <2> QED
    BY <1>2, <2>1, FeedRests
<1>3. CASE StatusNext
  BY <1>3, StatusStartStep, StatusReadStep, StatusWriteStep, StatusPushStep, StatusDiesStep
  DEF StatusNext
<1>4. CASE WatchNext /\ UNCHANGED feeding
  BY <1>0, <1>4, WatchStepChain, FeedRests
<1>5. CASE AttestNext /\ UNCHANGED feeding
  BY <1>0, <1>5, AttestStepChain, FeedRests
<1> QED
  BY <1>1, <1>2, <1>3, <1>4, <1>5 DEF PublishNext, JobStep

LEMMA FeedInvHolds == PublishSpec => []FeedInv
  BY FeedStart, FeedStep, PTL DEF PublishSpec

-----------------------------------------------------------------------------
(* The daily attestation.                                                  *)

LEMMA AttestTable ==
    /\ Len(ReportFigures) = 4 /\ Len(AttestSteps) = 13
    /\ AttestSteps[1] = <<"read", "as_of_block">> /\ AttestSteps[2] = <<"read", "total_assets">>
    /\ AttestSteps[3] = <<"read", "performance_fee">>
    /\ AttestSteps[4] = <<"read", "fee_destination">>
    /\ AttestSteps[5] = <<"repo", "dated">> /\ AttestSteps[6] = <<"repo", "latest">>
    /\ AttestSteps[7] = <<"repo", "series">>
    /\ AttestSteps[8] = <<"site", "dated">> /\ AttestSteps[9] = <<"site", "latest">>
    /\ AttestSteps[10] = <<"site", "series">> /\ AttestSteps[11] = <<"snapshots", "d1">>
    /\ AttestSteps[12] = <<"push", "repo">> /\ AttestSteps[13] = <<"push", "site">>
  BY DEF AttestSteps, Pages, ReportFigures

LEMMA ReportFigureNames ==
    /\ Range(ReportFigures) =
          {"as_of_block", "total_assets", "performance_fee", "fee_destination"}
    /\ ReportFigures[1] = "as_of_block" /\ ReportFigures[2] = "total_assets"
    /\ ReportFigures[3] = "performance_fee" /\ ReportFigures[4] = "fee_destination"
  BY DEF Range, ReportFigures

\* The step at which a site's first page is written.
PagesFrom(site) == IF site = "repo" THEN 5 ELSE 8

\* A step of the attestation by its number.
LEMMA AttestAtStep ==
    ASSUME step \in 0..13
    PROVE  /\ \A f : AttestAt(<<"read", f>>) => step \in 1..4 /\ f = ReportFigures[step]
           /\ \A site \in Sites :
                 /\ AttestAt(<<site, "dated">>) => step = PagesFrom(site)
                 /\ AttestAt(<<site, "latest">>) => step = PagesFrom(site) + 1
                 /\ AttestAt(<<site, "series">>) => step = PagesFrom(site) + 2
                 /\ AttestAt(<<"push", site>>) => step > PagesFrom(site) + 2
           /\ AttestAt(<<"snapshots", "d1">>) => step = 11
           /\ AttestAt(<<"push", "repo">>) => step = 12
           /\ AttestAt(<<"push", "site">>) => step = 13
<1>1. step \in {0, 1, 2, 3, 4, 5, 6, 7, 8, 9, 10, 11, 12, 13}
  OBVIOUS
<1>2. CASE step \in {0, 1, 2, 3, 4}
  BY <1>2, AttestTable, ReportFigureNames DEF AttestAt, Sites, PagesFrom
<1>3. CASE step \in {5, 6, 7}
  BY <1>3, AttestTable DEF AttestAt, Sites, PagesFrom
<1>4. CASE step \in {8, 9, 10}
  BY <1>4, AttestTable DEF AttestAt, Sites, PagesFrom
<1>5. CASE step \in {11, 12, 13}
  BY <1>5, AttestTable DEF AttestAt, Sites, PagesFrom
<1> QED
  BY <1>1, <1>2, <1>3, <1>4, <1>5

ReportShape == [day : Nat, figures : [Range(ReportFigures) -> Int],
                unavailable : SUBSET Range(ReportFigures), begun : Int]

PagesShape == [dated : [Days -> ReportShape], latest : ReportShape, series : [Days -> ReportShape]]

\* Every figure of a report is what it says it is.
Honest(r) == \A f \in Range(ReportFigures) : FigureIsHonest(r, f)

\* What may stand as a page.
Standing(r) == r \in {NoReport, TornReport} \/ Honest(r)

\* The last day of which there can be a line, and the last block at which the
\* run of any page began.
LastDay == IF step = 0 THEN today ELSE report.day
LastBegun == IF step = 0 THEN Block ELSE report.begun

\* Days and blocks do not run backwards in a step.
TimeGoesOn ==
    /\ LastDay \in Int /\ LastDay' \in Int /\ LastDay <= LastDay'
    /\ LastBegun \in Int /\ LastBegun' \in Int /\ LastBegun <= LastBegun'

AttestTypeOK ==
    /\ LiveTypeOK
    /\ today \in Days /\ step \in 0..13
    /\ report \in ReportShape /\ report.day <= today /\ report.begun <= Block
    /\ (report.day = 0) = (step = 0)
    /\ pushed \in [Sites -> PagesShape]
    /\ rows \in [Wallets -> [Days -> Null..Block]]

\* The report in hand: what has been read is honest, and nothing else is in it
\* but, when no provider answered, that nothing of the vault could be read.
ReportInHand ==
    /\ step > 0 => report.begun >= 0
    /\ \A f \in Range(ReportFigures) : report.figures[f] <= Block
    /\ step > 0 => \A i \in 1..4 :
          IF i < step THEN FigureIsHonest(report, ReportFigures[i])
          ELSE report.figures[ReportFigures[i]] = Null
               /\ ReportFigures[i] \notin report.unavailable

\* Every page of a day is backed by the repository's page of that day.
AllBacked ==
    \A site \in Sites, d \in Days :
        \A r \in {files[site].series[d], files[site].dated[d]} \ {NoReport} :
            Backs(files["repo"].dated[d], d, r)

\* The pages in the files.
PagesInFiles ==
    /\ files \in [Sites -> PagesShape]
    /\ \A site \in Sites, d \in Days : Standing(files[site].dated[d])
    /\ AllBacked
    /\ \A site \in Sites, d \in Days : files[site].series[d] # NoReport => d <= LastDay
    /\ \A site \in Sites, d \in Days :
          files[site].series[d].begun <= LastBegun /\ files[site].dated[d].begun <= LastBegun

\* What a run has written so far is its report.
WrittenSoFar ==
    \A site \in Sites :
        /\ step > PagesFrom(site) => files[site].dated[report.day] = report
        /\ step > PagesFrom(site) + 1 => files[site].latest = report
        /\ step > PagesFrom(site) + 2 => files[site].series[report.day] = report

AttestInv == AttestTypeOK /\ ReportInHand /\ PagesInFiles /\ WrittenSoFar /\ PushedIsWhole

LEMMA EmptyReports ==
    ASSUME NEW r \in {NoReport, TornReport}
    PROVE  /\ r \in ReportShape /\ Standing(r) /\ r.day = 0 /\ r.begun <= 0
           /\ r.unavailable = {} /\ \A f \in Range(ReportFigures) : r.figures[f] = Null
  BY DEF NoReport, TornReport, ReportShape, Standing, Null

LEMMA TornIsNotNone == TornReport # NoReport
  BY DEF NoReport, TornReport, Null

\* Once everything is read the report is honest.
LEMMA AllRead ==
    ASSUME ReportInHand, step \in Int, step > 4
    PROVE  Honest(report)
<1>1. \A i \in 1..4 : FigureIsHonest(report, ReportFigures[i])
  BY DEF ReportInHand
<1>2. \A f \in Range(ReportFigures) : \E i \in 1..4 : f = ReportFigures[i]
  BY ReportFigureNames
<1> QED
  BY <1>1, <1>2 DEF Honest

\* What the steps of a run have in hand.
LEMMA InRun ==
    ASSUME AttestInv, step > 0
    PROVE  /\ report \in ReportShape /\ report.day \in Days
           /\ report \notin {NoReport, TornReport}
           /\ LastDay = report.day /\ LastBegun = report.begun
           /\ "repo" \in Sites /\ "site" \in Sites
<1>1. /\ report \in ReportShape /\ report.day # 0 /\ report.day <= today /\ today \in Days
      /\ step # 0 /\ step \in Int
  BY DEF AttestInv, AttestTypeOK
<1>2. report.day \in Nat /\ MaxDay \in Nat
  BY <1>1, PublishAssumption DEF ReportShape
<1>3. report.day \in Days
  BY <1>1, <1>2 DEF Days
<1> QED
  BY <1>1, <1>3, EmptyReports DEF LastDay, LastBegun, Sites

-----------------------------------------------------------------------------
(* One page of one site is replaced.                                       *)

\* A dated report where the repository has one of that day: of the run, or torn.
LEMMA DatedPages ==
    ASSUME PagesInFiles, TimeGoesOn, NEW site \in Sites, NEW d \in Days, NEW r \in ReportShape,
           r # NoReport, Standing(r), r.begun <= LastBegun,
           r = TornReport \/ (r.day = d /\ r.begun = LastBegun),
           site = "repo" \/ Backs(files["repo"].dated[d], d, r),
           files' = [files EXCEPT ![site].dated[d] = r]
    PROVE  PagesInFiles'
<1>1. /\ files \in [Sites -> PagesShape] /\ "repo" \in Sites
      /\ LastDay \in Int /\ LastDay' \in Int /\ LastDay <= LastDay'
      /\ LastBegun \in Int /\ LastBegun' \in Int /\ LastBegun <= LastBegun'
  BY DEF PagesInFiles, Sites, TimeGoesOn
<1>2. /\ files' \in [Sites -> PagesShape]
      /\ files'[site].dated[d] = r
      /\ \A e \in Days \ {d} : files'[site].dated[e] = files[site].dated[e]
      /\ files'[site].series = files[site].series
      /\ \A s \in Sites \ {site} : files'[s] = files[s]
  BY <1>1 DEF PagesShape
<1> HIDE DEF TimeGoesOn
<1>3. \A s \in Sites, e \in Days :
         files'[s].dated[e] = r \/ files'[s].dated[e] = files[s].dated[e]
  BY <1>2
<1>4. \A s \in Sites : files'[s].series = files[s].series
  BY <1>2
<1>5. \A s \in Sites, e \in Days : Standing(files'[s].dated[e])
  BY <1>3 DEF PagesInFiles
<1>6. \A s \in Sites, e \in Days : files'[s].series[e] # NoReport => e <= LastDay'
  BY <1>1, <1>4 DEF PagesInFiles, Days
<1>7. \A s \in Sites, e \in Days :
         /\ files[s].series[e].begun \in Int /\ files[s].dated[e].begun \in Int
         /\ files[s].series[e].begun <= LastBegun /\ files[s].dated[e].begun <= LastBegun
  BY <1>1 DEF PagesInFiles, PagesShape, ReportShape
<1>8. r.begun \in Int
  BY DEF ReportShape
<1>9. \A s \in Sites, e \in Days :
         files'[s].series[e].begun <= LastBegun' /\ files'[s].dated[e].begun <= LastBegun'
  <2> SUFFICES ASSUME NEW s \in Sites, NEW e \in Days
               PROVE  files'[s].series[e].begun <= LastBegun'
                      /\ files'[s].dated[e].begun <= LastBegun'
    OBVIOUS
  <2>1. files'[s].series[e].begun <= LastBegun'
    BY <1>1, <1>4, <1>7
  <2>2. files'[s].dated[e].begun <= LastBegun'
    BY <1>1, <1>3, <1>7, <1>8
  <2> QED
    BY <2>1, <2>2
<1>10. \A s \in Sites, e \in Days :
          \A x \in {files'[s].series[e], files'[s].dated[e]} \ {NoReport} :
             Backs(files'["repo"].dated[e], e, x)
  <2> SUFFICES ASSUME NEW s \in Sites, NEW e \in Days,
                      NEW x \in {files'[s].series[e], files'[s].dated[e]} \ {NoReport}
               PROVE  Backs(files'["repo"].dated[e], e, x)
    OBVIOUS
  <2>1. x \in {files[s].series[e], files[s].dated[e]} => Backs(files["repo"].dated[e], e, x)
    BY DEF PagesInFiles, AllBacked
  <2>2. CASE e # d
    BY <1>1, <1>2, <1>4, <2>1, <2>2
  <2>3. CASE e = d /\ site = "repo"
    <3>1. files'["repo"].dated[e] = r
      BY <1>2, <2>3
    <3>2. x = r \/ x \in {files[s].series[e], files[s].dated[e]}
      BY <1>3, <1>4
    <3>3. x.begun \in Int /\ x.begun <= LastBegun
      BY <1>7, <1>8, <3>2
    <3> QED
      BY <1>1, <1>8, <2>3, <3>1, <3>3 DEF Backs
  <2>4. CASE e = d /\ site # "repo"
    <3>1. files'["repo"].dated[e] = files["repo"].dated[e]
      BY <1>1, <1>2, <2>4
    <3>2. x = r \/ x \in {files[s].series[e], files[s].dated[e]}
      BY <1>3, <1>4
    <3> QED
      BY <2>1, <2>4, <3>1, <3>2
  <2> QED
    BY <2>2, <2>3, <2>4
<1> QED
  BY <1>2, <1>5, <1>6, <1>9, <1>10 DEF PagesInFiles, AllBacked

\* The dated pages and the series lines are what they were.
LEMMA SamePages ==
    ASSUME PagesInFiles, TimeGoesOn, files' \in [Sites -> PagesShape],
           \A s \in Sites : files'[s].dated = files[s].dated /\ files'[s].series = files[s].series
    PROVE  PagesInFiles'
<1>1. /\ files \in [Sites -> PagesShape] /\ "repo" \in Sites
      /\ LastDay \in Int /\ LastDay' \in Int /\ LastDay <= LastDay'
      /\ LastBegun \in Int /\ LastBegun' \in Int /\ LastBegun <= LastBegun'
  BY DEF PagesInFiles, Sites, TimeGoesOn
<1>2. \A s \in Sites, e \in Days : Standing(files'[s].dated[e])
  BY DEF PagesInFiles
<1>3. \A s \in Sites, e \in Days :
         \A x \in {files'[s].series[e], files'[s].dated[e]} \ {NoReport} :
            Backs(files'["repo"].dated[e], e, x)
  BY <1>1 DEF PagesInFiles, AllBacked
<1>4. \A s \in Sites, e \in Days : files'[s].series[e] # NoReport => e <= LastDay'
  BY <1>1 DEF PagesInFiles, Days
<1>5. \A s \in Sites, e \in Days :
         files[s].series[e].begun \in Int /\ files[s].dated[e].begun \in Int
  BY <1>1 DEF PagesShape, ReportShape
<1>6. \A s \in Sites, e \in Days :
         files'[s].series[e].begun <= LastBegun' /\ files'[s].dated[e].begun <= LastBegun'
  BY <1>1, <1>5 DEF PagesInFiles
<1> QED
  BY <1>2, <1>3, <1>4, <1>6 DEF PagesInFiles, AllBacked

LEMMA LatestPages ==
    ASSUME PagesInFiles, TimeGoesOn, NEW site \in Sites, NEW r \in ReportShape,
           files' = [files EXCEPT ![site].latest = r]
    PROVE  PagesInFiles'
<1>1. files \in [Sites -> PagesShape]
  BY DEF PagesInFiles
<1>2. /\ files' \in [Sites -> PagesShape]
      /\ \A s \in Sites : files'[s].dated = files[s].dated /\ files'[s].series = files[s].series
  BY <1>1 DEF PagesShape
<1> QED
  BY <1>2, SamePages

LEMMA SeriesPages ==
    ASSUME PagesInFiles, TimeGoesOn, NEW site \in Sites, NEW rs \in [Days -> ReportShape],
           \A e \in Days : rs[e] # NoReport =>
              Backs(files["repo"].dated[e], e, rs[e]) /\ e <= LastDay,
           \A e \in Days : rs[e].begun <= LastBegun,
           files' = [files EXCEPT ![site].series = rs]
    PROVE  PagesInFiles'
<1>1. /\ files \in [Sites -> PagesShape] /\ "repo" \in Sites
      /\ LastDay \in Int /\ LastDay' \in Int /\ LastDay <= LastDay'
      /\ LastBegun \in Int /\ LastBegun' \in Int /\ LastBegun <= LastBegun'
  BY DEF PagesInFiles, Sites, TimeGoesOn
<1>2. /\ files' \in [Sites -> PagesShape]
      /\ \A s \in Sites : /\ files'[s].dated = files[s].dated
                          /\ files'[s].series \in {files[s].series, rs}
  BY <1>1 DEF PagesShape
<1>3. \A s \in Sites, e \in Days : Standing(files'[s].dated[e])
  BY <1>2 DEF PagesInFiles
<1>4. \A s \in Sites, e \in Days :
         \A x \in {files'[s].series[e], files'[s].dated[e]} \ {NoReport} :
            Backs(files'["repo"].dated[e], e, x)
  <2> SUFFICES ASSUME NEW s \in Sites, NEW e \in Days,
                      NEW x \in {files'[s].series[e], files'[s].dated[e]} \ {NoReport}
               PROVE  Backs(files["repo"].dated[e], e, x)
    BY <1>1, <1>2
  <2>1. x \in {files[s].series[e], files[s].dated[e]} => Backs(files["repo"].dated[e], e, x)
    BY DEF PagesInFiles, AllBacked
  <2>2. x = rs[e] \/ x \in {files[s].series[e], files[s].dated[e]}
    BY <1>2
  <2> QED
    BY <2>1, <2>2
<1>5. \A s \in Sites, e \in Days : files'[s].series[e] # NoReport => e <= LastDay'
  <2> SUFFICES ASSUME NEW s \in Sites, NEW e \in Days, files'[s].series[e] # NoReport
               PROVE  e <= LastDay'
    OBVIOUS
  <2>1. e <= LastDay /\ e \in Int
    BY <1>2 DEF PagesInFiles, Days
  <2> QED
    BY <1>1, <2>1
<1>6. \A s \in Sites, e \in Days :
         /\ files[s].series[e].begun \in Int /\ files[s].dated[e].begun \in Int
         /\ rs[e].begun \in Int
  BY <1>1 DEF PagesShape, ReportShape
<1>7. \A s \in Sites, e \in Days :
         files'[s].series[e].begun <= LastBegun' /\ files'[s].dated[e].begun <= LastBegun'
  <2> SUFFICES ASSUME NEW s \in Sites, NEW e \in Days
               PROVE  files'[s].series[e].begun <= LastBegun'
                      /\ files'[s].dated[e].begun <= LastBegun'
    OBVIOUS
  <2>1. /\ files[s].series[e].begun <= LastBegun /\ files[s].dated[e].begun <= LastBegun
        /\ rs[e].begun <= LastBegun
    BY DEF PagesInFiles
  <2>2. files'[s].series[e] = rs[e] \/ files'[s].series[e] = files[s].series[e]
    BY <1>2
  <2> QED
    BY <1>1, <1>2, <1>6, <2>1, <2>2
<1> QED
  BY <1>2, <1>3, <1>4, <1>5, <1>7 DEF PagesInFiles, AllBacked

-----------------------------------------------------------------------------
(* The attestation's steps.                                                *)

LEMMA RowsGrow ==
    ASSUME rows \in [Wallets -> [Days -> Null..Block]], Block \in Int, Block' \in Int,
           Block <= Block'
    PROVE  rows \in [Wallets -> [Days -> Null..Block']]
<1>1. Null..Block \subseteq Null..Block'
  BY DEF Null
<1> QED
  BY <1>1

LEMMA FilesRest == ASSUME PagesInFiles, TimeGoesOn, files' = files PROVE PagesInFiles'
<1>1. files' \in [Sites -> PagesShape]
  BY DEF PagesInFiles
<1> QED
  BY <1>1, SamePages

LEMMA LastDayType ==
    AttestTypeOK => /\ LastDay \in Int /\ today \in Int /\ LastDay <= today
                    /\ LastBegun \in Int /\ Block \in Nat /\ LastBegun <= Block
  BY BlockType DEF AttestTypeOK, LastDay, LastBegun, ReportShape, Days

\* Neither the day nor the start of the run in hand has changed.
LEMMA TimeStands ==
    ASSUME AttestTypeOK, step # 0, step' # 0, report'.day = report.day,
           report'.begun = report.begun
    PROVE  TimeGoesOn
<1>1. LastDay' = LastDay /\ LastBegun' = LastBegun
  BY DEF LastDay, LastBegun
<1> QED
  BY <1>1, LastDayType DEF TimeGoesOn

\* The attestation rests while the chain goes on.
LEMMA AttestRests ==
    ASSUME AttestInv, LiveTypeOK', Block <= Block', UNCHANGED attest
    PROVE  AttestInv'
<1>1. Block \in Int /\ Block' \in Int
  BY DEF AttestInv, AttestTypeOK, LiveTypeOK, Block
<1>2. rows' \in [Wallets -> [Days -> Null..Block']]
  BY <1>1, RowsGrow DEF AttestInv, AttestTypeOK, attest
<1>3. report.begun \in Int /\ \A f \in Range(ReportFigures) : report.figures[f] \in Int
  BY DEF AttestInv, AttestTypeOK, ReportShape
<1>4. report.begun <= Block' /\ \A f \in Range(ReportFigures) : report.figures[f] <= Block'
  BY <1>1, <1>3 DEF AttestInv, AttestTypeOK, ReportInHand
<1>5. /\ today' = today /\ files' = files /\ pushed' = pushed /\ rows' = rows
      /\ report' = report /\ step' = step
  BY DEF attest
<1>6. AttestTypeOK'
  BY <1>2, <1>4, <1>5 DEF AttestInv, AttestTypeOK
<1>7. ReportInHand'
  BY <1>4, <1>5 DEF AttestInv, ReportInHand
<1>8. LastDay' = LastDay /\ LastBegun' = IF step = 0 THEN Block' ELSE report.begun
  BY <1>5 DEF LastDay, LastBegun
<1>9. TimeGoesOn
  BY <1>1, <1>3, <1>8, LastDayType DEF AttestInv, TimeGoesOn, LastBegun
<1>10. PagesInFiles'
  BY <1>5, <1>9, FilesRest DEF AttestInv
<1>11. WrittenSoFar' /\ PushedIsWhole'
  BY <1>5 DEF AttestInv, WrittenSoFar, PushedIsWhole
<1> QED
  BY <1>6, <1>7, <1>10, <1>11 DEF AttestInv

LEMMA NextDayStep == ASSUME AttestInv, NextDay PROVE AttestInv'
<1>1. LiveTypeOK' /\ Block' = Block
  BY QuietChain DEF AttestInv, AttestTypeOK, NextDay
<1>2. /\ today \in Days /\ today < MaxDay /\ today' = today + 1
      /\ UNCHANGED <<files, pushed, rows, report, step>>
  BY DEF AttestInv, AttestTypeOK, NextDay
<1>3. today' \in Days /\ report'.day <= today'
  BY <1>2, PublishAssumption DEF AttestInv, AttestTypeOK, Days, ReportShape
<1>4. AttestTypeOK'
  BY <1>1, <1>2, <1>3 DEF AttestInv, AttestTypeOK
<1>5. ReportInHand'
  BY <1>1, <1>2 DEF AttestInv, ReportInHand
<1>6. TimeGoesOn
  <2>1. LastDay' = (IF step = 0 THEN today + 1 ELSE report.day) /\ LastBegun' = LastBegun
    BY <1>1, <1>2 DEF LastDay, LastBegun
  <2>2. report.day \in Int /\ LastBegun \in Int /\ today \in Int
    BY LastDayType DEF AttestInv, AttestTypeOK, ReportShape
  <2> QED
    BY <2>1, <2>2 DEF TimeGoesOn, LastDay
<1>7. PagesInFiles'
  BY <1>2, <1>6, FilesRest DEF AttestInv
<1>8. WrittenSoFar' /\ PushedIsWhole'
  BY <1>2 DEF AttestInv, WrittenSoFar, PushedIsWhole
<1> QED
  BY <1>4, <1>5, <1>7, <1>8 DEF AttestInv

LEMMA AttestStartStep == ASSUME AttestInv, AttestStart PROVE AttestInv'
<1>1. LiveTypeOK' /\ Block' = Block /\ Block \in Nat
  BY QuietChain, BlockType DEF AttestInv, AttestTypeOK, AttestStart
<1>2. /\ step = 0 /\ step' = 1 /\ report' = [NoReport EXCEPT !.day = today, !.begun = Block]
      /\ UNCHANGED <<today, files, pushed, rows>> /\ today \in Days
  BY DEF AttestInv, AttestTypeOK, AttestStart
<1>3. /\ report' \in ReportShape /\ report'.day = today /\ report'.begun = Block
      /\ report'.unavailable = {}
      /\ \A f \in Range(ReportFigures) : report'.figures[f] = Null
  <2>1. today \in Nat /\ Block \in Int
    BY <1>1, <1>2 DEF Days
  <2>2. NoReport \in ReportShape /\ \A f \in Range(ReportFigures) : NoReport.figures[f] = Null
    BY EmptyReports
  <2>3. NoReport.unavailable = {}
    BY EmptyReports
  <2> QED
    BY <1>2, <2>1, <2>2, <2>3 DEF ReportShape
<1>4. AttestTypeOK'
  BY <1>1, <1>2, <1>3 DEF AttestInv, AttestTypeOK, Days
<1>5. ReportInHand'
  <2>1. \A i \in 1..4 : ReportFigures[i] \in Range(ReportFigures) /\ ~(i < 1)
    BY ReportFigureNames
  <2>2. /\ report'.begun >= 0
        /\ \A f \in Range(ReportFigures) : report'.figures[f] <= Block'
    BY <1>1, <1>3 DEF Null
  <2> QED
    BY <1>2, <1>3, <2>1, <2>2 DEF ReportInHand
<1>6. LastDay = today /\ LastDay' = today /\ LastBegun = Block /\ LastBegun' = Block
  BY <1>2, <1>3 DEF LastDay, LastBegun
<1>7. TimeGoesOn
  BY <1>1, <1>2, <1>6 DEF TimeGoesOn, Days
<1>8. PagesInFiles'
  BY <1>2, <1>7, FilesRest DEF AttestInv
<1>9. WrittenSoFar' /\ PushedIsWhole'
  BY <1>2 DEF AttestInv, WrittenSoFar, PagesFrom, PushedIsWhole
<1> QED
  BY <1>4, <1>5, <1>8, <1>9 DEF AttestInv

\* A gap that is listed as unavailable is honest.
LEMMA ListedGap ==
    ASSUME NEW r, NEW f, r.figures[f] = Null, f \in r.unavailable
    PROVE  FigureIsHonest(r, f)
  BY DEF FigureIsHonest, Null, Configured

LEMMA NoProviderStep == ASSUME AttestInv, NoProvider PROVE AttestInv'
<1>1. LiveTypeOK' /\ Block' = Block
  BY SameChain DEF AttestInv, AttestTypeOK, NoProvider
<1>2. step \in 1..4 /\ "as_of_block" = ReportFigures[step]
  BY AttestAtStep, AttestTable DEF AttestInv, AttestTypeOK, NoProvider, AttestAt
<1>3. /\ step = 1 /\ step' = 5 /\ UNCHANGED <<today, files, pushed, rows>>
      /\ report' = [report EXCEPT !.unavailable = Range(ReportFigures)]
  BY <1>2, ReportFigureNames, AttestTable DEF NoProvider
<1>4. /\ report' \in ReportShape /\ report'.day = report.day /\ report'.begun = report.begun
      /\ report'.figures = report.figures /\ report'.unavailable = Range(ReportFigures)
  BY <1>3 DEF AttestInv, AttestTypeOK, ReportShape
<1>5. AttestTypeOK'
  BY <1>1, <1>3, <1>4 DEF AttestInv, AttestTypeOK
<1>6. \A i \in 1..4 : FigureIsHonest(report', ReportFigures[i])
  <2> SUFFICES ASSUME NEW i \in 1..4 PROVE FigureIsHonest(report', ReportFigures[i])
    OBVIOUS
  <2>1. ReportFigures[i] \in Range(ReportFigures)
    BY ReportFigureNames
  <2>2. report.figures[ReportFigures[i]] = Null
    BY <1>3 DEF AttestInv, ReportInHand
  <2> QED
    BY <1>4, <2>1, <2>2, ListedGap
<1>7. ReportInHand'
  <2>1. \A i \in 1..4 : i < 5
    OBVIOUS
  <2>2. /\ report'.begun >= 0
        /\ \A f \in Range(ReportFigures) : report'.figures[f] <= Block'
    BY <1>1, <1>3, <1>4 DEF AttestInv, ReportInHand
  <2>3. step' > 0 => \A i \in 1..4 :
           IF i < step' THEN FigureIsHonest(report', ReportFigures[i])
           ELSE report'.figures[ReportFigures[i]] = Null
                /\ ReportFigures[i] \notin report'.unavailable
    BY <1>3, <1>6, <2>1
  <2> QED
    BY <2>2, <2>3 DEF ReportInHand, FigureIsHonest
<1>8. PagesInFiles'
  BY <1>3, <1>4, TimeStands, FilesRest DEF AttestInv
<1>9. WrittenSoFar' /\ PushedIsWhole'
  BY <1>3 DEF AttestInv, WrittenSoFar, PagesFrom, PushedIsWhole
<1> QED
  BY <1>5, <1>7, <1>8, <1>9 DEF AttestInv

\* The figure just read is honest, whatever came of its read.
LEMMA ReadIsHonest ==
    ASSUME AttestInv, NEW ok \in BOOLEAN, NEW f \in Range(ReportFigures), NEW r \in ReportShape,
           f \notin report.unavailable, Block \in Nat,
           report.begun <= Block, report.figures["as_of_block"] <= Block,
           r.begun = report.begun, r.figures[f] = ReportRead(f, ok),
           f = "as_of_block" \/ r.figures["as_of_block"] = report.figures["as_of_block"],
           r.unavailable = report.unavailable \cup ({f} \ IF ok THEN {f} ELSE ALT_PROBES)
    PROVE  FigureIsHonest(r, f)
<1>1. CASE ok
  <2>1. r.figures[f] = Block /\ f \notin r.unavailable
    BY <1>1 DEF ReportRead
  <2>2. r.begun <= Block /\ r.figures["as_of_block"] <= Block
    BY <2>1
  <2> QED
    BY <2>1, <2>2 DEF FigureIsHonest, Null, Configured
<1>2. CASE ~ok /\ f \in Fallbacks
  BY <1>2 DEF FigureIsHonest, ReportRead, ALT_PROBES, Null, Configured
<1>3. CASE ~ok /\ f \notin Fallbacks
  <2>1. r.figures[f] = Null /\ (f \notin ALT_PROBES => f \in r.unavailable)
    BY <1>3 DEF ReportRead
  <2> QED
    BY <2>1 DEF FigureIsHonest, Null, Configured
<1> QED
  BY <1>1, <1>2, <1>3

LEMMA AttestReadStep ==
    ASSUME AttestInv, NEW ok \in BOOLEAN, NEW f \in Range(ReportFigures), AttestRead(f, ok)
    PROVE  AttestInv'
<1> DEFINE x == ReportRead(f, ok)
           u == {f} \ IF ok THEN {f} ELSE ALT_PROBES
<1>1. LiveTypeOK' /\ Block' = Block /\ Block \in Nat
  BY SameChain, BlockType DEF AttestInv, AttestTypeOK, AttestRead
<1>2. /\ report' = [report EXCEPT !.figures[f] = x, !.unavailable = @ \cup u]
      /\ step' = step + 1 /\ UNCHANGED <<today, files, pushed, rows>> /\ report \in ReportShape
  BY DEF AttestInv, AttestTypeOK, AttestRead, AttestGoesOn
<1>3. step \in 1..4 /\ f = ReportFigures[step]
  BY AttestAtStep DEF AttestInv, AttestTypeOK, AttestRead
<1>4. x \in Int /\ x \in {Null, Configured, Block} /\ u \subseteq {f}
  BY <1>1 DEF ReportRead, Null, Configured
<1> HIDE DEF x, u
<1>5. /\ report' \in ReportShape /\ report'.day = report.day /\ report'.begun = report.begun
      /\ report'.figures[f] = x /\ report'.unavailable = report.unavailable \cup u
      /\ \A g \in Range(ReportFigures) \ {f} : report'.figures[g] = report.figures[g]
  BY <1>2, <1>4 DEF ReportShape
<1>6. /\ "as_of_block" \in Range(ReportFigures)
      /\ \A i \in 1..4 : ReportFigures[i] \in Range(ReportFigures)
      /\ \A i, k \in 1..4 : ReportFigures[i] = ReportFigures[k] => i = k
  BY ReportFigureNames
<1>7. /\ report.begun \in Int /\ report.begun >= 0 /\ report.begun <= Block
      /\ \A g \in Range(ReportFigures) : report.figures[g] <= Block
      /\ \A i \in 1..4 :
            IF i < step THEN FigureIsHonest(report, ReportFigures[i])
            ELSE report.figures[ReportFigures[i]] = Null
                 /\ ReportFigures[i] \notin report.unavailable
  BY <1>2, <1>3 DEF AttestInv, AttestTypeOK, ReportInHand, ReportShape
<1>8. \A g \in Range(ReportFigures) : report'.figures[g] <= Block
  BY <1>1, <1>4, <1>5, <1>7 DEF Null, Configured
<1>9. FigureIsHonest(report', f)
  <2>1. f \notin report.unavailable
    BY <1>3, <1>7
  <2>2. f = "as_of_block" \/ report'.figures["as_of_block"] = report.figures["as_of_block"]
    BY <1>5, <1>6
  <2>3. report.figures["as_of_block"] <= Block
    BY <1>6, <1>7
  <2>4. /\ report'.figures[f] = ReportRead(f, ok)
        /\ report'.unavailable = report.unavailable \cup ({f} \ IF ok THEN {f} ELSE ALT_PROBES)
    BY <1>5 DEF x, u
  <2> QED
    BY <1>1, <1>5, <1>7, <2>1, <2>2, <2>3, <2>4, ReadIsHonest, Zenon
<1>10. \A i \in 1..4 :
          IF i < step' THEN FigureIsHonest(report', ReportFigures[i])
          ELSE report'.figures[ReportFigures[i]] = Null
               /\ ReportFigures[i] \notin report'.unavailable
  <2> SUFFICES ASSUME NEW i \in 1..4
               PROVE  IF i < step' THEN FigureIsHonest(report', ReportFigures[i])
                      ELSE report'.figures[ReportFigures[i]] = Null
                           /\ ReportFigures[i] \notin report'.unavailable
    OBVIOUS
  <2> DEFINE g == ReportFigures[i]
  <2>1. g \in Range(ReportFigures) /\ (i # step => g # f)
    BY <1>3, <1>6
  <2>2. CASE i = step
    BY <1>2, <1>3, <1>9, <2>2
  <2>3. CASE i < step
    <3>1. /\ g # f /\ f # "as_of_block" /\ i < step' /\ FigureIsHonest(report, g)
          /\ "as_of_block" \in Range(ReportFigures)
      BY <1>2, <1>3, <1>7, <2>1, <2>3, ReportFigureNames
    <3>2. /\ report'.figures[g] = report.figures[g]
          /\ report'.figures["as_of_block"] = report.figures["as_of_block"]
          /\ (g \in report'.unavailable) = (g \in report.unavailable)
      BY <1>4, <1>5, <2>1, <3>1
    <3> HIDE DEF g
    <3>3. FigureIsHonest(report', g)
      BY <1>5, <3>1, <3>2 DEF FigureIsHonest
    <3> QED
      BY <3>1, <3>3 DEF g
  <2>4. CASE i > step
    <3>1. g # f /\ ~(i < step') /\ ~(i < step)
      BY <1>2, <1>3, <2>1, <2>4
    <3> QED
      BY <1>4, <1>5, <1>7, <2>1, <3>1
  <2> QED
    BY <1>3, <2>2, <2>3, <2>4
<1>11. step' \in 2..5 /\ step # 0 /\ report.day # 0
  BY <1>2, <1>3 DEF AttestInv, AttestTypeOK
<1>12. AttestTypeOK'
  BY <1>1, <1>2, <1>5, <1>11 DEF AttestInv, AttestTypeOK
<1>13. ReportInHand'
  BY <1>1, <1>5, <1>7, <1>8, <1>10 DEF ReportInHand, FigureIsHonest
<1>14. PagesInFiles'
  BY <1>2, <1>5, <1>11, TimeStands, FilesRest DEF AttestInv
<1>15. WrittenSoFar' /\ PushedIsWhole'
  BY <1>2, <1>11 DEF AttestInv, WrittenSoFar, PagesFrom, PushedIsWhole
<1> QED
  BY <1>12, <1>13, <1>14, <1>15 DEF AttestInv

\* The repository's series, and this run's line in it, is backed.
LEMMA SeriesOfRun ==
    ASSUME AttestInv, step > 5, step \in Int,
           NEW rs \in [Days -> ReportShape], rs[report.day] = report,
           \A d \in Days : d # report.day => rs[d] = files["repo"].series[d]
    PROVE  /\ \A d \in Days : rs[d] # NoReport =>
                 Backs(files["repo"].dated[d], d, rs[d]) /\ d <= LastDay
           /\ \A d \in Days : rs[d].begun <= LastBegun
<1>1. /\ report \in ReportShape /\ report.day \in Days /\ report # NoReport
      /\ LastDay = report.day /\ LastBegun = report.begun /\ "repo" \in Sites /\ step > 0
  BY InRun
<1>2. files["repo"].dated[report.day] = report
  BY <1>1 DEF AttestInv, WrittenSoFar, PagesFrom
<1>3. report.begun \in Int /\ report.day \in Int
  BY <1>1 DEF ReportShape
<1>4. Backs(report, report.day, report)
  BY <1>1, <1>3 DEF Backs
<1>5. ASSUME NEW d \in Days, rs[d] # NoReport
      PROVE  Backs(files["repo"].dated[d], d, rs[d]) /\ d <= LastDay
  <2>1. CASE d = report.day
    BY <1>1, <1>2, <1>3, <1>4, <2>1
  <2>2. CASE d # report.day
    <3>1. rs[d] \in {files["repo"].series[d], files["repo"].dated[d]} \ {NoReport}
      BY <1>5, <2>2
    <3>2. Backs(files["repo"].dated[d], d, rs[d])
      BY <1>1, <3>1 DEF AttestInv, PagesInFiles, AllBacked
    <3>3. d <= LastDay
      BY <1>1, <1>5, <2>2 DEF AttestInv, PagesInFiles
    <3> QED
      BY <3>2, <3>3
  <2> QED
    BY <2>1, <2>2
<1>6. ASSUME NEW d \in Days PROVE rs[d].begun <= LastBegun
  <2>1. CASE d = report.day
    BY <1>1, <1>3, <2>1
  <2>2. CASE d # report.day
    BY <1>1, <2>2 DEF AttestInv, PagesInFiles
  <2> QED
    BY <2>1, <2>2
<1> QED
  BY <1>5, <1>6

\* A page as a run writes it: the repository's from its report, the site's
\* from the repository's, which is that report.
LEMMA PageWritten ==
    ASSUME AttestInv, NEW site \in Sites, NEW page \in {"dated", "latest", "series"},
           AttestWrite(site, page)
    PROVE  \/ /\ page = "dated" /\ step = PagesFrom(site)
              /\ files' = [files EXCEPT ![site].dated[report.day] = report]
           \/ /\ page = "latest" /\ step = PagesFrom(site) + 1
              /\ files' = [files EXCEPT ![site].latest = report]
           \/ /\ page = "series" /\ step = PagesFrom(site) + 2
              /\ \E rs \in [Days -> ReportShape] :
                    /\ files' = [files EXCEPT ![site].series = rs]
                    /\ rs[report.day] = report
                    /\ \A d \in Days : rs[d] # NoReport =>
                          Backs(files["repo"].dated[d], d, rs[d]) /\ d <= LastDay
                    /\ \A d \in Days : rs[d].begun <= LastBegun
<1>1. /\ step \in 0..13 /\ AttestAt(<<site, page>>) /\ files' = Written(site, page)
      /\ site \in {"repo", "site"}
  BY DEF AttestInv, AttestTypeOK, AttestWrite, Sites
<1>2. step > 0 /\ step \in Int
  BY <1>1 DEF AttestAt
<1>3. /\ report \in ReportShape /\ report # NoReport /\ report.day \in Days
      /\ LastDay = report.day /\ "repo" \in Sites
  BY <1>2, InRun
<1>4. files["repo"] \in PagesShape
  BY <1>3 DEF AttestInv, PagesInFiles
<1>5. CASE page = "dated"
  <2>1. step = PagesFrom(site)
    BY <1>1, <1>5, AttestAtStep
  <2>2. site = "site" => files["repo"].dated[report.day] = report
    BY <1>3, <2>1 DEF AttestInv, WrittenSoFar, PagesFrom
  <2> QED
    BY <1>1, <1>5, <2>1, <2>2 DEF Written
<1>6. CASE page = "latest"
  <2>1. step = PagesFrom(site) + 1
    BY <1>1, <1>6, AttestAtStep
  <2>2. site = "site" => files["repo"].latest = report
    BY <1>3, <2>1 DEF AttestInv, WrittenSoFar, PagesFrom
  <2> QED
    BY <1>1, <1>6, <2>1, <2>2 DEF Written
<1>7. CASE page = "series"
  <2>1. step = PagesFrom(site) + 2
    BY <1>1, <1>7, AttestAtStep
  <2>2. site = "site" => files["repo"].series[report.day] = report
    BY <1>3, <2>1 DEF AttestInv, WrittenSoFar, PagesFrom
  <2>3. step > 5
    BY <2>1 DEF PagesFrom
  <2> DEFINE rs == IF site = "repo" THEN SeriesWith(report) ELSE files["repo"].series
  <2>4. rs \in [Days -> ReportShape] /\ rs[report.day] = report
    BY <1>1, <1>3, <1>4, <2>2 DEF PagesShape, SeriesWith
  <2>5. \A d \in Days : d # report.day => rs[d] = files["repo"].series[d]
    BY <1>3, <1>4 DEF PagesShape, SeriesWith
  <2>6. files' = [files EXCEPT ![site].series = rs]
    BY <1>1, <1>7 DEF Written
  <2> HIDE DEF rs
  <2>7. /\ \A d \in Days : rs[d] # NoReport =>
              Backs(files["repo"].dated[d], d, rs[d]) /\ d <= LastDay
        /\ \A d \in Days : rs[d].begun <= LastBegun
    BY <1>2, <2>4, <2>5, <2>3, SeriesOfRun
  <2> QED
    BY <1>7, <2>1, <2>4, <2>6, <2>7
<1> QED
  BY <1>5, <1>6, <1>7

LEMMA AttestWriteStep ==
    ASSUME AttestInv, NEW site \in Sites, NEW page \in {"dated", "latest", "series"},
           AttestWrite(site, page)
    PROVE  AttestInv'
<1>1. LiveTypeOK' /\ Block' = Block
  BY QuietChain DEF AttestInv, AttestTypeOK, AttestWrite
<1>2. /\ step' = step + 1 /\ UNCHANGED <<today, pushed, rows, report>> /\ step \in 0..13
  BY DEF AttestInv, AttestTypeOK, AttestWrite, AttestGoesOn
<1>3. PagesFrom(site) \in {5, 8} /\ step \in PagesFrom(site)..(PagesFrom(site) + 2)
  BY <1>2, PageWritten DEF PagesFrom
<1>4. step \in 5..10 /\ step' \in 6..11
  BY <1>2, <1>3
<1>5. /\ report \in ReportShape /\ report # NoReport /\ report.day \in Days
      /\ LastDay = report.day /\ LastBegun = report.begun
  BY <1>4, InRun
<1>6. Standing(report) /\ report.begun <= LastBegun
  <2>1. Honest(report)
    BY <1>4, AllRead DEF AttestInv
  <2> QED
    BY <1>5, <2>1 DEF Standing, ReportShape
<1>7. AttestTypeOK'
  BY <1>1, <1>2, <1>4 DEF AttestInv, AttestTypeOK
<1>8. ReportInHand'
  <2>1. \A i \in 1..4 : i < step /\ i < step'
    BY <1>4
  <2> QED
    BY <1>1, <1>2, <1>4, <2>1 DEF AttestInv, ReportInHand
<1>9. PagesInFiles /\ files \in [Sites -> PagesShape]
  BY DEF AttestInv, PagesInFiles
<1>10. TimeGoesOn
  BY <1>2, <1>4, TimeStands DEF AttestInv
<1>11. PushedIsWhole'
  BY <1>2 DEF AttestInv, PushedIsWhole
<1>12. \A s \in Sites \ {site} :
          /\ step' > PagesFrom(s) => step > PagesFrom(s)
          /\ step' > PagesFrom(s) + 1 => step > PagesFrom(s) + 1
          /\ step' > PagesFrom(s) + 2 => step > PagesFrom(s) + 2
  BY <1>2, <1>3 DEF Sites, PagesFrom
<1>13. CASE /\ page = "dated" /\ step = PagesFrom(site)
            /\ files' = [files EXCEPT ![site].dated[report.day] = report]
  <2>1. site = "repo" \/ Backs(files["repo"].dated[report.day], report.day, report)
    <3> SUFFICES ASSUME site = "site"
                 PROVE  Backs(files["repo"].dated[report.day], report.day, report)
      BY DEF Sites
    <3>1. files["repo"].dated[report.day] = report
      BY <1>4, <1>13 DEF AttestInv, WrittenSoFar, PagesFrom, Sites
    <3>2. report.begun \in Int
      BY <1>5 DEF ReportShape
    <3> QED
      BY <1>5, <3>1, <3>2 DEF Backs
  <2>2. PagesInFiles'
    BY <1>5, <1>6, <1>9, <1>10, <1>13, <2>1, DatedPages, Zenon
  <2>3. files'[site].dated[report.day] = report /\ \A s \in Sites \ {site} : files'[s] = files[s]
    BY <1>5, <1>9, <1>13 DEF PagesShape
  <2>4. WrittenSoFar'
    BY <1>2, <1>3, <1>12, <1>13, <2>3 DEF AttestInv, WrittenSoFar
  <2> QED
    BY <1>7, <1>8, <1>11, <2>2, <2>4 DEF AttestInv
<1>14. CASE /\ page = "latest" /\ step = PagesFrom(site) + 1
            /\ files' = [files EXCEPT ![site].latest = report]
  <2>1. PagesInFiles'
    BY <1>5, <1>9, <1>10, <1>14, LatestPages, Zenon
  <2>2. /\ files'[site].latest = report /\ files'[site].dated = files[site].dated
        /\ \A s \in Sites \ {site} : files'[s] = files[s]
    BY <1>5, <1>9, <1>14 DEF PagesShape
  <2>3. WrittenSoFar'
    BY <1>2, <1>3, <1>12, <1>14, <2>2 DEF AttestInv, WrittenSoFar
  <2> QED
    BY <1>7, <1>8, <1>11, <2>1, <2>3 DEF AttestInv
<1>15. ASSUME page = "series", step = PagesFrom(site) + 2, NEW rs \in [Days -> ReportShape],
              files' = [files EXCEPT ![site].series = rs], rs[report.day] = report,
              \A d \in Days : rs[d] # NoReport =>
                 Backs(files["repo"].dated[d], d, rs[d]) /\ d <= LastDay,
              \A d \in Days : rs[d].begun <= LastBegun
       PROVE  AttestInv'
  <2>1. PagesInFiles'
    BY <1>9, <1>10, <1>15, SeriesPages, Zenon
  <2>2. /\ files'[site].series = rs /\ files'[site].dated = files[site].dated
        /\ files'[site].latest = files[site].latest
        /\ \A s \in Sites \ {site} : files'[s] = files[s]
    BY <1>9, <1>15 DEF PagesShape
  <2>3. WrittenSoFar'
    BY <1>2, <1>3, <1>12, <1>15, <2>2 DEF AttestInv, WrittenSoFar
  <2> QED
    BY <1>7, <1>8, <1>11, <2>1, <2>3 DEF AttestInv
<1> QED
  BY <1>13, <1>14, <1>15, PageWritten

LEMMA SnapshotsStep ==
    ASSUME AttestInv, NEW answered \in SUBSET Wallets, Snapshots(answered) PROVE AttestInv'
<1>1. LiveTypeOK' /\ Block' = Block /\ Block \in Nat
  BY SameChain, BlockType DEF AttestInv, AttestTypeOK, Snapshots
<1>2. /\ step = 11 /\ step' = 12 /\ UNCHANGED <<today, files, pushed, report>>
      /\ rows' = [w \in Wallets |->
            [rows[w] EXCEPT ![report.day] = IF w \in answered THEN Block ELSE @]]
  BY AttestAtStep DEF AttestInv, AttestTypeOK, Snapshots, AttestGoesOn
<1>3. rows' \in [Wallets -> [Days -> Null..Block]]
  <2>1. rows \in [Wallets -> [Days -> Null..Block]] /\ Block \in Null..Block
    BY <1>1 DEF AttestInv, AttestTypeOK, Null
  <2>2. ASSUME NEW w \in Wallets
        PROVE  [rows[w] EXCEPT ![report.day] = IF w \in answered THEN Block ELSE @]
                  \in [Days -> Null..Block]
    BY <2>1
  <2> QED
    BY <1>2, <2>2
<1>4. AttestTypeOK'
  BY <1>1, <1>2, <1>3 DEF AttestInv, AttestTypeOK
<1>5. ReportInHand'
  <2>1. \A i \in 1..4 : i < 11 /\ i < 12
    OBVIOUS
  <2> QED
    BY <1>1, <1>2, <2>1 DEF AttestInv, ReportInHand
<1>6. PagesInFiles'
  BY <1>2, TimeStands, FilesRest DEF AttestInv
<1>7. WrittenSoFar' /\ PushedIsWhole'
  BY <1>2 DEF AttestInv, WrittenSoFar, PagesFrom, PushedIsWhole
<1> QED
  BY <1>4, <1>5, <1>6, <1>7 DEF AttestInv

\* The run is over: what it had in hand is gone, what it wrote stays.
LEMMA AttestEnds ==
    ASSUME AttestInv, LiveTypeOK', Block' = Block, AttestOver, UNCHANGED <<today, rows>>,
           PagesInFiles', pushed' \in [Sites -> PagesShape], PushedIsWhole'
    PROVE  AttestInv'
<1>1. step' = 0 /\ report' = NoReport
  BY DEF AttestOver
<1>2. /\ NoReport \in ReportShape /\ NoReport.day = 0
      /\ NoReport.begun = Null /\ \A f \in Range(ReportFigures) : NoReport.figures[f] = Null
  BY EmptyReports DEF NoReport
<1>3. Block \in Nat
  BY BlockType DEF AttestInv, AttestTypeOK
<1>4. AttestTypeOK'
  BY <1>1, <1>2, <1>3 DEF AttestInv, AttestTypeOK, Null, Days
<1>5. ReportInHand'
  BY <1>1, <1>2, <1>3 DEF ReportInHand, Null
<1>6. WrittenSoFar'
  BY <1>1 DEF WrittenSoFar, PagesFrom
<1> QED
  BY <1>4, <1>5, <1>6 DEF AttestInv

\* Days and blocks do not run backwards when a run is over.
LEMMA LastDayEnds ==
    ASSUME AttestInv, AttestOver, today' = today, Block' = Block
    PROVE  TimeGoesOn
<1>1. LastDay' = today /\ LastBegun' = Block
  BY DEF AttestOver, LastDay, LastBegun
<1> QED
  BY <1>1, LastDayType DEF AttestInv, TimeGoesOn

LEMMA AttestPushStep ==
    ASSUME AttestInv, NEW site \in Sites, NEW ok \in BOOLEAN, AttestPush(site, ok)
    PROVE  AttestInv'
<1>1. LiveTypeOK' /\ Block' = Block
  BY SameChain DEF AttestInv, AttestTypeOK, AttestPush
<1>2. /\ UNCHANGED <<today, files, rows>> /\ AttestAt(<<"push", site>>) /\ step \in 0..13
      /\ pushed' = IF ok THEN [pushed EXCEPT ![site] = files[site]] ELSE pushed
      /\ files \in [Sites -> PagesShape] /\ pushed \in [Sites -> PagesShape]
  BY DEF AttestInv, AttestTypeOK, PagesInFiles, AttestPush
<1>3. step > PagesFrom(site) + 2 /\ (site = "repo" => step = 12) /\ PagesFrom(site) \in {5, 8}
  BY <1>2, AttestAtStep DEF PagesFrom
<1>4. /\ report \in ReportShape /\ report.day \in Days /\ LastDay = report.day
  BY <1>2, <1>3, InRun
<1>5. /\ pushed' \in [Sites -> PagesShape] /\ \A s \in Sites \ {site} : pushed'[s] = pushed[s]
      /\ pushed'[site] \in {files[site], pushed[site]}
  BY <1>2
<1>6. /\ files[site].latest = report /\ files[site].dated[report.day] = report
      /\ files[site].series[report.day] = report
      /\ \A d \in Days : files[site].series[d] # NoReport => d <= report.day
  BY <1>2, <1>3, <1>4 DEF AttestInv, WrittenSoFar, PagesInFiles
<1>7. PushedIsWhole'
  <2> SUFFICES ASSUME NEW s \in Sites, pushed'[s].latest # NoReport
               PROVE  LET p == pushed'[s]
                      IN  /\ p.latest.day \in Days
                          /\ p.dated[p.latest.day] = p.latest
                          /\ p.series[p.latest.day] = p.latest
                          /\ \A d \in Days : p.series[d] # NoReport => d <= p.latest.day
    BY DEF PushedIsWhole
  <2>1. CASE pushed'[s] = pushed[s]
    BY <2>1 DEF AttestInv, PushedIsWhole
  <2>2. CASE pushed'[s] = files[s] /\ s = site
    BY <1>4, <1>6, <2>2
  <2> QED
    BY <1>5, <2>1, <2>2
<1>8. CASE AttestOver
  <2>1. PagesInFiles'
    BY <1>1, <1>2, <1>8, LastDayEnds, FilesRest DEF AttestInv
  <2> QED
    BY <1>1, <1>2, <1>5, <1>7, <1>8, <2>1, AttestEnds
<1>9. CASE site = "repo" /\ AttestGoesOn /\ UNCHANGED report
  <2>1. step = 12 /\ step' = 13 /\ report' = report /\ report.day # 0
    BY <1>3, <1>9 DEF AttestGoesOn, AttestInv, AttestTypeOK
  <2>2. AttestTypeOK'
    BY <1>1, <1>2, <1>5, <2>1 DEF AttestInv, AttestTypeOK
  <2>3. ReportInHand'
    <3>1. \A i \in 1..4 : i < 12 /\ i < 13
      OBVIOUS
    <3> QED
      BY <1>1, <2>1, <3>1 DEF AttestInv, ReportInHand
  <2>4. PagesInFiles'
    BY <1>2, <2>1, TimeStands, FilesRest DEF AttestInv
  <2>5. WrittenSoFar'
    BY <1>2, <2>1 DEF AttestInv, WrittenSoFar, PagesFrom
  <2> QED
    BY <1>7, <2>2, <2>3, <2>4, <2>5 DEF AttestInv
<1> QED
  BY <1>8, <1>9 DEF AttestPush

LEMMA AttestDiesStep == ASSUME AttestInv, AttestDies PROVE AttestInv'
<1>1. LiveTypeOK' /\ Block' = Block
  BY SameChain DEF AttestInv, AttestTypeOK, AttestDies
<1>2. /\ AttestOver /\ UNCHANGED <<today, pushed, rows>> /\ step > 0 /\ step \in 0..13
      /\ PagesInFiles /\ files \in [Sites -> PagesShape]
  BY DEF AttestInv, AttestTypeOK, PagesInFiles, AttestDies
<1>3. TimeGoesOn
  BY <1>1, <1>2, LastDayEnds
<1>4. pushed' \in [Sites -> PagesShape] /\ PushedIsWhole'
  BY <1>2 DEF AttestInv, AttestTypeOK, PushedIsWhole
<1>5. report.day \in Days /\ report # NoReport /\ LastBegun = report.begun
  BY <1>2, InRun
<1>6. LastBegun \in Int /\ LastBegun >= 0
  BY <1>2, <1>3, <1>5 DEF AttestInv, ReportInHand, TimeGoesOn
<1>7. /\ TornReport \in ReportShape /\ Standing(TornReport) /\ TornReport # NoReport
      /\ NoReport \in ReportShape /\ TornReport.begun = 0 /\ NoReport.begun = Null
  BY EmptyReports, TornIsNotNone DEF TornReport, NoReport
<1>8. CASE UNCHANGED files
  BY <1>1, <1>2, <1>3, <1>4, <1>8, FilesRest, AttestEnds
<1>9. ASSUME NEW site \in Sites, NEW page \in {"dated", "latest", "series"}, NEW k \in Days,
             AttestAt(<<site, page>>), files' = TornPage(site, page, k)
      PROVE  PagesInFiles'
  <2>1. CASE page = "dated"
    <3>1. files' = [files EXCEPT ![site].dated[report.day] = TornReport]
      BY <1>9, <2>1 DEF TornPage
    <3>2. step = PagesFrom(site)
      BY <1>2, <1>9, <2>1, AttestAtStep
    <3>3. site = "repo" \/ Backs(files["repo"].dated[report.day], report.day, TornReport)
      <4> SUFFICES ASSUME site = "site"
                   PROVE  Backs(files["repo"].dated[report.day], report.day, TornReport)
        BY DEF Sites
      <4>1. files["repo"].dated[report.day] = report
        BY <3>2 DEF AttestInv, WrittenSoFar, PagesFrom, Sites
      <4> QED
        BY <1>5, <1>6, <1>7, <4>1 DEF Backs
    <3>4. TornReport.begun <= LastBegun
      BY <1>6, <1>7
    <3> QED
      BY <1>2, <1>3, <1>5, <1>7, <3>1, <3>3, <3>4, DatedPages, Zenon
  <2>2. CASE page = "latest"
    <3>1. files' = [files EXCEPT ![site].latest = TornReport]
      BY <1>9, <2>2 DEF TornPage
    <3> QED
      BY <1>2, <1>3, <1>7, <3>1, LatestPages, Zenon
  <2>3. CASE page = "series"
    <3> DEFINE rs == [d \in Days |-> IF d < k THEN files[site].series[d] ELSE NoReport]
    <3>1. files' = [files EXCEPT ![site].series = rs]
      BY <1>2, <1>9, <2>3 DEF TornPage
    <3>2. rs \in [Days -> ReportShape]
      BY <1>2, <1>7 DEF PagesShape
    <3>3. \A d \in Days : rs[d] = NoReport \/ rs[d] = files[site].series[d]
      OBVIOUS
    <3> HIDE DEF rs
    <3>4. ASSUME NEW d \in Days, rs[d] # NoReport
          PROVE  Backs(files["repo"].dated[d], d, rs[d]) /\ d <= LastDay
      <4>1. rs[d] \in {files[site].series[d], files[site].dated[d]} \ {NoReport}
        BY <3>3, <3>4
      <4>2. Backs(files["repo"].dated[d], d, rs[d])
        BY <4>1 DEF AttestInv, PagesInFiles, AllBacked
      <4> QED
        BY <3>3, <3>4, <4>2 DEF AttestInv, PagesInFiles
    <3>5. ASSUME NEW d \in Days PROVE rs[d].begun <= LastBegun
      <4>1. files[site].series[d].begun <= LastBegun
        BY DEF AttestInv, PagesInFiles
      <4> QED
        BY <1>6, <1>7, <3>3, <4>1 DEF Null
    <3>6. /\ \A d \in Days : rs[d] # NoReport =>
                Backs(files["repo"].dated[d], d, rs[d]) /\ d <= LastDay
          /\ \A d \in Days : rs[d].begun <= LastBegun
      BY <3>4, <3>5
    <3> QED
      BY <1>2, <1>3, <3>1, <3>2, <3>6, SeriesPages, Zenon
  <2> QED
    BY <2>1, <2>2, <2>3
<1>10. PagesInFiles' => AttestInv'
  BY <1>1, <1>2, <1>4, AttestEnds
<1> QED
  BY <1>8, <1>9, <1>10 DEF AttestDies

LEMMA AttestStarts == PublishInit => AttestInv
<1> SUFFICES ASSUME PublishInit PROVE AttestInv
  OBVIOUS
<1>1. LiveTypeOK /\ Block = 0
  BY ChainStart DEF PublishInit
<1>2. /\ today = 1 /\ step = 0 /\ report = NoReport
      /\ files = [s \in Sites |-> NoPages] /\ pushed = files
      /\ rows = [w \in Wallets |-> [d \in Days |-> Null]]
  BY DEF PublishInit, AttestInit
<1>3. /\ NoReport \in ReportShape /\ Standing(NoReport) /\ NoReport.day = 0
      /\ NoReport.begun = Null /\ \A f \in Range(ReportFigures) : NoReport.figures[f] = Null
  BY EmptyReports DEF NoReport
<1>4. today \in Days
  BY <1>2, PublishAssumption DEF Days
<1>5. /\ NoPages \in PagesShape /\ NoPages.latest = NoReport
      /\ \A d \in Days : NoPages.dated[d] = NoReport /\ NoPages.series[d] = NoReport
  BY <1>3 DEF NoPages, PagesShape
<1>6. rows \in [Wallets -> [Days -> Null..Block]]
  BY <1>1, <1>2 DEF Null
<1>7. files \in [Sites -> PagesShape] /\ \A s \in Sites : files[s] = NoPages /\ pushed[s] = NoPages
  BY <1>2, <1>5
<1>8. AttestTypeOK
  BY <1>1, <1>2, <1>3, <1>4, <1>6, <1>7 DEF AttestTypeOK, Null, Days
<1>9. ReportInHand
  BY <1>1, <1>2, <1>3 DEF ReportInHand, Null
<1>10. PagesInFiles
  <2>1. LastBegun = 0 /\ NoReport.begun <= LastBegun
    BY <1>1, <1>2, <1>3 DEF LastBegun, Null
  <2>2. AllBacked
    BY <1>5, <1>7 DEF AllBacked
  <2> QED
    BY <1>3, <1>5, <1>7, <2>1, <2>2 DEF PagesInFiles
<1>11. WrittenSoFar /\ PushedIsWhole
  BY <1>2, <1>5, <1>7 DEF WrittenSoFar, PagesFrom, PushedIsWhole
<1> QED
  BY <1>8, <1>9, <1>10, <1>11 DEF AttestInv

LEMMA AttestStep == AttestInv /\ [PublishNext]_publishing => AttestInv'
<1> SUFFICES ASSUME AttestInv, [PublishNext]_publishing PROVE AttestInv'
  OBVIOUS
<1>0. LiveTypeOK /\ Block \in Nat
  BY BlockType DEF AttestInv, AttestTypeOK
<1>1. CASE UNCHANGED publishing
  BY <1>0, <1>1, QuietChain, AttestRests DEF publishing
<1>2. CASE Mined /\ UNCHANGED <<watch, feeding, attest, job>>
  <2>1. LiveTypeOK' /\ Block <= Block'
    BY <1>0, <1>2, MinedOne, LogGrows
  <2> QED
    BY <1>2, <2>1, AttestRests
<1>3. CASE AttestNext
  BY <1>3, NextDayStep, AttestStartStep, NoProviderStep, AttestDiesStep, AttestReadStep,
     AttestWriteStep, SnapshotsStep, AttestPushStep
  DEF AttestNext
<1>4. CASE WatchNext /\ UNCHANGED attest
  BY <1>0, <1>4, WatchStepChain, AttestRests
<1>5. CASE StatusNext /\ UNCHANGED attest
  BY <1>0, <1>5, FeedStepChain, AttestRests
<1> QED
  BY <1>1, <1>2, <1>3, <1>4, <1>5 DEF PublishNext, JobStep

LEMMA AttestInvHolds == PublishSpec => []AttestInv
  BY AttestStarts, AttestStep, PTL DEF PublishSpec

\* Whatever write a run died at, and on whatever day the next one came, a line
\* of a series and a page of the site have the report of their day in the
\* repository: it, a later run's of that day, or -- the one exception -- the
\* page a later run of that day died writing, which no run that gets past that
\* write leaves behind.
THEOREM SeriesAreBacked == PublishSpec => []SeriesHasReports
<1>1. AttestInv => SeriesHasReports
  <2> SUFFICES ASSUME AttestInv PROVE SeriesHasReports
    OBVIOUS
  <2>1. \A d \in Days : \A site \in Sites :
           \A r \in {files[site].series[d], files[site].dated[d]} \ {NoReport} :
              Backs(files["repo"].dated[d], d, r)
    BY DEF AttestInv, PagesInFiles, AllBacked
  <2>2. step > Len(ReportFigures) + 1 => files["repo"].dated[report.day] = report
    BY AttestTable DEF AttestInv, AttestTypeOK, WrittenSoFar, PagesFrom, Sites
  <2> QED
    BY <2>1, <2>2 DEF SeriesHasReports
<1> QED
  BY <1>1, AttestInvHolds, PTL

\* The latest report a repository carries is one run's, whole: it is the dated
\* one of its day and the last line of its series.
THEOREM PushesAreWhole == PublishSpec => []PushedIsWhole
  BY AttestInvHolds, PTL DEF AttestInv

\* No figure that is shown as read, in the feed or in a report, is older than
\* the run it is shown for, and none of a report than the block it names; a
\* failed read is a gap, or the script's constant where it has one, and the
\* feed's total is the sum of just those of its parts that are shown.
THEOREM FiguresAreFresh == PublishSpec => []FiguresAreOfTheirRun
<1>1. FeedInv => FeedIsOfItsRun
  BY DEF FeedInv, Showable, ReadInRun, Priced, Totalled, FeedIsOfItsRun
<1>2. AttestInv => ReportIsOfItsRun
  BY DEF AttestInv, PagesInFiles, Standing, Honest, ReportIsOfItsRun
<1> QED
  BY <1>1, <1>2, FeedInvHolds, AttestInvHolds, PTL DEF FiguresAreOfTheirRun

\* The types of the three jobs' state, and that the steps they are at are steps
\* they have.
THEOREM PublishTypes == PublishSpec => []PublishTypeOK
<1>1. PublishInit => job \in Jobs
  BY DEF PublishInit
<1>2. job \in Jobs /\ [PublishNext]_publishing => (job \in Jobs)'
  BY DEF PublishNext, publishing, JobStep, Jobs
<1>3. WatchInv /\ FeedInv /\ AttestInv /\ job \in Jobs => PublishTypeOK
  <2> SUFFICES ASSUME WatchInv, FeedInv, AttestInv, job \in Jobs PROVE PublishTypeOK
    OBVIOUS
  <2>1. /\ {prev, cur} \subseteq [block : Null..Block, fields : Torn..Block]
        /\ watching \in {"idle", "fields", "scan", "notify"}
        /\ alerts \subseteq Flows /\ missed \subseteq Flows
        /\ reported \in [1..MaxBlock -> Nat]
    BY DEF WatchInv, WatchTypeOK
  <2>2. feedStep \in 0..Len(FeedSteps) /\ (feed.begun = Null) = (feedStep = 0)
    BY FeedTable DEF FeedInv
  <2>3. step \in 0..Len(AttestSteps)
    BY AttestTable DEF AttestInv, AttestTypeOK
  <2>4. report.day \in 0..today
    BY DEF AttestInv, AttestTypeOK, ReportShape, Days
  <2>5. /\ LiveTypeOK /\ report.begun <= Block /\ (report.day = 0) = (step = 0)
        /\ rows \in [Wallets -> [Days -> Null..Block]]
    BY DEF AttestInv, AttestTypeOK
  <2> QED
    BY <2>1, <2>2, <2>3, <2>4, <2>5 DEF PublishTypeOK
<1> QED
  BY <1>1, <1>2, <1>3, WatchInvHolds, FeedInvHolds, AttestInvHolds, PTL DEF PublishSpec
=============================================================================
