----------------------------- MODULE GasDripper -----------------------------
(***************************************************************************)
(* scripts/gas_dripper.js, which the cron starts every ten minutes: it     *)
(* reads the pending rows of a D1 queue, sends the starter gas of each     *)
(* from the tank and marks the row.  There are two queues ("legs"), worked *)
(* one after the other in one run: ETH on Arbitrum, HYPE on HyperEVM.      *)
(*                                                                         *)
(* Money counts in drips (the amount and its gas).  Nothing is atomic      *)
(* across the chain and D1, and the script keeps nothing on disk.  Runs do *)
(* not overlap here; a dry run writes and sends nothing and is left out.   *)
(***************************************************************************)
EXTENDS Integers, FiniteSets

CONSTANTS
    Rows,        \* the rows users may come to ask for: <<leg, id>>
    Unpayable,   \* rows whose recipient refuses every transfer
    MaxPerRun,   \* MAX_PER_RUN, per leg
    Margin,      \* what the tank must hold beyond the next drip
    MaxTank,     \* bound: what an operator fills a tank up to
    MaxFaults    \* bound: how often something fails

Legs == {"arb", "hype"}

ASSUME DripperAssumption ==
    /\ IsFiniteSet(Rows) /\ Rows \subseteq Legs \X Nat
    /\ Unpayable \subseteq Rows
    /\ {MaxPerRun, Margin, MaxTank, MaxFaults} \subseteq Nat

VARIABLES
    status,      \* the status column; "none": not asked for yet
    tank,        \* the tank's balance on each chain
    pc,          \* where the run is
    leg,         \* the leg it is on
    todo,        \* the rows it read as pending and has not got to yet
    bal,         \* the tank as it read it
    sent,        \* history: transfers of a row that went out
    unrecorded,  \* history: those of them whose UPDATE never landed
    faults       \* what has failed so far

run  == <<pc, leg, todo, bal>>
vars == <<status, tank, run, sent, unrecorded, faults>>

Recorded == {"done", "sent_unconfirmed"}

\* SELECT ... WHERE status='pending' ORDER BY id LIMIT MAX_PER_RUN
Pending(l) == {r \in Rows : r[1] = l /\ status[r] = "pending"}

\* Mutant of Selected: the status is not asked for.
AllSelected(l) == {r \in Rows : r[1] = l /\ status[r] # "none"}

Selected(l) ==
    {r \in Pending(l) :
        Cardinality({q \in Pending(l) : q[2] < r[2]}) < MaxPerRun}

\* The row the loop is at.
Current(r) == r \in todo /\ \A q \in todo : r[2] <= q[2]

Fault == faults < MaxFaults /\ faults' = faults + 1

-----------------------------------------------------------------------------
(* What happens around the script.                                         *)

\* A user asks for gas; the rows are numbered as they come.
Request(r) ==
    /\ status[r] = "none"
    /\ \A q \in Rows : q[1] = r[1] /\ q[2] < r[2] => status[q] # "none"
    /\ status' = [status EXCEPT ![r] = "pending"]
    /\ UNCHANGED <<tank, run, sent, unrecorded, faults>>

\* fund_tank.js and tank_topup.cjs; the Arbitrum tank is filled by hand.
FundTank(l) ==
    /\ tank[l] < MaxTank
    /\ tank' = [tank EXCEPT ![l] = @ + 1]
    /\ UNCHANGED <<status, run, sent, unrecorded, faults>>

-----------------------------------------------------------------------------
(* The script.                                                             *)

End == pc' = "idle" /\ todo' = {} /\ UNCHANGED <<leg, bal>>

LegOver ==
    IF leg = "arb" THEN pc' = "leg" /\ leg' = "hype" /\ todo' = {} /\ bal' = bal
                   ELSE End

StartRun ==
    /\ pc = "idle"
    /\ pc' = "leg" /\ leg' = "arb"
    /\ UNCHANGED <<status, tank, todo, bal, sent, unrecorded, faults>>

\* The queue and the balance are read once per leg.  A HYPE queue that does
\* not exist yet is an empty one.
ReadLeg ==
    /\ pc = "leg"
    /\ IF Selected(leg) = {}
       THEN LegOver
       ELSE pc' = "send" /\ todo' = Selected(leg) /\ bal' = tank[leg] /\ leg' = leg
    /\ UNCHANGED <<status, tank, sent, unrecorded, faults>>

\* No RPC answers, or the queue cannot be read in two attempts: the leg is
\* skipped.
SkipLeg ==
    /\ pc = "leg" /\ Fault
    /\ LegOver
    /\ UNCHANGED <<status, tank, sent, unrecorded>>

\* The balance and the fee data are read outside any try: the error leaves
\* main and the other leg is not run.
LegThrows ==
    /\ pc = "leg" /\ Fault
    /\ End
    /\ UNCHANGED <<status, tank, sent, unrecorded>>

\* Mutant of NextRow: whatever the row came to, the loop is left.
LeaveLoop(r) == r \in todo /\ LegOver

\* The next row, or the end of the leg.
NextRow(r) ==
    IF todo = {r} THEN LegOver
    ELSE pc' = "send" /\ todo' = todo \ {r} /\ UNCHANGED <<leg, bal>>

\* "Tank too low for the next drip": by the balance read at the start.
TankLow ==
    /\ pc = "send" /\ bal < 1 + Margin
    /\ LegOver
    /\ UNCHANGED <<status, tank, sent, unrecorded, faults>>

Funded == pc = "send" /\ bal >= 1 + Margin

Broadcast(r) ==
    /\ Funded /\ Current(r)
    /\ r \notin Unpayable /\ tank[leg] > 0
    /\ tank' = [tank EXCEPT ![leg] = @ - 1]
    /\ sent' = [sent EXCEPT ![r] = @ + 1]

Send(r) ==
    /\ Broadcast(r)
    /\ pc' = "wait"
    /\ UNCHANGED <<status, leg, todo, bal, unrecorded, faults>>

\* sendTransaction throws before anything goes out: the recipient refuses,
\* or the tank is empty by now.
SendThrows(r) ==
    /\ Funded /\ Current(r)
    /\ r \in Unpayable \/ tank[leg] = 0
    /\ NextRow(r)
    /\ UNCHANGED <<status, tank, sent, unrecorded, faults>>

\* The same by an RPC that does not take the transaction ...
SendFails(r) ==
    /\ Funded /\ Current(r) /\ Fault
    /\ NextRow(r)
    /\ UNCHANGED <<status, tank, sent, unrecorded>>

\* ... or that takes it and does not answer.
AnswerLost(r) ==
    /\ Broadcast(r) /\ Fault
    /\ unrecorded' = [unrecorded EXCEPT ![r] = @ + 1]
    /\ NextRow(r)
    /\ UNCHANGED status

\* Mutant of Marked: a drip without its receipt is tried again.
MarkedIfDone(r, ok) == [status EXCEPT ![r] = IF ok THEN "done" ELSE @]

\* The UPDATE: by id, whatever the row holds by now.
Marked(r, ok) == [status EXCEPT ![r] = IF ok THEN "done" ELSE "sent_unconfirmed"]

\* The receipt is awaited; without a good one the row is marked all the same.
Settle(r, ok) ==
    /\ pc = "wait" /\ Current(r)
    /\ IF ok THEN UNCHANGED faults ELSE Fault
    /\ status' = Marked(r, ok)
    /\ NextRow(r)
    /\ UNCHANGED <<tank, sent, unrecorded>>

\* Both attempts of the UPDATE fail: d1 throws into the row's catch.
UpdateFails(r) ==
    /\ pc = "wait" /\ Current(r) /\ Fault
    /\ unrecorded' = [unrecorded EXCEPT ![r] = @ + 1]
    /\ NextRow(r)
    /\ UNCHANGED <<status, tank, sent>>

\* The process dies.
Crash ==
    /\ pc # "idle" /\ Fault
    /\ unrecorded' = [r \in Rows |->
          unrecorded[r] + IF pc = "wait" /\ Current(r) THEN 1 ELSE 0]
    /\ End
    /\ UNCHANGED <<status, tank, sent>>

-----------------------------------------------------------------------------
Init ==
    /\ status = [r \in Rows |-> "none"]
    /\ tank = [l \in Legs |-> 0]
    /\ pc = "idle" /\ leg = "arb" /\ todo = {} /\ bal = 0
    /\ sent = [r \in Rows |-> 0] /\ unrecorded = [r \in Rows |-> 0]
    /\ faults = 0

RowStep(r) == Send(r) \/ SendThrows(r) \/ Settle(r, TRUE)

\* A step of a run in which nothing fails.
Work == StartRun \/ ReadLeg \/ TankLow \/ \E r \in Rows : RowStep(r)

Failure ==
    \/ SkipLeg \/ LegThrows \/ Crash
    \/ \E r \in Rows : SendFails(r) \/ AnswerLost(r) \/ Settle(r, FALSE) \/ UpdateFails(r)

Next ==
    \/ \E r \in Rows : Request(r)
    \/ \E l \in Legs : FundTank(l)
    \/ Work
    \/ Failure

\* The cron keeps starting runs and a run keeps going; operators fill the
\* tanks.  Nobody has to ask for gas, and nothing has to fail.
Fairness == WF_vars(Work) /\ \A l \in Legs : WF_vars(FundTank(l))

Spec == Init /\ [][Next]_vars /\ Fairness

-----------------------------------------------------------------------------
(* Properties.                                                             *)

\* Types, and what a run has in hand: rows of its own leg that are pending,
\* some of them whenever it is in the loop.
TypeOK ==
    /\ status \in [Rows -> Recorded \cup {"none", "pending"}]
    /\ tank \in [Legs -> Nat]
    /\ pc \in {"idle", "leg", "send", "wait"} /\ leg \in Legs /\ bal \in Nat
    /\ sent \in [Rows -> Nat] /\ unrecorded \in [Rows -> Nat]
    /\ faults \in 0..MaxFaults
    /\ todo \subseteq Pending(leg)
    /\ (pc \in {"send", "wait"}) = (todo # {})

\* "Never leave a SENT drip as 'pending'": a recipient is paid once, and once
\* more for every UPDATE that never landed (gas_dripper.js:119-134) -- a lost
\* receipt is not a reason to pay again.
PaidOnce ==
    \A r \in Rows :
        sent[r] = unrecorded[r]
                  + IF status[r] \in Recorded \/ (pc = "wait" /\ Current(r)) THEN 1 ELSE 0

\* A recipient who refuses, an empty tank or a run that dies delays the others
\* and does not starve them: every row that can be paid is recorded at last
\* (gas_dripper.js:105-137).  It takes fewer refusing recipients than the cap.
EveryoneIsServed ==
    \A r \in Rows \ Unpayable : status[r] = "pending" ~> status[r] \in Recorded
=============================================================================
