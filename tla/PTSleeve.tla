------------------------------ MODULE PTSleeve ------------------------------
(***************************************************************************)
(* The Pendle PT sleeve: PTSleeveStrategy on HyperEVM (vault-facing),      *)
(* PTSleeveExecutor on Arbitrum, the CCTP messages between them, and the   *)
(* keeper that drives both with scripts/pt_loop.js.                        *)
(*                                                                         *)
(* One action is one transaction on one of the chains; nothing is atomic   *)
(* across them.  A burn is a message with its amount: it is minted once,   *)
(* at any later time, in any order.  The corridor is fee-free, as the      *)
(* design document measured it.  PT counts in its value at maturity.       *)
(***************************************************************************)
EXTENDS Integers, Functions

CONSTANTS
    MaxUint,        \* bound: all money of the sleeve
    MaxFace,        \* bound: the cumulative faces sent and returned
    MaxLost,        \* bound: what slippage costs altogether
    MaxPending,     \* bound: pendingRecall6
    BPS,            \* 10000 in the code
    MaxHeadroom,    \* MAX_HEADROOM_BPS
    Headrooms,      \* values the owner gives headroomBps
    MinBridges,     \* values the owner gives minBridgeUsd6
    Slip,           \* what a buy may gain and a sale may lose
    Runbooks,       \* does the keeper keep to the order of the ops runbook?
    DirectReceive   \* may a keeper on it mint a return without completeInbound?

Uint == 0..MaxUint
NoQuote == -1

ASSUME SleeveAssumption ==
    /\ {MaxUint, MaxFace, MaxLost, MaxPending, MaxHeadroom, Slip} \subseteq Nat
    /\ BPS \in Nat \ {0} /\ MinBridges \subseteq Nat \ {0}
    /\ Headrooms \subseteq 0..MaxHeadroom
    /\ Runbooks \subseteq BOOLEAN /\ DirectReceive \in BOOLEAN

VARIABLES
    idle,           \* underlying.balanceOf(strategy)
    sentFace6, retFace6, inFlight6, arbValue6, pendingRecall6,
    headroomBps, minBridgeUsd6, isActive,
    outbound,       \* burns on their way to Arbitrum, per amount
    inbound,        \* burns on their way back, per amount
    arbUsdc, pt,    \* the executor's USDC and PT
    quote,          \* the keeper's last reading of the executor's value
    runbook,        \* is this keeper on the runbook?  (fixed)
    unacked,        \* history (runbook): arrived on Arbitrum, not acknowledged
    lost            \* history: lost to slippage

faces    == <<sentFace6, retFace6>>
owned    == <<headroomBps, minBridgeUsd6, isActive>>
executor == <<arbUsdc, pt>>
vars     == <<idle, faces, inFlight6, arbValue6, pendingRecall6, owned,
              outbound, inbound, executor, quote, runbook, unacked, lost>>

InTransit(messages) == SumFunction([a \in Uint |-> a * messages[a]])

\* What the sleeve really has, on both chains and between them.
Real == idle + InTransit(outbound) + arbUsdc + pt + InTransit(inbound)

\* totalAssets()
TotalAssets == idle + inFlight6 + arbValue6

OutstandingFace == IF sentFace6 > retFace6 THEN sentFace6 - retFace6 ELSE 0

Sent(messages, amount) == [messages EXCEPT ![amount] = @ + 1]
Minted(messages, amount) == [messages EXCEPT ![amount] = @ - 1]

-----------------------------------------------------------------------------
(* PTSleeveStrategy.                                                       *)

\* The vault allocates: a plain transfer.
Allocated(amount) ==
    /\ amount > 0 /\ Real + amount <= MaxUint
    /\ idle' = idle + amount
    /\ UNCHANGED <<faces, inFlight6, arbValue6, pendingRecall6, owned, outbound, inbound,
                   executor, quote, unacked, lost>>

\* Mutant of DeployToArb: the flight holds the last burn only.
DeployToArbReplaces(amount) ==
    /\ isActive
    /\ amount >= minBridgeUsd6 /\ amount <= idle
    /\ sentFace6 + amount >= retFace6 /\ sentFace6 + amount <= MaxFace
    /\ idle' = idle - amount
    /\ outbound' = Sent(outbound, amount)
    /\ sentFace6' = sentFace6 + amount
    /\ inFlight6' = amount
    /\ UNCHANGED <<retFace6, arbValue6, pendingRecall6, owned, inbound, executor, quote,
                   unacked, lost>>

\* The principal sentFace6 - retFace6 is taken unguarded: below zero it reverts.
DeployToArb(amount) ==
    /\ isActive
    /\ amount >= minBridgeUsd6 /\ amount <= idle
    /\ sentFace6 + amount >= retFace6
    /\ sentFace6 + amount <= MaxFace
    /\ idle' = idle - amount
    /\ outbound' = Sent(outbound, amount)
    /\ sentFace6' = sentFace6 + amount
    /\ inFlight6' = inFlight6 + amount
    /\ UNCHANGED <<retFace6, arbValue6, pendingRecall6, owned, inbound, executor, quote,
                   unacked, lost>>

\* Mutant of CompleteInbound: the attested value is left alone.
CompleteInboundKeepsValue(amount) ==
    /\ amount > 0 /\ inbound[amount] > 0 /\ retFace6 + amount <= MaxFace
    /\ inbound' = Minted(inbound, amount)
    /\ idle' = idle + amount
    /\ retFace6' = retFace6 + amount
    /\ UNCHANGED <<sentFace6, inFlight6, arbValue6, pendingRecall6, owned, outbound, executor,
                   quote, unacked, lost>>

\* Anyone completes a return with its attestation.
CompleteInbound(amount) ==
    /\ amount > 0 /\ inbound[amount] > 0 /\ retFace6 + amount <= MaxFace
    /\ inbound' = Minted(inbound, amount)
    /\ idle' = idle + amount
    /\ retFace6' = retFace6 + amount
    /\ arbValue6' = IF arbValue6 > amount THEN arbValue6 - amount ELSE 0
    /\ UNCHANGED <<sentFace6, inFlight6, pendingRecall6, owned, outbound, executor, quote,
                   unacked, lost>>

\* Mutant of AckArrival: the acknowledgement is not held to the flight.
AckArrivalUnchecked(amount) ==
    /\ amount > 0
    /\ runbook => amount <= unacked
    /\ inFlight6' = inFlight6 - amount
    /\ unacked' = IF runbook THEN unacked - amount ELSE 0
    /\ UNCHANGED <<idle, faces, arbValue6, pendingRecall6, owned, outbound, inbound, executor,
                   quote, lost>>

AckArrival(amount) ==
    /\ amount > 0 /\ amount <= inFlight6
    /\ runbook => amount <= unacked
    /\ inFlight6' = inFlight6 - amount
    /\ unacked' = IF runbook THEN unacked - amount ELSE 0
    /\ UNCHANGED <<idle, faces, arbValue6, pendingRecall6, owned, outbound, inbound, executor,
                   quote, lost>>

\* Mutant of ValueCap: the face in flight is not taken off.
ValueCapWithFlight == (OutstandingFace * (BPS + headroomBps)) \div BPS

\* The bound on an attested value: the arrived face and the headroom.
ValueCap ==
    LET arrived == IF OutstandingFace > inFlight6 THEN OutstandingFace - inFlight6 ELSE 0
    IN  (arrived * (BPS + headroomBps)) \div BPS

\* The keeper attests what it read; a keeper off the runbook attests anything.
SyncArbValue(value) ==
    /\ value <= ValueCap
    /\ runbook => value = quote
    /\ arbValue6' = value
    /\ quote' = NoQuote
    /\ UNCHANGED <<idle, faces, inFlight6, pendingRecall6, owned, outbound, inbound, executor,
                   unacked, lost>>

\* Idle goes back to the vault: pushed by the keeper (an amount above the idle
\* balance is clipped to it), or recalled.
PushIdle(amount) ==
    /\ amount > 0 /\ amount <= idle
    /\ idle' = idle - amount
    /\ pendingRecall6' = IF pendingRecall6 > amount THEN pendingRecall6 - amount ELSE 0
    /\ UNCHANGED <<faces, inFlight6, arbValue6, owned, outbound, inbound, executor, quote,
                   unacked, lost>>

Recall(amount) ==
    LET paid == IF amount > idle THEN idle ELSE amount
    IN  /\ amount > 0
        /\ pendingRecall6 + amount - paid <= MaxPending
        /\ idle' = idle - paid
        /\ pendingRecall6' = pendingRecall6 + amount - paid
        /\ UNCHANGED <<faces, inFlight6, arbValue6, owned, outbound, inbound, executor, quote,
                       unacked, lost>>

SetParams(headroom, minimum) ==
    /\ headroomBps' = headroom
    /\ minBridgeUsd6' = minimum
    /\ UNCHANGED <<idle, faces, inFlight6, arbValue6, pendingRecall6, isActive, outbound,
                   inbound, executor, quote, unacked, lost>>

SetActive(active) ==
    /\ isActive' = active
    /\ UNCHANGED <<idle, faces, inFlight6, arbValue6, pendingRecall6, headroomBps, minBridgeUsd6,
                   outbound, inbound, executor, quote, unacked, lost>>

-----------------------------------------------------------------------------
(* PTSleeveExecutor.  On the runbook an arrival is acknowledged first.     *)

Settled == runbook => unacked = 0

\* PT comes at a discount: up to Slip more than was paid.
BuyPT(amount, gain) ==
    /\ Settled
    /\ amount > 0 /\ amount <= arbUsdc
    /\ Real + gain <= MaxUint
    /\ arbUsdc' = arbUsdc - amount
    /\ pt' = pt + amount + gain
    /\ UNCHANGED <<idle, faces, inFlight6, arbValue6, pendingRecall6, owned, outbound,
                   inbound, quote, unacked, lost>>

SellPT(amount, loss) ==
    /\ Settled
    /\ amount > 0 /\ amount <= pt /\ loss <= amount /\ lost + loss <= MaxLost
    /\ pt' = pt - amount
    /\ arbUsdc' = arbUsdc + amount - loss
    /\ lost' = lost + loss
    /\ UNCHANGED <<idle, faces, inFlight6, arbValue6, pendingRecall6, owned, outbound,
                   inbound, quote, unacked>>

BridgeBack(amount) ==
    /\ Settled
    /\ amount > 0 /\ amount <= arbUsdc
    /\ runbook => quote = NoQuote
    /\ arbUsdc' = arbUsdc - amount
    /\ inbound' = Sent(inbound, amount)
    /\ UNCHANGED <<idle, faces, inFlight6, arbValue6, pendingRecall6, owned, outbound, pt,
                   quote, unacked, lost>>

-----------------------------------------------------------------------------
(* The bridge, and the keeper's reading of the other chain.                *)

Arrive(amount) ==
    /\ amount > 0 /\ outbound[amount] > 0
    /\ outbound' = Minted(outbound, amount)
    /\ arbUsdc' = arbUsdc + amount
    /\ unacked' = IF runbook THEN unacked + amount ELSE 0
    /\ UNCHANGED <<idle, faces, inFlight6, arbValue6, pendingRecall6, owned, inbound, pt,
                   quote, lost>>

\* receiveMessage called on the transmitter itself (STAGE=receive): the mint
\* lands on the strategy, which is not told.
ReceiveDirectly(amount) ==
    /\ runbook => DirectReceive
    /\ amount > 0 /\ inbound[amount] > 0
    /\ inbound' = Minted(inbound, amount)
    /\ idle' = idle + amount
    /\ UNCHANGED <<faces, inFlight6, arbValue6, pendingRecall6, owned, outbound, executor,
                   quote, unacked, lost>>

\* STAGE=sync is given PT balance times market rate plus idle: between the
\* price paid and par; it refuses zero.
ReadArb(value) ==
    /\ runbook /\ unacked = 0
    /\ value > 0 /\ value <= arbUsdc + pt /\ value >= arbUsdc + pt - Slip
    /\ quote' = value
    /\ UNCHANGED <<idle, faces, inFlight6, arbValue6, pendingRecall6, owned, outbound, inbound,
                   executor, unacked, lost>>

-----------------------------------------------------------------------------
Init ==
    /\ idle = 0 /\ sentFace6 = 0 /\ retFace6 = 0 /\ inFlight6 = 0 /\ arbValue6 = 0
    /\ pendingRecall6 = 0 /\ headroomBps \in Headrooms /\ minBridgeUsd6 \in MinBridges
    /\ isActive = TRUE
    /\ outbound = [a \in Uint |-> 0] /\ inbound = [a \in Uint |-> 0]
    /\ arbUsdc = 0 /\ pt = 0
    /\ runbook \in Runbooks
    /\ quote = NoQuote /\ unacked = 0 /\ lost = 0

StrategyStep ==
    \/ \E amount \in Uint :
          \/ Allocated(amount) \/ Recall(amount) \/ PushIdle(amount)
          \/ DeployToArb(amount) \/ CompleteInbound(amount)
          \/ AckArrival(amount) \/ SyncArbValue(amount)
    \/ \E headroom \in Headrooms, minimum \in MinBridges : SetParams(headroom, minimum)
    \/ \E active \in BOOLEAN : SetActive(active)

ExecutorStep ==
    \E amount \in Uint, slip \in 0..Slip :
        BuyPT(amount, slip) \/ SellPT(amount, slip) \/ BridgeBack(amount)

BridgeStep ==
    \E amount \in Uint : Arrive(amount) \/ ReceiveDirectly(amount) \/ ReadArb(amount)

Next == (StrategyStep \/ ExecutorStep \/ BridgeStep) /\ UNCHANGED runbook

Spec == Init /\ [][Next]_vars

-----------------------------------------------------------------------------
TypeOK ==
    /\ {idle, inFlight6, arbValue6, arbUsdc, pt, unacked, lost} \subseteq Nat
    /\ {sentFace6, retFace6} \subseteq 0..MaxFace /\ pendingRecall6 \in 0..MaxPending
    /\ headroomBps \in Headrooms /\ minBridgeUsd6 \in MinBridges /\ isActive \in BOOLEAN
    /\ {outbound, inbound} \subseteq [Uint -> Nat]
    /\ quote \in Uint \cup {NoQuote} /\ runbook \in Runbooks

\* Whatever the keeper attests and in whatever order it acknowledges, the
\* remote part of the books stays within what was sent and the headroom.
BookWithinSent ==
    (inFlight6 + arbValue6) * BPS <= sentFace6 * (BPS + MaxHeadroom)

\* Money in transit or acknowledged is never out of sight: the flight counter
\* covers every burn on its way and every arrival not acknowledged.
FlightCovered == runbook => inFlight6 = InTransit(outbound) + unacked

\* On the runbook the strategy never books a dollar twice: its total stays
\* within what the sleeve has on both chains and between them, and what
\* slippage has cost.
CountsOnce == runbook => TotalAssets <= Real + lost
=============================================================================
