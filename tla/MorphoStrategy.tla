--------------------------- MODULE MorphoStrategy ---------------------------
(***************************************************************************)
(* The lending strategy (contracts/MorphoStrategy.sol): the vault's money  *)
(* is supplied to one Morpho market, the growth of the position is swept   *)
(* to the vault as profit, and recalls unwind the position.                *)
(*                                                                         *)
(* One action is one transaction.  What separates profit from principal is *)
(* one number, the position's value at the last deploy, recall or sweep.   *)
(* The market is modelled by what it does to the position's value:         *)
(* interest is booked when anybody touches the market (the strategy too),  *)
(* both conversions round against the supplier by less than a unit, and a  *)
(* withdrawal is paid in full or, where the market is illiquid, reverts.   *)
(***************************************************************************)
EXTENDS Integers

CONSTANTS
    BPS,            \* the basis-point denominator, 10000 in the code
    Buffers,        \* values the owner gives bufferBps, at most half of BPS
    MaxMoney,       \* bound: underlying in the strategy and its position
    MaxGrown        \* bound: lifetime interest

ASSUME MorphoAssumption ==
    /\ BPS \in Nat \ {0}
    /\ Buffers \subseteq 0..BPS
    /\ MaxMoney \in Nat /\ MaxGrown \in Nat

VARIABLES
    held,                   \* underlying.balanceOf(this)
    position,               \* positionValue(), from the market's booked state
    lastHarvestPosition,    \* the baseline
    isActive, bufferBps,
    grown,                  \* history: interest the position has been credited
    swept                   \* history: profit paid to the vault

money    == <<held, position>>
settings == <<isActive, bufferBps>>
history  == <<grown, swept>>
vars     == <<money, lastHarvestPosition, settings, history>>

Lesser(a, b) == IF a < b THEN a ELSE b

\* The idle part of an amount that stays back.
Buffer(amount) == (amount * bufferBps) \div BPS

\* What the next harvest takes for profit.
Claimable == IF position > lastHarvestPosition THEN position - lastHarvestPosition ELSE 0

\* Interest on the position the market has not booked yet.
Pending == {interest \in 0..MaxGrown : /\ grown + interest <= MaxGrown
                                       /\ held + position + interest <= MaxMoney
                                       /\ position > 0 \/ interest = 0}

\* _unwind(need) in try/catch: what arrives, what the position is worth then,
\* and the interest booked on the way.  The shares are rounded up, the payout
\* down.
Unwound(need) ==
    {[got |-> 0, left |-> position, interest |-> 0]} \cup
    {[got |-> need - paidLess, left |-> position + interest - need - worthLess,
      interest |-> interest] :
        paidLess \in 0..1,
        worthLess \in {d \in 0..1 : d <= position - need},
        interest \in Pending}

\* No unwinding is needed.
Untouched == {[got |-> 0, left |-> position, interest |-> 0]}

-----------------------------------------------------------------------------
\* The vault's allocate is a plain transfer.
Allocate(amount) ==
    /\ amount > 0 /\ held + position + amount <= MaxMoney
    /\ held' = held + amount
    /\ UNCHANGED <<position, lastHarvestPosition, settings, history>>

\* Mutant of Deploy: the baseline stays.
DeployKeepsBaseline(interest, less) ==
    /\ isActive
    /\ held > Buffer(held)
    /\ held' = Buffer(held)
    /\ position' = position + interest + (held - Buffer(held)) - less
    /\ grown' = grown + interest
    /\ UNCHANGED <<lastHarvestPosition, settings, swept>>

\* deploy(): supply what is idle above the buffer; the position as it then is
\* becomes the baseline.
Deploy(interest, less) ==
    /\ isActive
    /\ held > Buffer(held)
    /\ held' = Buffer(held)
    /\ position' = position + interest + (held - Buffer(held)) - less
    /\ lastHarvestPosition' = position'
    /\ grown' = grown + interest
    /\ UNCHANGED <<settings, swept>>

\* Mutant of Recall: it sends what was asked for.
RecallUnclipped(amount) ==
    LET need == Lesser(amount - held, position)
    IN  \E out \in IF need > 0 THEN Unwound(need) ELSE Untouched :
            /\ held' = held + out.got - amount
            /\ position' = out.left
            /\ lastHarvestPosition' = out.left
            /\ grown' = grown + out.interest
            /\ UNCHANGED <<settings, swept>>

\* recall(amount), from the vault: unwind what idle money lacks, capped by
\* the position, and send what there is, at most amount.
Recall(amount) ==
    LET need == Lesser(amount - held, position)
    IN  \E out \in IF need > 0 THEN Unwound(need) ELSE Untouched :
            LET sent == Lesser(amount, held + out.got)
            IN  /\ held' = held + out.got - sent
                /\ position' = out.left
                /\ lastHarvestPosition' = IF sent > 0 THEN out.left ELSE lastHarvestPosition
                /\ grown' = grown + out.interest
                /\ UNCHANGED <<settings, swept>>

\* The position has not grown: its value becomes the baseline.
HarvestNothing ==
    /\ isActive
    /\ Claimable = 0
    /\ lastHarvestPosition' = position
    /\ UNCHANGED <<money, settings, history>>

\* Mutant of HarvestGrowth: a sweep of nothing moves the baseline as well.
HarvestAlwaysRebases ==
    /\ isActive /\ Claimable > 0
    /\ \E out \in IF Claimable > held THEN Unwound(Claimable - held) ELSE Untouched :
        LET balance   == held + out.got
            sweepable == balance - Lesser(balance, Buffer(balance + out.left))
            sweep     == Lesser(Claimable, sweepable)
        IN  /\ held' = balance - sweep
            /\ position' = out.left
            /\ lastHarvestPosition' = out.left
            /\ swept' = swept + sweep
            /\ grown' = grown + out.interest
            /\ UNCHANGED settings

\* harvest(), from the vault: the growth since the baseline, as far as idle
\* money and an unwinding of the rest can pay it above the buffer.  A sweep
\* of nothing leaves the baseline.
HarvestGrowth ==
    /\ isActive /\ Claimable > 0
    /\ \E out \in IF Claimable > held THEN Unwound(Claimable - held) ELSE Untouched :
        LET balance   == held + out.got
            sweepable == balance - Lesser(balance, Buffer(balance + out.left))
            sweep     == Lesser(Claimable, sweepable)
        IN  /\ held' = balance - sweep
            /\ position' = out.left
            /\ lastHarvestPosition' = IF sweep > 0 THEN out.left ELSE lastHarvestPosition
            /\ swept' = swept + sweep
            /\ grown' = grown + out.interest
            /\ UNCHANGED settings

SetActive(active) ==
    /\ isActive' = active
    /\ UNCHANGED <<money, lastHarvestPosition, bufferBps, history>>

SetBufferBps(buffer) ==
    /\ bufferBps' = buffer
    /\ UNCHANGED <<money, lastHarvestPosition, isActive, history>>

-----------------------------------------------------------------------------
(* The market, between the strategy's transactions.                        *)

Interest(amount) ==
    /\ amount > 0
    /\ position' = position + amount
    /\ grown' = grown + amount
    /\ UNCHANGED <<held, lastHarvestPosition, settings, swept>>

\* Bad debt is taken from the suppliers.
BadDebt(amount) ==
    /\ amount > 0 /\ amount <= position
    /\ position' = position - amount
    /\ UNCHANGED <<held, lastHarvestPosition, settings, history>>

-----------------------------------------------------------------------------
Init ==
    /\ held = 0 /\ position = 0 /\ lastHarvestPosition = 0
    /\ isActive = TRUE /\ bufferBps = 0
    /\ grown = 0 /\ swept = 0

Next ==
    \/ \E amount \in 1..MaxMoney : Allocate(amount) \/ Recall(amount) \/ BadDebt(amount)
    \/ \E interest \in Pending : Interest(interest) \/ \E less \in 0..1 : Deploy(interest, less)
    \/ HarvestNothing \/ HarvestGrowth
    \/ \E active \in BOOLEAN : SetActive(active)
    \/ \E buffer \in Buffers : SetBufferBps(buffer)

Spec == Init /\ [][Next]_vars

-----------------------------------------------------------------------------
\* No clipping, capping or rounding takes a balance, the position or the
\* baseline below zero.
TypeOK ==
    /\ {held, position, lastHarvestPosition, grown, swept} \subseteq Nat
    /\ isActive \in BOOLEAN /\ bufferBps \in Buffers \cup {0}

\* "Principal can never be booked as profit" (the header's accounting model):
\* the vault has been paid no more profit than the position has earned,
\* whatever allocations, supplies, recalls, partial sweeps, failed
\* unwindings, bad debt and changes of the buffer came in between.
ProfitIsGrowth == swept <= grown

\* "Yield stays claimable next sweep": with no buffer, growth the vault has
\* not been paid is given up only by a sweep of another part of it, a recall,
\* a supply, bad debt or rounding; a market that pays nothing defers it.
UnsweptStays ==
    [][\/ Claimable' >= Claimable - 1
       \/ swept' > swept
       \/ bufferBps > 0
       \/ \E amount \in 1..MaxMoney : Recall(amount) \/ BadDebt(amount)
       \/ \E interest \in Pending, less \in 0..1 : Deploy(interest, less)]_vars
=============================================================================
