------------------------------ MODULE DNKeeper ------------------------------
(***************************************************************************)
(* scripts/dn_keeper.js over the delta-neutral sleeve: the script reads,   *)
(* decides and sends its transactions one by one, waiting eight seconds    *)
(* after each, while HyperCore, the market, the vault and the owner's      *)
(* switches go on.  HyperCore drops what it likes of an action (DNCore     *)
(* with Careful FALSE) and may be later than the eight seconds.            *)
(*                                                                         *)
(* The coins are configured, and money is bridged by hand, between runs    *)
(* only: dn_rotate_prep.js leaves both to the operators, while flat.       *)
(***************************************************************************)
EXTENDS DNCore

CONSTANTS
    MarginBps,      \* marginUtilBps: perp margin per notional
    Targets,        \* what the vault's assets and the sleeve weight come to
    Dollar,         \* one dollar: an order step, and the least worth moving
    Stale,          \* figures an earlier syncCore may have left in the cache
    MaxFailures     \* bound: reads and receipts that fail

ASSUME KeeperAssumption ==
    /\ MarginBps \in Nat /\ Targets \cup Stale \subseteq Nat
    /\ Dollar \in Nat /\ Dollar < MinOrder
    /\ MaxFailures \in Nat

VARIABLES
    pc,             \* the next thing the run does; "off" between runs
    work,           \* what it has read and decided
    fate,           \* history: what became of the last opening order
    late,           \* history: has the script acted since while one was queued?
    failures        \* history

script == <<pc, work, fate, late, failures>>
system == <<vars, script>>

NoWork == [principal |-> 0, harvestable |-> 0, equity |-> 0, lots |-> 0, target |-> 0,
           px |-> 0, amount |-> 0]

-----------------------------------------------------------------------------
(* Steps of a run.                                                         *)

Goto(next) == pc' = next /\ UNCHANGED <<work, fate, failures>>

\* A run ends, and with it what it has to say of its opening order.
Over(ending) == pc' = "off" /\ work' = NoWork /\ fate' = ending
Exit         == Over(fate) /\ UNCHANGED failures
Cut(ending)  == Over(IF fate = "sent" THEN ending ELSE fate)

Failed == failures < MaxFailures /\ failures' = failures + 1

Lots  == short[perpAsset]
Hedge == IF spotAsset = NoCoin THEN 0 ELSE hedge[spotAsset]
Need  == (work.target * MarginBps) \div BPS
Bridgeable == IF Need < idle THEN Need ELSE idle

\* Mutants: any hedge covers the short; any fill of the close makes it flat.
AnyHedgeCovers(held) == IF held > 0 THEN 0 ELSE Lots
AnyFillIsFlat == Lots < work.amount

Gap(held) == IF held >= Lots THEN 0 ELSE Lots - held
Flattened == Lots = 0

\* spotHedgeSz() and spotPx() are zero when the precompile fails.
Misreads == {"none", "hedge", "price"}
Reading(misread) == IF misread = "none" THEN UNCHANGED failures ELSE Failed
HeldRead(misread) == IF misread = "hedge" THEN 0 ELSE Hedge
PriceRead(misread) == IF misread = "price" \/ spotAsset = NoCoin THEN 0 ELSE price[spotAsset]

\* coreState(), harvestableProfit()
Read ==
    /\ pc = "off" /\ exists
    /\ pc' = "sync"
    /\ work' = [NoWork EXCEPT !.principal = corePrincipal6, !.harvestable = Harvestable]
    /\ UNCHANGED <<vars, fate, late, failures>>

\* syncCore(): when it fails the run goes on with the equity of an earlier one.
Sync ==
    /\ pc = "sync" /\ pc' = "position"
    /\ \/ work' = [work EXCEPT !.equity = perp] /\ UNCHANGED failures
       \/ Failed /\ \E equity \in Stale : work' = [work EXCEPT !.equity = equity]
    /\ UNCHANGED <<vars, fate, late>>

\* position(): likewise, with the position of an earlier sync.
Locate ==
    /\ pc = "position" /\ pc' = "decide"
    /\ \/ work' = [work EXCEPT !.lots = Lots] /\ UNCHANGED failures
       \/ Failed /\ \E lots \in Stale : work' = [work EXCEPT !.lots = lots]
    /\ UNCHANGED <<vars, fate, late>>

\* Mutant of OverSized: every drift is reduced.
AnyDrift(notional, target) == TRUE

OverSized(notional, target) == notional > target
Drifts(notional, target) == 100 * (notional - target) \notin -5 * target .. 5 * target

\* The funding rate, the sleeve's target and the price; then the action.
\* An opening is blocked while the spot configuration is not the roster's.
Decide(apr, target) ==
    LET profit == work.equity - work.principal
        notional == work.lots * price[perpAsset]
        sized == target >= MinOrder
        Act(next, amount) ==
            /\ pc' = next
            /\ work' = [NoWork EXCEPT !.equity = work.equity, !.target = target,
                                      !.px = price[perpAsset], !.amount = amount]
            /\ UNCHANGED <<fate, failures>>
    IN  /\ pc = "decide" /\ UNCHANGED <<vars, late>>
        /\ CASE profit > 0 /\ work.harvestable = 0 -> Act("skim", profit)
             [] OTHER ->
                CASE sized /\ work.lots = 0 /\ apr = "high" ->
                        IF spotAsset = perpAsset THEN Act("open", 0) ELSE Exit
                  [] work.lots # 0 /\ apr = "low" -> Act("unwind", work.lots)
                  [] work.lots # 0 /\ apr # "low" /\ sized /\ Drifts(notional, target) ->
                        IF OverSized(notional, target)
                        THEN Act("reduce", (notional - target) \div price[perpAsset])
                        ELSE Act("open", 0)
                  [] OTHER -> Exit

\* BRIDGE_PROFIT: perp to spot, spot to EVM, and the vault's harvest.
Skim ==
    \/ pc = "skim" /\ MoveUsdc("toSpot", work.amount) /\ Goto("bridge")
    \/ pc = "bridge" /\ BridgeBackToEvm(work.amount) /\ Goto("harvest")
    \/ pc = "harvest" /\ Harvest /\ Exit

\* The margin: what is missing is bridged from idle and moved to the perp side.
TopUp ==
    \/ pc = "open" /\ work.equity >= Need /\ Goto("order") /\ UNCHANGED vars
    \/ pc = "open" /\ work.equity < Need /\ Bridgeable = 0 /\ Exit /\ UNCHANGED vars
    \/ /\ pc = "open" /\ work.equity < Need
       /\ BridgeUsdcToCore(Bridgeable)
       /\ pc' = "move" /\ work' = [work EXCEPT !.amount = Bridgeable]
       /\ UNCHANGED <<fate, failures>>
    \/ pc = "move" /\ MoveUsdc("toPerp", work.amount) /\ Goto("margin")
    \/ pc = "margin" /\ perp >= Need /\ Goto("order") /\ UNCHANGED vars
    \/ pc = "margin" /\ perp < Need /\ Exit /\ UNCHANGED vars

\* The short in full size, also when there is one already.
Open ==
    /\ pc = "order"
    /\ OpenShort(work.px, work.target \div work.px)
    /\ pc' = "opened" /\ fate' = "sent" /\ UNCHANGED <<work, failures>>

\* Is it there, and hedged?  A gap worth an order is bought, unless the
\* contract refuses; one of a dollar or less passes for granularity, also
\* when the price read as zero made it so.
CheckHedge(misread) ==
    LET gap == Gap(HeldRead(misread))
        px == PriceRead(misread)
        stands == Lots > 0 /\ spotAsset # NoCoin
        granted == CanSend /\ CanOrder(spotAsset, px, gap)
    IN  /\ pc = "opened" /\ Reading(misread)
        /\ \/ ~stands /\ Over("told") /\ UNCHANGED vars
           \/ /\ stands /\ gap * px <= Dollar
              /\ Over(IF gap > 0 /\ misread = "price" THEN "failed" ELSE "hedged")
              /\ UNCHANGED vars
           \/ stands /\ gap * px \in Dollar + 1 .. MinOrder - 1 /\ Over("told") /\ UNCHANGED vars
           \/ stands /\ gap * px >= MinOrder /\ ~granted /\ Over("refused") /\ UNCHANGED vars
           \/ /\ stands /\ gap * px >= MinOrder
              /\ OpenSpotBuy(px, gap)
              /\ pc' = "bought" /\ work' = [work EXCEPT !.amount = Lots] /\ UNCHANGED fate

CheckPurchase(misread) ==
    /\ pc = "bought" /\ Reading(misread)
    /\ Over(IF HeldRead(misread) >= work.amount THEN "hedged" ELSE "told")
    /\ UNCHANGED vars

Reduce ==
    \/ pc = "reduce" /\ CloseShort(work.px, work.amount) /\ Goto("reduced")
    \/ pc = "reduced" /\ Exit /\ UNCHANGED vars

\* Close the short; only when it is flat free its margin, as far as the read
\* and the contract let it.
Unwind ==
    \/ pc = "unwind" /\ CloseShort(work.px, work.amount) /\ Goto("closed")
    \/ pc = "closed" /\ ~Flattened /\ Exit /\ UNCHANGED vars
    \/ /\ pc = "closed" /\ Flattened
       /\ pc' = "sell" /\ UNCHANGED <<work, fate>>
       /\ \/ perp >= Dollar /\ MoveUsdc("toSpot", perp) /\ UNCHANGED failures
          \/ (perp < Dollar \/ ~CanMove(perp) \/ ~CanSend) /\ UNCHANGED <<vars, failures>>
          \/ Failed /\ UNCHANGED vars
    \/ pc = "sold" /\ Exit /\ UNCHANGED vars

\* Return the hedge: sold when worth an order, sent out when not.
ReturnHedge(misread) ==
    LET held == HeldRead(misread)
        px == PriceRead(misread)
        sale == held * px >= MinOrder
        granted == CanSend /\ IF sale THEN CanOrder(spotAsset, px, held) ELSE CanTransferOut(held)
    IN  /\ pc = "sell" /\ Reading(misread)
        /\ \/ (held = 0 \/ ~granted) /\ Over(fate) /\ UNCHANGED vars
           \/ /\ held > 0
              /\ IF sale THEN SellSpot(px, held) ELSE HedgeTransferOut(held)
              /\ pc' = "sold" /\ UNCHANGED <<work, fate>>

\* Does the contract take what the run sends next, if it sends anything?
Accepted ==
    /\ pc \in {"skim", "move"} => CanSend /\ CanMove(work.amount)
    /\ pc = "bridge" => CanSend /\ CanReturn(work.amount)
    /\ pc = "harvest" => isActive
    /\ pc = "open" => work.equity >= Need \/ Bridgeable = 0 \/ CanBridge(Bridgeable)
    /\ pc = "order" => CanSend /\ CanOrder(perpAsset, work.px, work.target \div work.px)
    /\ pc \in {"reduce", "unwind"} => CanSend /\ CanOrder(perpAsset, work.px, work.amount)

\* A transaction the contract reverts: the script throws and ends.
Reverted == pc \notin {"off", "sync", "position", "decide"} /\ ~Accepted /\ Exit /\ UNCHANGED vars

\* The eight seconds are over, whether they were enough or not.
Work ==
    /\ \/ Skim \/ TopUp \/ Open \/ Reduce \/ Unwind \/ Reverted
       \/ \E misread \in Misreads :
             CheckHedge(misread) \/ CheckPurchase(misread) \/ ReturnHedge(misread)
    /\ late' = (queue # <<>> \/ (late /\ pc' # "opened"))

\* A read or a receipt fails that nothing catches, or the machine goes down.
Fail == pc # "off" /\ Failed /\ Cut("failed") /\ UNCHANGED <<vars, late>>

-----------------------------------------------------------------------------
\* The hedge coin is sent in from outside, as the alerts ask for.
FundSpot(c) ==
    /\ idle + OnCore + price[c] <= MaxUint
    /\ hedge' = [hedge EXCEPT ![c] = @ + 1]
    /\ UNCHANGED <<idle, books, owned, exists, depositing, spot, perp, short, price, queue,
                   market>>

\* The owner's switches and transfers from outside, at any time; bridging by
\* hand and the coins between runs.
OperatorStep ==
    \/ \E buffer \in Buffers : SetBufferBps(buffer)
    \/ \E switch \in Switches : SetSwitches(switch[1], switch[2])
    \/ \E c \in Coins : FundSpot(c)
    \/ pc = "off" /\ \E c \in Coins : SetPerpAsset(c) \/ SetSpotConfig(c)
    \/ pc = "off" /\ \E amount \in Uint : BridgeUsdcToCore(amount)

KeeperInit ==
    Init /\ pc = "off" /\ work = NoWork /\ fate = "none" /\ late = FALSE /\ failures = 0

KeeperNext ==
    \/ Read \/ Sync \/ Locate
    \/ \E apr \in {"high", "mid", "low"}, target \in Targets : Decide(apr, target)
    \/ Work
    \/ Fail
    \/ (VaultStep \/ CoreStep \/ OperatorStep) /\ UNCHANGED script

KeeperSpec == KeeperInit /\ [][KeeperNext]_system

-----------------------------------------------------------------------------
KeeperTypeOK ==
    /\ TypeOK
    /\ pc \in {"off", "sync", "position", "decide", "skim", "bridge", "harvest", "open", "move",
               "margin", "order", "opened", "bought", "reduce", "reduced", "unwind", "closed",
               "sell", "sold"}
    /\ work \in [principal : Nat, harvestable : Nat, equity : Int, lots : Nat, target : Nat,
                 px : Nat, amount : Nat]
    /\ fate \in {"none", "sent", "hedged", "told", "failed", "refused"}
    /\ late \in BOOLEAN /\ failures \in 0..MaxFailures

\* Which shorts the script leaves without their hedge and says nothing of: a
\* gap of a dollar at most at some price; the rest of an opening that a read,
\* a receipt or the machine cut short; a hedge the contract refused to buy
\* (cap, pause); and orders that HyperCore took up after the script had gone
\* on.  Any other gap has been alerted, whatever HyperCore dropped, filled in
\* part or let a price move undo, and whatever runs followed.  This is what the
\* code keeps of "never leave a silent naked short" (dn_keeper.js:597-637).
NakedShortIsAlerted ==
    pc = "off" /\ Lots > hedge[perpAsset] =>
        \/ fate \in {"told", "failed", "refused"} \/ late
        \/ \E p \in Prices : (Lots - hedge[perpAsset]) * p <= Dollar

\* The hedge is given up only when the short is gone, unless HyperCore was
\* later than the script.
HedgeOutlivesShort ==
    [][\A c \in Coins : hedge'[c] < hedge[c] => short[c] = 0 \/ late]_system

\* A skim of profit leaves the principal, the hedge's margin, alone.
SkimSparesPrincipal ==
    [][pc = "bridge" /\ pc' = "harvest" => corePrincipal6' = corePrincipal6]_system
=============================================================================
