----------------------------- MODULE VaultWatch -----------------------------
(***************************************************************************)
(* scripts/vault_watch_mainnet.js, run by the cron: it compares the vault  *)
(* with what the run before wrote to its state file and sends an alert for *)
(* what changed.  The state file is written before the alert is sent.      *)
(***************************************************************************)
EXTENDS LiveVault

VARIABLES
    prev,       \* the state file: a reading, or NoReading
    cur,        \* what this run has read
    watching,   \* where the run is
    alerts,     \* the events it is about to send
    notes,      \* the other alerts in its message
    armedAt,    \* history: the first block it answers for
    reported,   \* history: how often each event was sent
    missed      \* history: events whose run failed to scan or to send

watch == <<prev, cur, watching, alerts, notes, armedAt, reported, missed>>

\* A reading: the block number, and the block its fields were read at.  The
\* fields of a state file that was cut short are Torn; its block is then
\* history: the last one a run answered for.
NoReading == [block |-> Null, fields |-> Null]
Torn == -2

\* Mutant of WatchBlock: the state file names the next block to scan.
WatchBlockAhead ==
    /\ watching = "idle"
    /\ watching' = "fields"
    /\ cur' = [block |-> Block + 1, fields |-> Null]
    /\ UNCHANGED <<log, failures, prev, alerts, notes, armedAt, reported, missed>>

\* The block number first; the fields are those of the latest block, later.
WatchBlock ==
    /\ watching = "idle"
    /\ watching' = "fields"
    /\ cur' = [block |-> Block, fields |-> Null]
    /\ UNCHANGED <<log, failures, prev, alerts, notes, armedAt, reported, missed>>

WatchFields ==
    /\ watching = "fields"
    /\ watching' = "scan"
    /\ cur' = [cur EXCEPT !.fields = Block]
    /\ UNCHANGED <<log, failures, prev, alerts, notes, armedAt, reported, missed>>

\* Mutant of FromBlock: the last block is scanned again.
FromLastBlock == prev.block

FromBlock == prev.block + 1

\* What getLogs returns for the blocks since the last run.
Events == {b \in Flows : FromBlock <= b /\ b <= cur.block}

\* Mutant of Unmatched: the events are not looked at.
Moved(ok) == Assets(prev.fields) # Assets(cur.fields)

\* The assets moved although no event says so.
Unmatched(ok) ==
    Assets(prev.fields) # Assets(cur.fields) /\ ~(ok /\ Events # {})

\* What else a message says: a scan that failed, the owner's settings, an
\* unmatched move.
Notes(ok) ==
    {n \in {"scan failed", "settings", "unmatched"} :
        \/ n = "scan failed" /\ ~ok
        \/ n = "settings" /\ Admin(prev.fields) # Admin(cur.fields)
        \/ n = "unmatched" /\ Unmatched(ok)}

\* The first run arms the sentinel and scans nothing.  The state is written
\* in the same breath: a run that dies before that has sent nothing.
WatchScan(ok) ==
    /\ watching = "scan" /\ prev.fields # Torn /\ Answers(ok)
    /\ IF prev = NoReading
       THEN ok /\ notes' = {"armed"} /\ armedAt' = cur.block + 1 /\ UNCHANGED <<alerts, missed>>
       ELSE /\ alerts' = IF ok THEN Events ELSE {}
            /\ missed' = IF ok THEN missed ELSE missed \cup Events
            /\ notes' = Notes(ok)
            /\ UNCHANGED armedAt
    /\ prev' = cur
    /\ watching' = "notify"
    /\ UNCHANGED <<cur, reported>>

WatchOver == watching' = "idle" /\ alerts' = {} /\ notes' = {} /\ cur' = NoReading

\* One message for all of them; a send that fails is only logged.
WatchNotify(ok) ==
    /\ watching = "notify" /\ Answers(ok)
    /\ IF ok THEN /\ reported' = [b \in 1..MaxBlock |->
                                     reported[b] + IF b \in alerts THEN 1 ELSE 0]
                  /\ UNCHANGED missed
             ELSE missed' = missed \cup alerts /\ UNCHANGED reported
    /\ WatchOver
    /\ UNCHANGED <<prev, armedAt>>

\* A state file that was cut short does not parse: every run dies of it.
WatchRefuses ==
    /\ watching = "scan" /\ prev.fields = Torn
    /\ WatchOver
    /\ UNCHANGED <<log, failures, prev, armedAt, reported, missed>>

\* The process dies, maybe inside the write of the state file.
WatchDies ==
    /\ watching # "idle" /\ Answers(FALSE)
    /\ missed' = missed \cup alerts
    /\ \/ UNCHANGED prev
       \/ watching = "scan" /\ prev' = [prev EXCEPT !.fields = Torn]
    /\ WatchOver
    /\ UNCHANGED <<armedAt, reported>>

WatchInit ==
    /\ prev = NoReading /\ cur = NoReading /\ watching = "idle"
    /\ alerts = {} /\ notes = {}
    /\ armedAt = Null /\ reported = [b \in 1..MaxBlock |-> 0] /\ missed = {}

WatchNext ==
    \/ WatchBlock \/ WatchFields \/ WatchRefuses \/ WatchDies
    \/ \E ok \in BOOLEAN : WatchScan(ok) \/ WatchNotify(ok)

-----------------------------------------------------------------------------
\* Every deposit and withdrawal since the sentinel was armed is sent exactly
\* once, however blocks fall between and within the runs; it is lost when
\* its run could not scan or send, and never sent twice.  Nothing is sent of
\* the blocks after the last run whose state file was written whole: a run
\* that dies inside that write silences the sentinel for good
\* (vault_watch_mainnet.js:92, 103-130, 142-150).
FlowsReportedOnce ==
    \A b \in Flows :
        reported[b] = IF /\ prev # NoReading /\ armedAt <= b /\ b <= prev.block
                         /\ b \notin missed \cup alerts
                      THEN 1 ELSE 0

\* "totalAssets moved with NO matching event": the alarm is raised for a yield
\* booked since the last reading, for a flow mined between the block number
\* and the fields of this one (the next run sends it), or because the scan
\* failed -- never for a flow the sentinel sends or has sent
\* (vault_watch_mainnet.js:71-80, 136-139).
UnmatchedIsExplained ==
    [][watching = "scan" /\ "unmatched" \in notes' =>
          \/ "scan failed" \in notes'
          \/ \E b \in (prev.fields + 1)..cur.fields :
                log[b] = "yield" \/ (b \in Flows /\ b > cur.block)]_<<log, watch>>
=============================================================================
