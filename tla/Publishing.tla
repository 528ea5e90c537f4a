----------------------------- MODULE Publishing -----------------------------
(***************************************************************************)
(* The jobs that read the live vault and publish what they read: the       *)
(* sentinel (VaultWatch), the website's feed (VaultStatus) and the daily   *)
(* attestation (Attestation), each against a chain that goes on while it   *)
(* reads.  The jobs share no file, so a behaviour is about one of them.    *)
(***************************************************************************)
EXTENDS VaultWatch, VaultStatus, Attestation

ASSUME PublishAssumption ==
    {MaxBlock, MaxFailures, MaxRuns} \subseteq Nat /\ MaxDay \in Nat \ {0}

VARIABLE job

publishing == <<log, failures, watch, feeding, attest, job>>

Jobs == {"watch", "status", "attest"}

PublishInit ==
    /\ LiveInit /\ WatchInit /\ StatusInit /\ AttestInit
    /\ job \in Jobs

JobStep ==
    \/ job = "watch"  /\ WatchNext  /\ UNCHANGED <<feeding, attest>>
    \/ job = "status" /\ StatusNext /\ UNCHANGED <<watch, attest>>
    \/ job = "attest" /\ AttestNext /\ UNCHANGED <<watch, feeding>>

\* What a block does matters to the sentinel alone; the others record the
\* block they read at, so theirs are all alike and fall while they read.
Mined ==
    \/ job = "watch" /\ \E kind \in Kinds : Mine(kind)
    \/ /\ feedStep \in 1..Len(FeedFigures) \/ step \in 1..Len(ReportFigures)
       /\ Mine("deposit")

PublishNext ==
    \/ JobStep /\ UNCHANGED job
    \/ Mined /\ UNCHANGED <<watch, feeding, attest, job>>

PublishSpec == PublishInit /\ [][PublishNext]_publishing

-----------------------------------------------------------------------------
\* Types: what the sentinel is about to send, what stands in the files, what
\* a run holds -- blocks that exist and steps of the right job.
PublishTypeOK ==
    /\ LiveTypeOK /\ job \in Jobs
    /\ {prev, cur} \subseteq [block : Null..Block, fields : Torn..Block]
    /\ watching \in {"idle", "fields", "scan", "notify"}
    /\ alerts \subseteq Flows /\ missed \subseteq Flows
    /\ reported \in [1..MaxBlock -> Nat]
    /\ feedStep \in 0..Len(FeedSteps) /\ step \in 0..Len(AttestSteps)
    /\ report.day \in 0..today /\ report.begun <= Block
    /\ (report.day = 0) = (step = 0) /\ (feed.begun = Null) = (feedStep = 0)
    /\ rows \in [Wallets -> [Days -> Null..Block]]

\* No figure that is shown as read is older than the run that shows it, in the
\* feed or in a report, and a failed read shows as one of three things, told
\* apart by its name: a gap, the script's constant, or a total without it.
FiguresAreOfTheirRun == FeedIsOfItsRun /\ ReportIsOfItsRun
=============================================================================
