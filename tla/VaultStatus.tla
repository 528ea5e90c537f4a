---------------------------- MODULE VaultStatus -----------------------------
(***************************************************************************)
(* scripts/write_vault_status.js and its cron: the feed the website shows. *)
(* The figures are read one after the other, each from the latest block;   *)
(* the feed is written to the site's public directory and to its last      *)
(* build, and the public one is pushed.                                    *)
(***************************************************************************)
EXTENDS LiveVault

VARIABLES
    feeds,       \* the file in each place: a feed, NoFeed or TornFeed
    pushedFeed,  \* what the site's repository carries
    feed,        \* what this run has read so far
    feedStep     \* the next of its steps, 0 between runs

feeding == <<feeds, pushedFeed, feed, feedStep>>

\* The figures in the order they are read ...
FeedFigures == <<"totalAssets", "totalShares", "idle", "morpho", "dn">>

\* ... without which there is no feed, those assetsTotalUsdc adds up, and the
\* other steps.
RequiredFigures == {"totalAssets", "totalShares"}
TotalParts == {"idle", "morpho", "dn"}
FeedPlaces == {"public", "dist"}
FeedSteps == FeedFigures \o <<"public", "dist", "push">>

\* A figure is the block it was read at, or Null: left out of the feed.  total
\* is the parts its assetsTotalUsdc adds up.  begun and done are history: the
\* blocks at which the run read first and last.
NoFeed == [figures |-> [f \in Range(FeedFigures) |-> Null], total |-> {},
           begun |-> Null, done |-> Null]
TornFeed == [NoFeed EXCEPT !.begun = 0]

FeedAt(step) == feedStep > 0 /\ FeedSteps[feedStep] = step
FeedGoesOn == feedStep' = feedStep + 1
FeedOver == feedStep' = 0 /\ feed' = NoFeed

\* The manifest declares the vault and the chain, the provider is on it and
\* there is code at the vault -- or the run refuses and nothing changes.
StatusStart ==
    /\ feedStep = 0
    /\ feedStep' = 1
    /\ feed' = [NoFeed EXCEPT !.begun = Block]
    /\ UNCHANGED <<log, failures, feeds, pushedFeed>>

\* Mutant of FigureRead: a failed read shows what the last feed showed.
FigureKept(f, ok) == IF ok THEN Block ELSE feeds["public"].figures[f]

FigureRead(f, ok) == IF ok THEN Block ELSE Null

\* A read that fails ends the run for the books and leaves a gap otherwise.
StatusRead(f, ok) ==
    /\ FeedAt(f) /\ Answers(ok)
    /\ IF ~ok /\ f \in RequiredFigures
       THEN FeedOver
       ELSE /\ feed' = [feed EXCEPT !.figures[f] = FigureRead(f, ok), !.done = Block]
            /\ FeedGoesOn
    /\ UNCHANGED <<feeds, pushedFeed>>

\* assetsTotalUsdc is shown in every feed: a part that was not read counts
\* as zero in it.
Total(figures) == {f \in TotalParts : figures[f] # Null}

StatusWrite(place) ==
    /\ FeedAt(place)
    /\ feeds' = [feeds EXCEPT ![place] = [feed EXCEPT !.total = Total(feed.figures)]]
    /\ FeedGoesOn
    /\ UNCHANGED <<log, failures, pushedFeed, feed>>

\* The cron commits and pushes the public file; a push may be refused.
StatusPush(ok) ==
    /\ FeedAt("push") /\ Answers(ok)
    /\ pushedFeed' = IF ok THEN feeds["public"] ELSE pushedFeed
    /\ FeedOver
    /\ UNCHANGED feeds

\* The process dies, maybe inside a write; `set -e' keeps the cron from
\* pushing what it left.
StatusDies ==
    /\ feedStep > 0 /\ Answers(FALSE)
    /\ \/ UNCHANGED feeds
       \/ \E place \in FeedPlaces :
             FeedAt(place) /\ feeds' = [feeds EXCEPT ![place] = TornFeed]
    /\ FeedOver
    /\ UNCHANGED pushedFeed

StatusInit ==
    /\ feeds = [p \in FeedPlaces |-> NoFeed] /\ pushedFeed = NoFeed
    /\ feed = NoFeed /\ feedStep = 0

StatusNext ==
    \/ StatusStart \/ StatusDies
    \/ \E ok \in BOOLEAN, f \in Range(FeedFigures) : StatusRead(f, ok)
    \/ \E place \in FeedPlaces : StatusWrite(place)
    \/ \E ok \in BOOLEAN : StatusPush(ok)

-----------------------------------------------------------------------------
\* A feed on the site: a figure that was read is one the vault had while the
\* feed's run was reading, never an older one; its price has both its figures;
\* and its total adds up exactly the parts the feed shows a figure of.  The
\* total alone is zero-filled, then, whatever line 98 says: it is short of the
\* vault's assets just when one of its parts is a gap
\* (write_vault_status.js:87-115, 150-180).
FeedIsOfItsRun ==
    \A shown \in {feeds[p] : p \in FeedPlaces} \cup {pushedFeed} :
        /\ \A f \in Range(FeedFigures) :
              shown.figures[f] = Null \/ (shown.begun <= shown.figures[f]
                                          /\ shown.figures[f] <= shown.done)
        /\ shown.done # Null => \A f \in RequiredFigures : shown.figures[f] # Null
        /\ \A f \in TotalParts : f \in shown.total <=> shown.figures[f] # Null
=============================================================================
