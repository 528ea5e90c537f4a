---------------------------- MODULE Attestation -----------------------------
(***************************************************************************)
(* scripts/attestation_cron.sh: attestation.js writes the report of the    *)
(* day, its series line and their copies on the site; then                 *)
(* portfolio_snapshots.js writes the users' rows; then both repositories   *)
(* are committed and pushed.  The script may die between and inside the    *)
(* writes; the next run is on the same day or a later one.                 *)
(*                                                                         *)
(* "dated" stands for <date>.json and <date>.md, "latest" for latest.json  *)
(* and latest.md, "series" for series.jsonl (on the site series.json too). *)
(***************************************************************************)
EXTENDS LiveVault

CONSTANTS
    MaxDay,     \* bound: days
    MaxRuns,    \* bound: runs of the job
    Wallets     \* the users' wallets

VARIABLES
    today,
    files,      \* the pages in each place
    pushed,     \* what each repository carries
    rows,       \* D1 portfolio_snapshots: per wallet and day
    report,     \* what this run has read so far
    step,       \* the next of its steps, 0 between runs
    runs        \* how many runs there were

attest == <<today, files, pushed, rows, report, step, runs>>

Days == 1..MaxDay
Sites == {"repo", "site"}

\* The first read names the report's block; total_assets stands for the vault's
\* figures, the balances and the venues.
ReportFigures == <<"as_of_block", "total_assets", "performance_fee", "fee_destination">>

\* Where no getter answers these take a constant of the script (fee_destination
\* stands for the decimals and the asset's address, too), and a failed getter
\* of those is not listed as unavailable.
Fallbacks == {"fee_destination"}
ALT_PROBES == Fallbacks \cup {"performance_fee"}

\* A figure is the block it was read at, Configured or Null; unavailable is the
\* figures listed so in the report; begun is history: the block at which the
\* run began.
NoReport == [day |-> 0, figures |-> [f \in Range(ReportFigures) |-> Null],
             unavailable |-> {}, begun |-> Null]
TornReport == [NoReport EXCEPT !.begun = 0]

NoPages == [dated  |-> [d \in Days |-> NoReport],
            latest |-> NoReport,
            series |-> [d \in Days |-> NoReport]]

\* Mutant of Pages: the series line comes before the report.
SeriesFirst(site) == <<<<site, "series">>, <<site, "dated">>, <<site, "latest">>>>

\* The pages in the order they are written, or copied.
Pages(site) == <<<<site, "dated">>, <<site, "latest">>, <<site, "series">>>>

\* The run: reads, writes, copies, the snapshots, the two pushes.
AttestSteps ==
    [i \in 1..Len(ReportFigures) |-> <<"read", ReportFigures[i]>>]
    \o Pages("repo") \o Pages("site")
    \o <<<<"snapshots", "d1">>, <<"push", "repo">>, <<"push", "site">>>>

AttestAt(s) == step > 0 /\ AttestSteps[step] = s
AttestGoesOn == step' = step + 1

AttestOver == step' = 0 /\ report' = NoReport

NextDay ==
    /\ today < MaxDay
    /\ today' = today + 1
    /\ UNCHANGED <<log, failures, files, pushed, rows, report, step, runs>>

\* The date is taken once, at the start.
AttestStart ==
    /\ step = 0 /\ runs < MaxRuns
    /\ step' = 1 /\ runs' = runs + 1
    /\ report' = [NoReport EXCEPT !.day = today, !.begun = Block]
    /\ UNCHANGED <<log, failures, today, files, pushed, rows>>

\* Mutant of ReportRead: a failed read takes the figure of the last report.
ReportKept(f, ok) == IF ok THEN Block ELSE files["repo"].latest.figures[f]

\* seek: a read that fails is a null in the report, or the script's constant.
ReportRead(f, ok) ==
    IF ok THEN Block ELSE IF f \in Fallbacks THEN Configured ELSE Null

AttestRead(f, ok) ==
    /\ AttestAt(<<"read", f>>) /\ Answers(ok)
    /\ report' = [report EXCEPT
          !.figures[f] = ReportRead(f, ok),
          !.unavailable = @ \cup ({f} \ IF ok THEN {f} ELSE ALT_PROBES)]
    /\ AttestGoesOn
    /\ UNCHANGED <<today, files, pushed, rows, runs>>

\* No RPC answers: nothing of the vault is read, and one entry says so of all.
NoProvider ==
    /\ AttestAt(<<"read", "as_of_block">>) /\ Answers(FALSE)
    /\ report' = [report EXCEPT !.unavailable = Range(ReportFigures)]
    /\ step' = Len(ReportFigures) + 1
    /\ UNCHANGED <<today, files, pushed, rows, runs>>

\* The series with today's line replaced, or added.
SeriesWith(r) == [files["repo"].series EXCEPT ![r.day] = r]

\* A page as it is after its write: the site's pages are copies of the repo's.
Written(site, page) ==
    LET d == report.day
        repo == files["repo"]
    IN  CASE page = "dated"  -> [files EXCEPT ![site].dated[d] =
                                    IF site = "repo" THEN report ELSE repo.dated[d]]
          [] page = "latest" -> [files EXCEPT ![site].latest =
                                    IF site = "repo" THEN report ELSE repo.latest]
          [] page = "series" -> [files EXCEPT ![site].series =
                                    IF site = "repo" THEN SeriesWith(report) ELSE repo.series]

\* A page whose writing died: empty or cut short.  Of a series some lines are
\* left; what does not parse is dropped by the next run.
TornPage(site, page, k) ==
    CASE page = "dated"  -> [files EXCEPT ![site].dated[report.day] = TornReport]
      [] page = "latest" -> [files EXCEPT ![site].latest = TornReport]
      [] page = "series" -> [files EXCEPT ![site].series =
                                [d \in Days |-> IF d < k THEN @[d] ELSE NoReport]]

AttestWrite(site, page) ==
    /\ AttestAt(<<site, page>>)
    /\ files' = Written(site, page)
    /\ AttestGoesOn
    /\ UNCHANGED <<log, failures, today, pushed, rows, report, runs>>

\* portfolio_snapshots.js: a wallet gets its row when every source answered,
\* and none otherwise; a second run of the day replaces the row.  The cron
\* goes on whatever comes of it.
Snapshots(answered) ==
    /\ AttestAt(<<"snapshots", "d1">>) /\ Answers(answered = Wallets)
    /\ rows' = [w \in Wallets |->
          [rows[w] EXCEPT ![report.day] = IF w \in answered THEN Block ELSE @]]
    /\ AttestGoesOn
    /\ UNCHANGED <<today, files, pushed, report, runs>>

AttestPush(site, ok) ==
    /\ AttestAt(<<"push", site>>) /\ Answers(ok)
    /\ pushed' = IF ok THEN [pushed EXCEPT ![site] = files[site]] ELSE pushed
    /\ IF ok /\ site = "repo" THEN AttestGoesOn /\ UNCHANGED report ELSE AttestOver
    /\ UNCHANGED <<today, files, rows, runs>>

\* Mutant of AttestDies: without `set -e' the cron goes on to the pushes.
DiesAndGoesOn ==
    /\ step > 0 /\ Answers(FALSE)
    /\ step' = Len(AttestSteps) - 1
    /\ UNCHANGED <<today, files, pushed, rows, report, runs>>

\* The process dies, maybe inside a write; `set -e' ends the job.
AttestDies ==
    /\ step > 0 /\ Answers(FALSE)
    /\ \/ UNCHANGED files
       \/ \E site \in Sites, page \in {"dated", "latest", "series"}, k \in Days :
             AttestAt(<<site, page>>) /\ files' = TornPage(site, page, k)
    /\ AttestOver
    /\ UNCHANGED <<today, pushed, rows, runs>>

AttestInit ==
    /\ today = 1 /\ runs = 0
    /\ files = [s \in Sites |-> NoPages] /\ pushed = files
    /\ rows = [w \in Wallets |-> [d \in Days |-> Null]]
    /\ report = NoReport /\ step = 0

AttestNext ==
    \/ NextDay \/ AttestStart \/ NoProvider \/ AttestDies
    \/ \E f \in Range(ReportFigures), ok \in BOOLEAN : AttestRead(f, ok)
    \/ \E site \in Sites, page \in {"dated", "latest", "series"} : AttestWrite(site, page)
    \/ \E answered \in SUBSET Wallets : Snapshots(answered)
    \/ \E site \in Sites, ok \in BOOLEAN : AttestPush(site, ok)

-----------------------------------------------------------------------------
\* What the repository's page of day d must be for r to stand in a series or on
\* the site: r itself, the report of a later run of that day, or what such a
\* run left of it when it died inside the write (attestation.js:335 overwrites
\* the page in place).
Backs(page, d, r) ==
    page # NoReport /\ (page = TornReport \/ (page.day = d /\ page.begun >= r.begun))

\* A day in the series, in the repository or on the site, and a page of the
\* site have their report in the repository, whatever write a run died at and
\* on whatever day the next one came.  The exception is the page a later run of
\* that same day died writing; a run of that day that gets past this write has
\* repaired it (attestation.js:331-381).
SeriesHasReports ==
    \A d \in Days :
        LET page == files["repo"].dated[d]
        IN  /\ \A site \in Sites :
                  \A r \in {files[site].series[d], files[site].dated[d]} \ {NoReport} :
                      Backs(page, d, r)
            /\ report.day = d /\ step > Len(ReportFigures) + 1 => page = report

\* The latest report that is pushed is whole: it is the dated one of its day
\* and the one of the series' last line, and no earlier run's remains are taken
\* for it.  The page of an earlier day may be one a run died writing
\* (attestation.js:331-381, attestation_cron.sh:6-33).
PushedIsWhole ==
    \A site \in Sites :
        LET p == pushed[site]
        IN  p.latest # NoReport =>
                /\ p.latest.day \in Days
                /\ p.dated[p.latest.day] = p.latest
                /\ p.series[p.latest.day] = p.latest
                /\ \A d \in Days : p.series[d] # NoReport => d <= p.latest.day

\* A figure of a report: if it was read, then in the report's own run and not
\* before the block the report names; the script's constant in its place only
\* where the script has one; and a gap is listed as unavailable, unless its
\* getter is one of ALT_PROBES.  With none listed, then, not every read was
\* answered, as the page says it was (attestation.js:439).
FigureIsHonest(r, f) ==
    /\ r.figures[f] \notin {Null, Configured} =>
          r.begun <= r.figures[f] /\ r.figures["as_of_block"] <= r.figures[f]
    /\ r.figures[f] = Configured => f \in Fallbacks
    /\ f \notin ALT_PROBES => (r.figures[f] = Null <=> f \in r.unavailable)

\* Every report in the files that is whole, of this run or an earlier one, has
\* such figures only (attestation.js:75-82, 133-246, 318-329).
ReportIsOfItsRun ==
    \A site \in Sites : \A d \in Days :
        LET r == files[site].dated[d]
        IN  r \notin {NoReport, TornReport} =>
                \A f \in Range(ReportFigures) : FigureIsHonest(r, f)
=============================================================================
