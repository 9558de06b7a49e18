------------------------------- MODULE Radar -------------------------------
(***************************************************************************)
(* The daily radar, run_daily_radar.sh: on working days at 06:00 cron      *)
(* scrapes the last 72 hours, runs the detector over all of history,       *)
(* compares the clusters with the snapshot radar_diff.py kept of the last  *)
(* run and generates a report for every ticker that changed.  Filings are  *)
(* published meanwhile, `signal daily-report` upserts the clusters of its  *)
(* rolling window when it likes, and any command may fail: `set -e` then   *)
(* ends the script, except for the diff, whose failure `|| true` hides.    *)
(*                                                                         *)
(* Scores are in tenths of a point.  A run begins and ends on one day.     *)
(***************************************************************************)
EXTENDS Clusters

CONSTANTS
    Ticker,     \* numbers, in the order of the names
    Filing,     \* BUY disclosures: [tick, ins, day, pub], of the trade and of its publication
    LastDay,    \* bound: the last day of the model
    Workday,    \* the days on which cron starts the script
    LastHours,  \* --last-hours, in days
    Seniority,  \* insider -> role score, in hundredths (_role_score)
    FullCount,  \* insiders from which the count adds no more to the score
    Threshold,  \* SCORE_CHANGE_THRESHOLD
    MaxBad      \* bound: the days on which something fails

Day == 1..LastDay

ASSUME TickerAssumption == Ticker \subseteq Nat
ASSUME FilingAssumption == Filing \subseteq [tick : Ticker, ins : Insider, day : Day, pub : Day]
ASSUME DayAssumption == LastDay \in Workday /\ Workday \subseteq Day
ASSUME HoursAssumption == LastHours \in Nat
ASSUME ScoreAssumption ==
    /\ Seniority \in [Insider -> 0..100] /\ FullCount \in Nat \ {0, 1}
    /\ Window # 0 /\ Threshold \in Nat \ {0}

VARIABLES
    today,
    fired,      \* whether today's cron job is past
    published,  \* filings KAP shows
    stored,     \* filings in the database
    rows,       \* insider_clusters: <<ticker, window>> -> [count, score]
    file,       \* .radar_state.json: <<ticker, window_start>> -> [count, score]
    pc,         \* where the script is
    todo,       \* tickers the script has yet to report
    seen,       \* history: the rows behind the state file,
    due,        \* insiders flagged of a key whose report is still to come,
    told,       \* insiders flagged of it when its ticker was last reported for it,
    lost,       \* keys saved as changed whose report a failure has cost,
    bad         \* and the days on which something failed

script == <<pc, todo>>
flags == <<due, told, lost>>
history == <<seen, flags, bad>>
vars == <<today, fired, published, stored, rows, file, script, history>>

\* An empty table; a state file that is absent, or cut off by a crash, reads as one.
NoRows == [x \in {} |-> {}]

Init ==
    /\ today = 1 /\ fired = FALSE
    /\ published = {} /\ stored = {}
    /\ rows = NoRows /\ file = NoRows
    /\ pc = "idle" /\ todo = {}
    /\ seen = NoRows /\ due = NoRows /\ told = NoRows /\ lost = {} /\ bad = {}

-----------------------------------------------------------------------------
(* The score, compute_cluster_score *)

CountScore(n) == (500 * Min({n - 1, FullCount - 1})) \div (FullCount - 1)
RoleScore(insiders) == 3 * Max({Seniority[i] : i \in insiders})
RecencyScore(since) == Max({0, 200 - (200 * since) \div Window})

Score(insiders, since) ==
    CountScore(Cardinality(insiders)) + RoleScore(insiders) + RecencyScore(since)

BuysOf(t) == {f \in stored : f.tick = t}

\* The rows detect_clusters upserts: over all of history every cluster is
\* scored on its last day, in the rolling window as of today.
DetectedRows(mode) ==
    LET events == [t \in Ticker |-> FindClusterEvents(Selected(BuysOf(t), mode, today))]
        keys == UNION {{t} \X DOMAIN events[t] : t \in Ticker}
        Since(w) == IF mode = "history" THEN 0 ELSE today - w[2]
        Row(insiders, since) == [count |-> Cardinality(insiders), score |-> Score(insiders, since)]
    IN [k \in keys |-> Row(events[k[1]][k[2]], Since(k[2]))]

\* ON CONFLICT (ticker, window_start, window_end) DO UPDATE.
Upsert(old, new) ==
    [k \in DOMAIN old \cup DOMAIN new |-> IF k \in DOMAIN new THEN new[k] ELSE old[k]]

-----------------------------------------------------------------------------
(* radar_diff.py *)

\* The key of the state file: a cluster is known by its ticker and its first day.
Key(k) == <<k[1], k[2][1]>>

\* _dedupe_clusters: the row of the highest score of each key; among equals the
\* one the SELECT, which has no ORDER BY, returns first.
Snapshots ==
    LET keys == {Key(k) : k \in DOMAIN rows}
        RowsAt(x) == {rows[k] : k \in {k \in DOMAIN rows : Key(k) = x}}
        best == [x \in keys |-> {r \in RowsAt(x) : \A q \in RowsAt(x) : q.score <= r.score}]
    IN {s \in [keys -> UNION {best[x] : x \in keys}] : \A x \in keys : s[x] \in best[x]}

Abs(n) == IF n < 0 THEN -n ELSE n

\* Mutant: more insiders are noticed only by the score.
ReportableByScore(prev, info) == Abs(info.score - prev.score) >= Threshold

\* Mutant: an insider count that has not fallen.
ReportableAnyway(prev, info) ==
    \/ Abs(info.score - prev.score) >= Threshold
    \/ info.count >= prev.count

Reportable(prev, info) ==
    \/ Abs(info.score - prev.score) >= Threshold
    \/ info.count > prev.count

\* Mutant: a key the file does not know is passed over.
ChangedOfKnown(snapshot) ==
    {x \in DOMAIN snapshot : x \in DOMAIN file /\ Reportable(file[x], snapshot[x])}

\* _diff, by key.
Changed(snapshot) ==
    {x \in DOMAIN snapshot : x \notin DOMAIN file \/ Reportable(file[x], snapshot[x])}

TickersOf(keys) == {x[1] : x \in keys}

-----------------------------------------------------------------------------
(* The world *)

\* Time passes once cron has had its turn.
NextDay ==
    /\ today < LastDay
    /\ pc = "idle"
    /\ today \in Workday => fired
    /\ today' = today + 1 /\ fired' = FALSE
    /\ UNCHANGED <<published, stored, rows, file, script, history>>

\* A filing appears on its day, before or after the script has run.
Publish(f) ==
    /\ f.pub = today
    /\ published' = published \cup {f}
    /\ UNCHANGED <<today, fired, stored, rows, file, script, history>>

\* detect_clusters(as_of_date), as the daily report runs it.  Bound: not after
\* the last run of the script.
DailyReport ==
    /\ today < LastDay
    /\ rows' = Upsert(rows, DetectedRows("live"))
    /\ UNCHANGED <<today, fired, published, stored, file, script, history>>

-----------------------------------------------------------------------------
(* The script *)

\* Bound: something fails on at most MaxBad days, and not on the last.
MayFail == today < LastDay /\ Cardinality(bad \cup {today}) <= MaxBad
Fails == MayFail /\ bad' = bad \cup {today}

\* Mutant: the window is a day short.
ListedShort == {f \in published : today - LastHours < f.pub}

\* scrape kap-insider --last-hours: the dates from now minus the hours to today.
Listed == {f \in published : today - LastHours <= f.pub}

\* cron starts the script; the scrape stores what it lists.
Scrape ==
    /\ pc = "idle" /\ ~fired /\ today \in Workday
    /\ fired' = TRUE
    /\ stored' = stored \cup Listed
    /\ pc' = "detect"
    /\ UNCHANGED <<today, published, rows, file, todo, history>>

\* It leaves some for later and exits 0, or fails after storing some, or cron
\* does not start it: the machine is off.
ScrapePartly(kept) ==
    /\ pc = "idle" /\ ~fired /\ today \in Workday
    /\ fired' = TRUE
    /\ stored' = stored \cup kept
    /\ pc' \in {"detect", "idle"}
    /\ Fails
    /\ UNCHANGED <<today, published, rows, file, todo, seen, flags>>

\* signal detect: the clusters commit before the outcomes are calculated.
Detect ==
    /\ pc = "detect"
    /\ rows' = Upsert(rows, DetectedRows("history"))
    /\ pc' = "diff"
    /\ UNCHANGED <<today, fired, published, stored, file, todo, history>>

\* It fails before its clusters commit, or in calculate_outcomes.
DetectFails ==
    /\ pc = "detect"
    /\ rows' \in {rows, Upsert(rows, DetectedRows("history"))}
    /\ pc' = "idle"
    /\ Fails
    /\ UNCHANGED <<today, fired, published, stored, file, todo, seen, flags>>

\* radar_diff.main: compare, save, print.
Diff ==
    /\ pc = "diff"
    /\ \E snapshot \in Snapshots :
        /\ file' = snapshot
        /\ todo' = TickersOf(Changed(snapshot))
        /\ pc' = IF Changed(snapshot) = {} THEN "idle" ELSE "report"
        /\ due' = [x \in Changed(snapshot) |-> snapshot[x].count]
    /\ seen' = rows
    /\ UNCHANGED <<today, fired, published, stored, rows, told, lost, bad>>

\* It dies before the save, or has opened the file and not written it: the
\* script sees no output and takes it for no change.
DiffDies ==
    /\ pc = "diff"
    /\ \/ UNCHANGED <<file, seen>>
       \/ file' = NoRows /\ seen' = NoRows
    /\ pc' = "idle"
    /\ Fails
    /\ UNCHANGED <<today, fired, published, stored, rows, todo, flags>>

\* It dies between the save and the print: the changes are known and were
\* never told.
DiffDiesSaved ==
    /\ pc = "diff"
    /\ \E snapshot \in Snapshots :
        /\ file' = snapshot
        /\ lost' = lost \cup Changed(snapshot)
    /\ seen' = rows
    /\ pc' = "idle"
    /\ Fails
    /\ UNCHANGED <<today, fired, published, stored, rows, todo, due, told>>

\* report generate --ticker, in the order of the names.
Report ==
    /\ pc = "report"
    /\ LET t == Min(todo)
           mine == {x \in DOMAIN due : x[1] = t}
       IN /\ todo' = todo \ {t}
          /\ told' = Upsert(told, [x \in mine |-> due[x]])
          /\ due' = [x \in DOMAIN due \ mine |-> due[x]]
          /\ lost' = lost \ mine
          /\ pc' = IF todo = {t} THEN "idle" ELSE "report"
    /\ UNCHANGED <<today, fired, published, stored, rows, file, seen, bad>>

\* A report fails and with it the rest of the list.
ReportFails ==
    /\ pc = "report"
    /\ lost' = lost \cup DOMAIN due
    /\ due' = NoRows
    /\ todo' = {} /\ pc' = "idle"
    /\ Fails
    /\ UNCHANGED <<today, fired, published, stored, rows, file, seen, told>>

-----------------------------------------------------------------------------

ScriptStep == Scrape \/ Detect \/ Diff \/ Report

Failure ==
    \/ \E kept \in SUBSET Listed : ScrapePartly(kept)
    \/ DetectFails \/ DiffDies \/ DiffDiesSaved \/ ReportFails

Next ==
    \/ NextDay
    \/ \E f \in Filing \ published : Publish(f)
    \/ DailyReport
    \/ ScriptStep
    \/ Failure

Spec == Init /\ [][Next]_vars

\* Time passes, and a script that cron has started runs on.
FairSpec == Spec /\ WF_vars(NextDay) /\ WF_vars(ScriptStep)

-----------------------------------------------------------------------------
(* Properties *)

Windows == {w \in Day \X Day : w[1] <= w[2]}
Keys == Ticker \X Day
Count == 0..Cardinality(Insider)
RowType == [count : Count, score : 0..1000]

IsTable(f, keys, values) == DOMAIN f \subseteq keys /\ \A k \in DOMAIN f : f[k] \in values

TypeOK ==
    /\ today \in Day /\ fired \in BOOLEAN
    /\ stored \subseteq published /\ published \subseteq Filing
    /\ IsTable(rows, Ticker \X Windows, RowType)
    /\ IsTable(seen, Ticker \X Windows, RowType)
    /\ IsTable(file, Keys, RowType)
    /\ IsTable(told, Keys, Count) /\ IsTable(due, Keys, Count) /\ lost \subseteq Keys
    /\ TickersOf(DOMAIN due) = todo
    /\ pc \in {"idle", "detect", "diff", "report"}
    /\ todo \subseteq Ticker /\ (todo # {} <=> pc = "report")
    /\ bad \subseteq Day

\* No gap between runs: a filing that no later run will list and that is not
\* stored was lost to a failure, on every working day that would have listed
\* it; weekends open no gap (--last-hours 72, cron 0 6 * * 1-5).
OnlyFailuresSkip ==
    \A f \in published \ stored : f.pub + LastHours < today =>
        /\ \E d \in Workday : f.pub < d /\ d <= f.pub + LastHours
        /\ \A d \in Workday : f.pub < d /\ d <= f.pub + LastHours => d \in bad

\* Of every cluster the state file knows, a report has been made with at least as
\* many insiders as the file says, or is about to be, through counts that fall
\* and rise again and files cut off.  Only a failure between the save and the
\* report lets the file run ahead of the reader, of the clusters it had saved as
\* changed, and until they are reported again (_diff, and main, which saves
\* before it prints); and every variable has its type.
InsidersFlagged ==
    /\ TypeOK
    /\ \A x \in DOMAIN file \ lost :
            \/ x \in DOMAIN due /\ file[x].count <= due[x]
            \/ x \in DOMAIN told /\ file[x].count <= told[x]

Tied(t) ==
    \E k, l \in DOMAIN rows : /\ k[1] = t /\ Key(k) = Key(l)
                              /\ rows[k].score = rows[l].score /\ rows[k].count # rows[l].count

RowsOf(table, t) == [k \in {k \in DOMAIN table : k[1] = t} |-> table[k]]

\* A ticker is reported again only if its rows differ from those behind the
\* state file, or two of its rows tie and the database returned the other one
\* first ("prevents re-generating PDFs for unchanged clusters").
QuietWhenUnchanged ==
    [][pc = "diff" => \A t \in todo' : Tied(t) \/ RowsOf(seen, t) # RowsOf(rows, t)]_vars

\* Every cluster is reported in the end, or its report was lost to a failure
\* between the save and the report: failures before the save, a file cut off
\* and rows another job upserted only delay it.
ClustersReported ==
    <>[](\A k \in DOMAIN rows : Key(k) \in (DOMAIN told \cup lost) \ DOMAIN due)

\* Claimed of _diff: an insider who joins makes the cluster reportable.  Once
\* the count score is full, the row with the new insider ties with the row
\* without, and the older one may be taken for the cluster.
NewInsiderFlagged ==
    [][Diff => \A k \in DOMAIN rows :
            (\A l \in DOMAIN seen : Key(l) = Key(k) => seen[l].count < rows[k].count)
                => k[1] \in todo']_vars

=============================================================================
