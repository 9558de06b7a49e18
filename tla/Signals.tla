------------------------------- MODULE Signals -------------------------------
(***************************************************************************)
(* From stored trades to a verdict: detect_clusters upserts the clusters   *)
(* of one ticker, calculate_outcomes enters each on the first session      *)
(* after everything backing it was public and leaves it a number of        *)
(* sessions later, compute_base_rate judges the sample.  Filings and       *)
(* prices arrive meanwhile, out of order, and jobs overlap: the cron job   *)
(* over all of history and the daily report over its rolling window.       *)
(*                                                                         *)
(* A price is the day it was printed on: what returns can get wrong is     *)
(* which days they are taken from.  NoDay is a missing price.              *)
(***************************************************************************)
EXTENDS Clusters, TLC

CONSTANTS
    Filing,     \* BUY trades: [ins, day, pub, out], see below
    Archive,    \* those stored when the model begins,
    FirstDay,   \* and its first day
    LastDay,    \* bound: the last day of the model
    Session,    \* days the exchange opens
    Halted,     \* sessions on which the stock does not trade
    LoadFrom,   \* how many days back a price load may reach (--days)
    Horizon,    \* signals.returns.horizons
    MaxGap,     \* _MAX_SESSION_GAP_DAYS
    Need,       \* min_signals_for_verdict
    Job,        \* processes
    Mode        \* Mode[j]: "history" or "live"

NoDay == 0
Day == 1..LastDay

\* Instants are half days of UTC, the second one from 21:00 on, which is
\* already the next day in Istanbul.
LocalDay(t) == (t + 1) \div 2

\* A trade has the published_at of its disclosure (pub) and the instant it was
\* made public itself (out), which no column holds: a trade that an in-place
\* correction adds gets the instant of the first version, since the upsert
\* leaves published_at alone.  corrects_disclosure_id is never written.
Corrected(f) == f.pub < f.out

ASSUME DaysAssumption ==
    /\ LastDay \in Nat /\ FirstDay \in Day
    /\ Session \subseteq Day /\ Halted \subseteq Session
ASSUME FilingAssumption ==
    /\ Filing \subseteq [ins : Insider, day : Day, pub : Nat \ {0}, out : Nat \ {0}]
    /\ \A f \in Filing : f.pub <= f.out
ASSUME ArchiveAssumption ==
    Archive \subseteq Filing /\ \A f \in Archive : LocalDay(f.out) <= FirstDay
ASSUME HorizonAssumption ==
    Horizon \subseteq Nat \ {0} /\ IsFiniteSet(Horizon) /\ Horizon # {}
ASSUME ModeAssumption == Mode \in [Job -> {"history", "live"}]

VARIABLES
    today,
    stored,     \* trades in the database
    stock,      \* days of the stock's rows in price_history
    bench,      \* days of the benchmark's
    clusters,   \* insider_clusters: window -> insiders
    outcomes,   \* signal_outcomes: <<window, horizon>> -> days of its prices
    job         \* what each process holds

tables == <<clusters, outcomes>>
world == <<today, stored, stock, bench>>
vars == <<world, tables, job>>

Windows == {w \in Day \X Day : w[1] <= w[2]}

\* An empty table.
NoRows == [x \in {} |-> {}]

\* Nothing in hand: the window and horizon that are priced, and the days of
\* the prices read so far.
NoHand == [w |-> <<NoDay, NoDay>>, h |-> 0, entry |-> NoDay, exit |-> NoDay, bench |-> NoDay]

Idle == [pc |-> "idle", buys |-> {}, signal |-> NoRows, todo |-> {}, left |-> {},
         hand |-> NoHand, batch |-> NoRows, scored |-> 0, verdict |-> "none"]

Init ==
    /\ today = FirstDay
    /\ stored = Archive
    /\ stock = {} /\ bench = {}
    /\ clusters = NoRows /\ outcomes = NoRows
    /\ job = [j \in Job |-> Idle]

-----------------------------------------------------------------------------
(* Filings and prices *)

NextDay ==
    /\ today < LastDay
    /\ today' = today + 1
    /\ UNCHANGED <<stored, stock, bench, tables, job>>

\* The ingest stores a trade, with its disclosure or a correction of it, at any
\* time after it was made public.
StoreFiling(f) ==
    /\ LocalDay(f.out) <= today
    /\ stored' = stored \cup {f}
    /\ UNCHANGED <<today, stock, bench, tables, job>>

\* What the vendor has for the days asked for, today included: the sessions.
Printed(back) == Session \cap (today - back)..today

\* One batch of `prices backfill`, committed on its own; the benchmark's comes
\* last.
LoadStock(back) ==
    /\ stock' = stock \cup (Printed(back) \ Halted)
    /\ UNCHANGED <<today, stored, bench, tables, job>>

LoadBench(back) ==
    /\ bench' = bench \cup Printed(back)
    /\ UNCHANGED <<today, stored, stock, tables, job>>

-----------------------------------------------------------------------------
(* detect_clusters *)

\* The SELECT over the BUY trades: of all history, or as of today.
SelectBuys(j) ==
    /\ job[j].pc = "idle"
    /\ job' = [job EXCEPT ![j] =
                [Idle EXCEPT !.pc = "upsert", !.buys = Selected(stored, Mode[j], today)]]
    /\ UNCHANGED <<world, tables>>

\* Mutant: ON CONFLICT DO NOTHING.
UpsertKeepingOld(rows, new) == rows @@ new

\* ON CONFLICT (ticker, window_start, window_end) DO UPDATE.
Upsert(rows, new) ==
    [k \in DOMAIN rows \cup DOMAIN new |-> IF k \in DOMAIN new THEN new[k] ELSE rows[k]]

\* The upserts and their commit; rows of windows that no longer form stay.
UpsertClusters(j) ==
    /\ job[j].pc = "upsert"
    /\ LET events == FindClusterEvents(job[j].buys)
       IN /\ clusters' = Upsert(clusters, events)
          /\ job' = [job EXCEPT ![j].pc = "resolve", ![j].buys = {},
                                ![j].todo = DOMAIN events]
    /\ UNCHANGED <<world, outcomes>>

-----------------------------------------------------------------------------
(* calculate_outcomes *)

\* The filings with a trade in the window, in the database as it is now.
Backing(w) == {f \in stored : w[1] <= f.day /\ f.day <= w[2]}

\* Mutant: the first of the disclosures makes the cluster public.
SignalDayOfFirst(w) == Min({LocalDay(f.pub) : f \in Backing(w)})

\* look_ahead_safe_signal_date: the latest disclosure, as a day in Istanbul.
SignalDay(w) == Max({LocalDay(f.pub) : f \in Backing(w)})

\* resolve_cluster_signal_dates, for every cluster detect_clusters returned.
ResolveDates(j) ==
    /\ job[j].pc = "resolve"
    /\ job' = [job EXCEPT ![j].pc = "price",
                          ![j].signal = [w \in {w \in job[j].todo : Backing(w) # {}} |-> SignalDay(w)]]
    /\ UNCHANGED <<world, tables>>

\* The n-th row after a day, unless the first is too far to be the next
\* session.  The code reads the two in two statements; rows are only added, so
\* what it gets is what one statement would get at the time of one of them.
After(days, from, n) ==
    LET later == {d \in days : d > from}
    IN IF Cardinality(later) < n \/ later = {} \/ Min(later) - from > MaxGap
       THEN NoDay
       ELSE CHOOSE d \in later : Cardinality({e \in later : e <= d}) = n

\* The last row on or before a day, however old.
OnOrBefore(days, d) == Max({e \in days : e <= d} \cup {NoDay})

\* The guard on malformed data, which takes the whole session back, and then
\* the entry price; a window without a signal day is skipped.
EnterCluster(j, w) ==
    /\ job[j].pc = "price"
    /\ IF w \notin DOMAIN job[j].signal
       THEN job' = [job EXCEPT ![j] = [job[j] EXCEPT !.todo = @ \ {w}]]
       ELSE IF job[j].signal[w] < w[2]
       THEN job' = [job EXCEPT ![j] = Idle]
       ELSE job' = [job EXCEPT ![j] =
                [job[j] EXCEPT !.pc = "exit", !.todo = @ \ {w}, !.left = Horizon,
                               !.hand = [NoHand EXCEPT
                                  !.w = w, !.entry = After(stock, job[j].signal[w], 1)]]]
    /\ UNCHANGED <<world, tables>>

\* Mutant: the horizon is counted from the signal day.
ExitOffsetFromSignal(h) == h

\* entry_exit_offsets.
ExitOffset(h) == 1 + h

\* A row of signal_outcomes; the signal day is only logged with it.
Row(signal, entry, exit, benchEntry, benchExit) ==
    [signal |-> signal, entry |-> entry, exit |-> exit,
     benchEntry |-> benchEntry, benchExit |-> benchExit]

\* The upsert, not yet committed; then the next horizon, or the next cluster.
Recorded(x, h, row) ==
    [x EXCEPT !.pc = IF x.left = {h} THEN "price" ELSE "exit",
              !.left = @ \ {h},
              !.hand = IF x.left = {h} THEN NoHand
                       ELSE [NoHand EXCEPT !.w = x.hand.w, !.entry = x.hand.entry],
              !.batch = Upsert(@, [k \in {<<x.hand.w, h>>} |-> row])]

\* One horizon: the exit price, read where there was an entry.  Without an exit
\* the benchmark is not read.
ReadExit(j, h) ==
    LET x == job[j]
        signal == x.signal[x.hand.w]
        exit == IF x.hand.entry = NoDay THEN NoDay ELSE After(stock, signal, ExitOffset(h))
    IN /\ x.pc = "exit"
       /\ h \in x.left
       /\ job' = [job EXCEPT ![j] =
            IF exit = NoDay
            THEN Recorded(x, h, Row(signal, x.hand.entry, NoDay, NoDay, NoDay))
            ELSE [x EXCEPT !.pc = "benchEntry", !.hand.h = h, !.hand.exit = exit]]
       /\ UNCHANGED <<world, tables>>

\* The benchmark on the position's own days, in two statements more.
ReadBenchEntry(j) ==
    LET x == job[j]
    IN /\ x.pc = "benchEntry"
       /\ job' = [job EXCEPT ![j] =
            [x EXCEPT !.pc = "benchExit", !.hand.bench = OnOrBefore(bench, x.hand.entry)]]
       /\ UNCHANGED <<world, tables>>

ReadBenchExit(j) ==
    LET x == job[j]
    IN /\ x.pc = "benchExit"
       /\ job' = [job EXCEPT ![j] =
            Recorded(x, x.hand.h, Row(x.signal[x.hand.w], x.hand.entry, x.hand.exit,
                                      x.hand.bench, OnOrBefore(bench, x.hand.exit)))]
       /\ UNCHANGED <<world, tables>>

\* The session commits; the report goes on to the base rate.
CommitOutcomes(j) ==
    /\ job[j].pc = "price"
    /\ job[j].todo = {}
    /\ outcomes' = Upsert(outcomes, job[j].batch)
    /\ job' = [job EXCEPT ![j] =
                [Idle EXCEPT !.pc = IF Mode[j] = "live" THEN "rate" ELSE "idle"]]
    /\ UNCHANGED <<world, clusters>>

-----------------------------------------------------------------------------
(* compute_base_rate *)

\* An outcome with an abnormal return.
Scored(o) == o.benchEntry # NoDay /\ o.benchExit # NoDay

ScoredRows(h) == {k \in DOMAIN outcomes : k[2] = h /\ Scored(outcomes[k])}

\* The first session: the rows with an outcome.
ReadRows(j, h) ==
    /\ job[j].pc = "rate"
    /\ job' = [job EXCEPT ![j].pc = "verdict", ![j].scored = Cardinality(ScoredRows(h))]
    /\ UNCHANGED <<world, tables>>

\* The second session: every cluster.
TotalClusters == Cardinality(DOMAIN clusters)

\* The gates in their order; past them the statistics claim something:
\* an edge, none, or a negative one.
Verdict(n, total) ==
    IF n = 0 THEN "none"
    ELSE IF 10 * (total - n) > total THEN "none"
    ELSE IF n < Need THEN "none"
    ELSE "claim"

GiveVerdict(j) ==
    /\ job[j].pc = "verdict"
    /\ job' = [job EXCEPT ![j] =
                [Idle EXCEPT !.verdict = Verdict(job[j].scored, TotalClusters)]]
    /\ UNCHANGED <<world, tables>>

\* A process dies and its open transaction is taken back.  Bound: none does on
\* the last day.
Kill(j) ==
    /\ job[j].pc # "idle"
    /\ today < LastDay
    /\ job' = [job EXCEPT ![j] = Idle]
    /\ UNCHANGED <<world, tables>>

-----------------------------------------------------------------------------

JobStep(j) ==
    \/ SelectBuys(j)
    \/ UpsertClusters(j)
    \/ ResolveDates(j)
    \/ \E w \in job[j].todo : EnterCluster(j, w)
    \/ \E h \in job[j].left : ReadExit(j, h)
    \/ ReadBenchEntry(j)
    \/ ReadBenchExit(j)
    \/ CommitOutcomes(j)
    \/ \E h \in Horizon : ReadRows(j, h)
    \/ GiveVerdict(j)

Next ==
    \/ NextDay
    \/ \E f \in Filing \ stored : StoreFiling(f)
    \/ \E back \in LoadFrom : LoadStock(back) \/ LoadBench(back)
    \/ \E j \in Job : JobStep(j) \/ Kill(j)

Spec == Init /\ [][Next]_vars

\* Time passes; a job that runs goes on, and is started again by cron or by its
\* operator.
FairSpec == Spec /\ WF_vars(NextDay) /\ \A j \in Job : WF_vars(JobStep(j))

-----------------------------------------------------------------------------
(* Properties *)

OutcomeType == [signal : Day, entry : 0..LastDay, exit : 0..LastDay,
                benchEntry : 0..LastDay, benchExit : 0..LastDay]

IsTable(f, keys, values) == DOMAIN f \subseteq keys /\ \A k \in DOMAIN f : f[k] \in values

TypeOK ==
    /\ today \in Day
    /\ stored \subseteq Filing
    /\ stock \subseteq Session /\ bench \subseteq Session
    /\ IsTable(clusters, Windows, SUBSET Insider)
    /\ IsTable(outcomes, Windows \X Horizon, OutcomeType)
    /\ \A j \in Job :
        /\ job[j].pc \in {"idle", "upsert", "resolve", "price", "exit", "benchEntry",
                         "benchExit", "rate", "verdict"}
        /\ job[j].buys \subseteq Filing
        /\ IsTable(job[j].signal, Windows, Day)
        /\ job[j].todo \subseteq Windows
        /\ IsTable(job[j].batch, Windows \X Horizon, OutcomeType)

\* No position is entered on news that was not public the day before, or
\* before the last trade it rests on: as many insiders as make a cluster had
\* disclosed trades in its window before the entry, however late filings are
\* stored and whatever jobs overlap (entry_timing, and the guard of
\* calculate_outcomes).  Trades that an in-place correction added count among
\* them, public or not: their instant cannot be recovered from stored fields
\* (entry_timing: "Known pipeline caveat").
NoLookAhead ==
    \A k \in DOMAIN outcomes : outcomes[k].entry # NoDay =>
        LET public == {f \in Backing(k[1]) : LocalDay(f.out) < outcomes[k].entry}
            corrected == {f \in Backing(k[1]) : Corrected(f)}
        IN /\ k[1][2] < outcomes[k].entry
           /\ Cardinality(Insiders(public \cup corrected)) >= MinCount

\* The same without the caveat: false, since a correction that completes a
\* cluster dates it by the first version of its disclosure.
NoLookAheadAtAll ==
    \A k \in DOMAIN outcomes : outcomes[k].entry # NoDay =>
        Cardinality(Insiders({f \in Backing(k[1]) : LocalDay(f.out) < outcomes[k].entry})) >= MinCount

\* Every recorded cluster was one: its row names at least MinCount insiders,
\* all with a trade in the window, one of them on its last day.
ClustersAreReal ==
    \A w \in DOMAIN clusters :
        /\ Cardinality(clusters[w]) >= MinCount
        /\ clusters[w] \subseteq Insiders(Backing(w))
        /\ \E f \in Backing(w) : f.day = w[2]

\* A row of the stock before the entry that was not there when the entry was
\* read: a load has filled a hole since.
HoleFilled(o) == \E d \in stock : o.signal < d /\ d < o.entry

\* Prices arrive between the reads of calculate_outcomes and between its runs.
\* Each benchmark leg is a price of its day or before; and a position is left
\* after it was entered, its benchmark held neither backwards nor on one side
\* only, unless it was entered on the far side of a hole that a load has filled
\* since; and every variable has its type.
LegsInOrder ==
    TypeOK /\ \A k \in DOMAIN outcomes :
        LET o == outcomes[k]
        IN /\ o.benchEntry <= o.entry /\ o.benchExit <= o.exit
           /\ o.exit # NoDay =>
                /\ o.entry # NoDay
                /\ HoleFilled(o) \/ (o.entry < o.exit /\ o.benchEntry <= o.benchExit)

\* Claimed of calculate_outcomes: a scored position and its benchmark span the
\* same held interval (returns.py).  The benchmark's last row is taken however
\* old it is, so a load that has stored the stock and not the benchmark, its
\* last batch, yields a return over fewer days, or over none.
SameInterval ==
    \A k \in DOMAIN outcomes : Scored(outcomes[k]) =>
        /\ outcomes[k].benchEntry = outcomes[k].entry
        /\ outcomes[k].benchExit = outcomes[k].exit

\* The outcome the prices of the moment call for.
Outcome(signal, h) ==
    LET entry == After(stock, signal, 1)
        exit == IF entry = NoDay THEN NoDay ELSE After(stock, signal, ExitOffset(h))
    IN Row(signal, entry, exit,
           IF exit = NoDay THEN NoDay ELSE OnOrBefore(bench, entry),
           IF exit = NoDay THEN NoDay ELSE OnOrBefore(bench, exit))

\* Every event the stored trades form has a row with exactly its insiders,
\* every row's outcome was entered at the session the prices call for, and the
\* sample a verdict is about to be given on is the one in the table.
UpToDate ==
    LET events == FindClusterEvents(stored)
    IN /\ \A w \in DOMAIN events :
            /\ w \in DOMAIN clusters /\ clusters[w] = events[w]
            /\ \A h \in Horizon : /\ <<w, h>> \in DOMAIN outcomes
                                  /\ outcomes[<<w, h>>] = Outcome(SignalDay(w), h)
       /\ \A j \in Job : job[j].pc = "verdict" =>
            \E h \in Horizon : job[j].scored = Cardinality(ScoredRows(h))

Malformed == \E w \in DOMAIN FindClusterEvents(stored) : SignalDay(w) < w[2]

\* Late filings and prices are caught up with: once they stop arriving, the
\* tables and the verdict's sample agree with what is stored, stale jobs, filled
\* holes and kills notwithstanding, unless a malformed filing stops every calculation (its AssertionError).
CatchesUp == <>[](Malformed \/ UpToDate)

=============================================================================
