----------------------------- MODULE KapIngest ------------------------------
(***************************************************************************)
(* The KAP insider ingest: concurrent runs of KapInsiderScraper (the daily *)
(* scrape, the backfill) and the offline quarantine repair, over one       *)
(* database and one quarantine directory.                                  *)
(*                                                                         *)
(* A disclosure d on KAP has versions 1..MaxVer: 1 is the filing, a higher *)
(* one its in-place corrections; 0 stands for "absent" wherever a version  *)
(* is kept.  A filing <<d, v>> reports a set of trades, known by the       *)
(* natural key under which kap_insider_transactions stores them.           *)
(***************************************************************************)
EXTENDS Integers, FiniteSets, Sums

CONSTANTS
    Run,              \* scraper runs, each one a call of KapInsiderScraper.run
    Disc,             \* disclosure ids of the window the runs ask for
    NoDisc,           \* "no disclosure in flight"
    MaxVer,           \* bound: versions of a disclosure on KAP
    Key,              \* natural keys of trades
    Trades,           \* Trades[f]: the trades filing f reports
    NoPdf,            \* filings published without a usable attachment
    Unreadable,       \* filings the deployed parser reads no trade from
    Fixable,          \* the ones an improved parser reads
    ListFlagsChange,  \* do list items carry the change flag _ingest_one looks for?
    Overlap           \* may a run start while another is under way?

Version == 1..MaxVer
Filing == Disc \X Version

ASSUME BoundAssumption == MaxVer \in Nat \ {0}
ASSUME NoDiscAssumption == NoDisc \notin Disc
ASSUME TradesAssumption ==
    /\ Trades \in [Filing -> SUBSET Key]
    /\ \A f \in Filing : IsFiniteSet(Trades[f])
ASSUME FilingsAssumption ==
    /\ NoPdf \subseteq Filing
    /\ Unreadable \subseteq Filing
    /\ Fixable \subseteq Unreadable
    /\ ListFlagsChange \in BOOLEAN
    /\ Overlap \in BOOLEAN

VARIABLES
    kap,       \* kap[d]: version of d on KAP now
    improved,  \* has the improved parser been deployed?
    row,       \* row[d]: version kept in kap_disclosures
    txs,       \* kap_insider_transactions, as <<disclosure, natural key>>
    emptyId,   \* does kap_disclosures have a row with the empty id?
    file,      \* file[d]: version whose PDF is reports/parse_failures/{d}.pdf
    cut,       \* the disclosures whose file there was cut off while written
    status,    \* status[r]: the scraper_runs row of r
    pc,        \* pc[r]: where run r stands
    parser,    \* parser[r]: was the improved parser loaded when r started?
    listed,    \* listed[r][d]: version of d when r listed it, 0 if not listed
    known,     \* known[r]: the already_stored snapshot
    todo,      \* todo[r]: disclosures the current sweep has still to visit
    deferred,  \* deferred[r]: disclosures that failed in the current sweep
    retried,   \* retried[r]: has the cooldown round begun?
    cur,       \* cur[r]: disclosure in flight in _ingest_one
    got,       \* got[r]: its version when the detail was fetched, 0 for a blank one
    blank,     \* blank[r]: disclosures whose detail came back blank (history)
    count,     \* count[r]: the _Counts of r
    repair,    \* the reparse_quarantine process
    repaired   \* transactions it has inserted so far

worldVars == <<kap, improved>>
storeVars == <<row, txs, emptyId, file, cut>>
loopVars == <<todo, deferred, retried>>
flightVars == <<cur, got>>
runVars == <<status, pc, parser, listed, known, loopVars, flightVars, blank, count>>
repairVars == <<repair, repaired>>
vars == <<worldVars, storeVars, runVars, repairVars>>

-----------------------------------------------------------------------------
(* Helpers *)

Listed(r) == {d \in Disc : listed[r][d] # 0}
Stored == {d \in Disc : row[d] # 0}

\* How many rows kap_disclosures has.
Rows == Cardinality(Stored) + IF emptyId THEN 1 ELSE 0

\* What the parser reads from a filing's PDF; an improved one reads more.
Parse(f, better) ==
    IF f \in NoPdf \/ (f \in Unreadable /\ ~(better /\ f \in Fixable))
    THEN {}
    ELSE Trades[f]

\* The trades parsed for the disclosure run r has in flight; a blank detail
\* names no attachment.
Parsed(r) == IF got[r] = 0 THEN {} ELSE Parse(<<cur[r], got[r]>>, parser[r])

\* Does the quarantine get the PDF run r has in flight?
Quarantined(r) == Parsed(r) = {} /\ <<cur[r], got[r]>> \notin NoPdf

\* _ingest_one's is_correction, read off the list item.
IsCorrection(r, d) == ListFlagsChange /\ listed[r][d] > 1

\* The early return of _ingest_one.
Skippable(r, d) == d \in known[r] /\ ~IsCorrection(r, d)

ZeroCount == [inserted |-> 0, updated |-> 0, skipped |-> 0, empty_dkb |-> 0]
IdleRepair == [pc |-> "idle", better |-> FALSE, todo |-> {}, cur |-> NoDisc, got |-> 0]

Init ==
    /\ kap = [d \in Disc |-> 0]
    /\ improved = FALSE
    /\ row = [d \in Disc |-> 0]
    /\ txs = {}
    /\ emptyId = FALSE
    /\ file = [d \in Disc |-> 0]
    /\ cut = {}
    /\ status = [r \in Run |-> "none"]
    /\ pc = [r \in Run |-> "idle"]
    /\ parser = [r \in Run |-> FALSE]
    /\ listed = [r \in Run |-> [d \in Disc |-> 0]]
    /\ known = [r \in Run |-> {}]
    /\ todo = [r \in Run |-> {}]
    /\ deferred = [r \in Run |-> {}]
    /\ retried = [r \in Run |-> FALSE]
    /\ cur = [r \in Run |-> NoDisc]
    /\ got = [r \in Run |-> 0]
    /\ blank = [r \in Run |-> {}]
    /\ count = [r \in Run |-> ZeroCount]
    /\ repair = IdleRepair
    /\ repaired = 0

-----------------------------------------------------------------------------
(* The world outside: KAP publishes and corrects, an operator deploys.      *)

Publish(d) ==
    /\ kap[d] < MaxVer
    /\ kap' = [kap EXCEPT ![d] = kap[d] + 1]
    /\ UNCHANGED <<improved, storeVars, runVars, repairVars>>

\* (A parser that reads no more than the first one is not worth a step.)
DeployParser ==
    /\ ~improved
    /\ Fixable # {}
    /\ improved' = TRUE
    /\ UNCHANGED <<kap, storeVars, runVars, repairVars>>

-----------------------------------------------------------------------------
(* KapInsiderScraper.run *)

\* The audit row is created before anything is asked of KAP.
Start(r) ==
    /\ pc[r] = "idle"
    /\ Overlap \/ \A q \in Run : pc[q] \in {"idle", "done", "dead"}
    /\ status' = [status EXCEPT ![r] = "RUNNING"]
    /\ pc' = [pc EXCEPT ![r] = "listing"]
    /\ parser' = [parser EXCEPT ![r] = improved]
    /\ UNCHANGED <<worldVars, storeVars, listed, known, loopVars, flightVars, blank, count, repairVars>>

\* warmup and fetch_disclosure_list (see ListFetch for how the list is obtained).
FetchList(r) ==
    /\ pc[r] = "listing"
    /\ listed' = [listed EXCEPT ![r] = kap]
    /\ pc' = [pc EXCEPT ![r] = "snapshot"]
    /\ UNCHANGED <<worldVars, storeVars, status, parser, known, loopVars, flightVars, blank, count, repairVars>>

\* Mutant: the snapshot is not restricted to what the table holds.
SnapshotOfEverything(r) ==
    /\ pc[r] = "snapshot"
    /\ known' = [known EXCEPT ![r] = Listed(r)]
    /\ todo' = [todo EXCEPT ![r] = Listed(r)]
    /\ pc' = [pc EXCEPT ![r] = "loop"]
    /\ UNCHANGED <<worldVars, storeVars, status, parser, listed, deferred, retried, flightVars, blank, count,
                   repairVars>>

\* _already_stored: one query, taken once, for the whole window.
Snapshot(r) ==
    /\ pc[r] = "snapshot"
    /\ known' = [known EXCEPT ![r] = Listed(r) \cap Stored]
    /\ todo' = [todo EXCEPT ![r] = Listed(r)]
    /\ pc' = [pc EXCEPT ![r] = "loop"]
    /\ UNCHANGED <<worldVars, storeVars, status, parser, listed, deferred, retried, flightVars, blank, count,
                   repairVars>>

\* Warmup, list or snapshot raised: the row is closed FAILED and the error re-raised.
Fail(r) ==
    /\ pc[r] \in {"listing", "snapshot"}
    /\ status' = [status EXCEPT ![r] = "FAILED"]
    /\ pc' = [pc EXCEPT ![r] = "done"]
    /\ UNCHANGED <<worldVars, storeVars, parser, listed, known, loopVars, flightVars, blank, count, repairVars>>

\* Already stored and not a correction: counted and left alone.
Skip(r, d) ==
    /\ pc[r] = "loop"
    /\ d \in todo[r]
    /\ Skippable(r, d)
    /\ todo' = [todo EXCEPT ![r] = @ \ {d}]
    /\ count' = [count EXCEPT ![r].skipped = @ + 1]
    /\ UNCHANGED <<worldVars, storeVars, status, pc, parser, listed, known, deferred, retried, flightVars,
                   blank, repairVars>>

\* fetch_disclosure_detail answers with the version KAP holds now.
FetchDetail(r, d) ==
    /\ pc[r] = "loop"
    /\ d \in todo[r]
    /\ ~Skippable(r, d)
    /\ cur' = [cur EXCEPT ![r] = d]
    /\ got' = [got EXCEPT ![r] = kap[d]]
    /\ todo' = [todo EXCEPT ![r] = @ \ {d}]
    /\ pc' = [pc EXCEPT ![r] = "pdf"]
    /\ UNCHANGED <<worldVars, storeVars, status, parser, listed, known, deferred, retried, blank, count, repairVars>>

\* An answer that is an empty list, or an object without a disclosure: no
\* attachment to fetch, nothing to quarantine, and the id to store under is "".
FetchBlank(r, d) ==
    /\ pc[r] = "loop"
    /\ d \in todo[r]
    /\ ~Skippable(r, d)
    /\ cur' = [cur EXCEPT ![r] = d]
    /\ blank' = [blank EXCEPT ![r] = @ \cup {d}]
    /\ count' = [count EXCEPT ![r].empty_dkb = @ + 1]
    /\ todo' = [todo EXCEPT ![r] = @ \ {d}]
    /\ pc' = [pc EXCEPT ![r] = "store"]
    /\ UNCHANGED <<worldVars, storeVars, status, parser, listed, known, deferred, retried, got, repairVars>>

\* write_bytes opens the file, which empties it, and then writes: the file that
\* was there is gone whether the new one is completed or not.
WriteWhole(r) ==
    /\ file' = [file EXCEPT ![cur[r]] = got[r]]
    /\ cut' = cut \ {cur[r]}
    /\ UNCHANGED <<row, txs, emptyId>>

WriteCut(r) ==
    /\ file' = [file EXCEPT ![cur[r]] = got[r]]
    /\ cut' = cut \cup {cur[r]}
    /\ UNCHANGED <<row, txs, emptyId>>

\* The PDF is downloaded and parsed; one that yields no trade is counted and
\* its bytes are written to the quarantine, before the database is touched.
FetchPdf(r) ==
    /\ pc[r] = "pdf"
    /\ pc' = [pc EXCEPT ![r] = "store"]
    /\ count' = [count EXCEPT ![r].empty_dkb = @ + IF Parsed(r) = {} THEN 1 ELSE 0]
    /\ IF Quarantined(r) THEN WriteWhole(r) ELSE UNCHANGED storeVars
    /\ UNCHANGED <<worldVars, status, parser, listed, known, loopVars, flightVars, blank, repairVars>>

\* upsert_disclosure and upsert_transactions in one database transaction: the
\* row takes the fetched version, trades are added, none is ever removed.  A
\* blank detail has the id "" and makes, or refreshes, the row of that id.
CommitFiling(r) ==
    /\ row' = IF got[r] = 0 THEN row ELSE [row EXCEPT ![cur[r]] = got[r]]
    /\ emptyId' = (emptyId \/ got[r] = 0)
    /\ txs' = txs \cup ({cur[r]} \X Parsed(r))
    /\ UNCHANGED <<file, cut>>

\* ingested_at = updated_at: the upsert made the row.
Created(r) == IF got[r] = 0 THEN ~emptyId ELSE row[cur[r]] = 0

NewTrades(d, keys) == Cardinality(({d} \X keys) \ txs)

\* Mutant: the disclosure that landed, or failed, stays the current one.
LandInPlace(r) ==
    /\ pc' = [pc EXCEPT ![r] = "loop"]
    /\ UNCHANGED flightVars

Land(r) ==
    /\ pc' = [pc EXCEPT ![r] = "loop"]
    /\ cur' = [cur EXCEPT ![r] = NoDisc]
    /\ got' = [got EXCEPT ![r] = 0]

\* Mutant: "created" is read off the snapshot instead of the row.
StoreCountedBySnapshot(r) ==
    /\ pc[r] = "store"
    /\ CommitFiling(r)
    /\ LET created == cur[r] \notin known[r]
       IN count' = [count EXCEPT
             ![r].inserted = @ + NewTrades(cur[r], Parsed(r)) + IF created THEN 1 ELSE 0,
             ![r].updated = @ + IF created THEN 0 ELSE 1]
    /\ Land(r)
    /\ UNCHANGED <<worldVars, status, parser, listed, known, loopVars, blank, repairVars>>

\* The transaction commits and _ingest_one returns: created rows and new
\* trades share one counter.
Store(r) ==
    /\ pc[r] = "store"
    /\ CommitFiling(r)
    /\ count' = [count EXCEPT
          ![r].inserted = @ + NewTrades(cur[r], Parsed(r)) + IF Created(r) THEN 1 ELSE 0,
          ![r].updated = @ + IF Created(r) THEN 0 ELSE 1]
    /\ Land(r)
    /\ UNCHANGED <<worldVars, status, parser, listed, known, loopVars, blank, repairVars>>

\* Mutant: a failing disclosure is logged and forgotten.
DropDetail(r, d) ==
    /\ pc[r] = "loop"
    /\ d \in todo[r]
    /\ ~Skippable(r, d)
    /\ todo' = [todo EXCEPT ![r] = @ \ {d}]
    /\ UNCHANGED <<worldVars, storeVars, status, pc, parser, listed, known, deferred, retried, flightVars,
                   blank, count, repairVars>>

\* The detail request raised: the disclosure waits for the next sweep.
DeferDetail(r, d) ==
    /\ pc[r] = "loop"
    /\ d \in todo[r]
    /\ ~Skippable(r, d)
    /\ todo' = [todo EXCEPT ![r] = @ \ {d}]
    /\ deferred' = [deferred EXCEPT ![r] = @ \cup {d}]
    /\ UNCHANGED <<worldVars, storeVars, status, pc, parser, listed, known, retried, flightVars, blank, count,
                   repairVars>>

DeferCurrent(r) ==
    /\ deferred' = [deferred EXCEPT ![r] = @ \cup {cur[r]}]
    /\ Land(r)
    /\ UNCHANGED <<worldVars, status, parser, listed, known, todo, retried, blank, repairVars>>

\* The PDF request, or the database before its commit, raised.
DeferFlight(r) ==
    /\ pc[r] \in {"pdf", "store"}
    /\ DeferCurrent(r)
    /\ UNCHANGED <<storeVars, count>>

\* The quarantine file could not be opened, or not be written to the end; the
\* empty filing is counted already.
DeferQuarantine(r) ==
    /\ pc[r] = "pdf"
    /\ Quarantined(r)
    /\ UNCHANGED storeVars \/ WriteCut(r)
    /\ count' = [count EXCEPT ![r].empty_dkb = @ + 1]
    /\ DeferCurrent(r)

\* The commit took effect but its answer was lost: get_session raised.
DeferCommitted(r) ==
    /\ pc[r] = "store"
    /\ CommitFiling(r)
    /\ DeferCurrent(r)
    /\ UNCHANGED count

\* Mutant: the cooldown round sweeps the whole list again.
CooldownOfEverything(r) ==
    /\ pc[r] = "loop"
    /\ todo[r] = {}
    /\ deferred[r] # {}
    /\ ~retried[r]
    /\ todo' = [todo EXCEPT ![r] = Listed(r)]
    /\ deferred' = [deferred EXCEPT ![r] = {}]
    /\ retried' = [retried EXCEPT ![r] = TRUE]
    /\ UNCHANGED <<worldVars, storeVars, status, pc, parser, listed, known, flightVars, blank, count, repairVars>>

\* The one cooldown round: what was deferred is swept again, once.
Cooldown(r) ==
    /\ pc[r] = "loop"
    /\ todo[r] = {}
    /\ deferred[r] # {}
    /\ ~retried[r]
    /\ todo' = [todo EXCEPT ![r] = deferred[r]]
    /\ deferred' = [deferred EXCEPT ![r] = {}]
    /\ retried' = [retried EXCEPT ![r] = TRUE]
    /\ UNCHANGED <<worldVars, storeVars, status, pc, parser, listed, known, flightVars, blank, count, repairVars>>

\* Mutant: a run does not give up on what the cooldown round could not mend.
FinishWhenNothingLost(r) ==
    /\ pc[r] = "loop"
    /\ todo[r] = {}
    /\ deferred[r] = {}
    /\ status' = [status EXCEPT ![r] = "SUCCESS"]
    /\ pc' = [pc EXCEPT ![r] = "done"]
    /\ UNCHANGED <<worldVars, storeVars, parser, listed, known, loopVars, flightVars, blank, count, repairVars>>

\* Nothing left to sweep: SUCCESS if nothing was lost, PARTIAL otherwise.
Finish(r) ==
    /\ pc[r] = "loop"
    /\ todo[r] = {}
    /\ deferred[r] = {} \/ retried[r]
    /\ status' = [status EXCEPT ![r] = IF deferred[r] = {} THEN "SUCCESS" ELSE "PARTIAL"]
    /\ pc' = [pc EXCEPT ![r] = "done"]
    /\ UNCHANGED <<worldVars, storeVars, parser, listed, known, loopVars, flightVars, blank, count, repairVars>>

\* The process is killed, or wait_for cancels the run: CancelledError is no
\* Exception, so neither epilogue runs and the audit row stays RUNNING.
Abandon(r) ==
    /\ pc[r] \notin {"idle", "done", "dead"}
    /\ pc' = [pc EXCEPT ![r] = "dead"]
    /\ \/ UNCHANGED storeVars
       \/ pc[r] = "pdf" /\ Quarantined(r) /\ WriteCut(r)
       \/ pc[r] = "store" /\ CommitFiling(r)
    /\ UNCHANGED <<worldVars, status, parser, listed, known, loopVars, flightVars, blank, count, repairVars>>

-----------------------------------------------------------------------------
(* reparse_quarantine.main_async: one repair process, over and over *)

RepairStart ==
    /\ repair.pc = "idle"
    /\ \E d \in Disc : file[d] # 0
    /\ repair' = [pc |-> "loop", better |-> improved, todo |-> {d \in Disc : file[d] # 0},
                  cur |-> NoDisc, got |-> 0]
    /\ UNCHANGED <<worldVars, storeVars, runVars, repaired>>

\* A PDF without a row is an orphan, one that still fails to parse stays.  The
\* reader raises at a file that was cut off, and the process ends (RepairStop).
RepairKeep(d) ==
    /\ repair.pc = "loop"
    /\ d \in repair.todo
    /\ row[d] = 0 \/ (d \notin cut /\ Parse(<<d, file[d]>>, repair.better) = {})
    /\ repair' = [repair EXCEPT !.todo = @ \ {d}]
    /\ UNCHANGED <<worldVars, storeVars, runVars, repaired>>

\* Mutant: the file is removed as soon as its trades are parsed.
RepairReadAndUnlink(d) ==
    /\ repair.pc = "loop"
    /\ d \in repair.todo
    /\ row[d] # 0 /\ d \notin cut
    /\ Parse(<<d, file[d]>>, repair.better) # {}
    /\ repair' = [repair EXCEPT !.pc = "commit", !.todo = @ \ {d}, !.cur = d, !.got = file[d]]
    /\ file' = [file EXCEPT ![d] = 0]
    /\ UNCHANGED <<worldVars, row, txs, emptyId, cut, runVars, repaired>>

\* The bytes are read and parsed; the trades are still to be committed.
RepairRead(d) ==
    /\ repair.pc = "loop"
    /\ d \in repair.todo
    /\ row[d] # 0 /\ d \notin cut
    /\ Parse(<<d, file[d]>>, repair.better) # {}
    /\ repair' = [repair EXCEPT !.pc = "commit", !.todo = @ \ {d}, !.cur = d, !.got = file[d]]
    /\ UNCHANGED <<worldVars, storeVars, runVars, repaired>>

RepairCommit ==
    /\ repair.pc = "commit"
    /\ LET keys == Parse(<<repair.cur, repair.got>>, repair.better)
       IN /\ txs' = txs \cup ({repair.cur} \X keys)
          /\ repaired' = repaired + NewTrades(repair.cur, keys)
    /\ repair' = [repair EXCEPT !.pc = "unlink"]
    /\ UNCHANGED <<worldVars, row, emptyId, file, cut, runVars>>

\* The file is removed after the commit, whatever it holds by then.
RepairUnlink ==
    /\ repair.pc = "unlink"
    /\ file' = [file EXCEPT ![repair.cur] = 0]
    /\ cut' = cut \ {repair.cur}
    /\ repair' = [repair EXCEPT !.pc = "loop", !.cur = NoDisc, !.got = 0]
    /\ UNCHANGED <<worldVars, row, txs, emptyId, runVars, repaired>>

\* The process ends after its last file, or is killed at any point.
RepairStop ==
    /\ repair.pc # "idle"
    /\ repair' = IdleRepair
    /\ UNCHANGED <<worldVars, storeVars, runVars, repaired>>

-----------------------------------------------------------------------------

World == DeployParser \/ \E d \in Disc : Publish(d)

RunStep(r) ==
    \/ Start(r) \/ FetchList(r) \/ Snapshot(r) \/ Fail(r)
    \/ \E d \in Disc : Skip(r, d) \/ FetchDetail(r, d) \/ FetchBlank(r, d) \/ DeferDetail(r, d)
    \/ FetchPdf(r) \/ Store(r)
    \/ DeferFlight(r) \/ DeferQuarantine(r) \/ DeferCommitted(r)
    \/ Cooldown(r) \/ Finish(r)

Repair ==
    \/ RepairStart \/ RepairCommit \/ RepairUnlink \/ RepairStop
    \/ \E d \in Disc : RepairKeep(d) \/ RepairRead(d)

Next == World \/ Repair \/ \E r \in Run : RunStep(r) \/ Abandon(r)

Spec == Init /\ [][Next]_vars

\* A run that has started is never left waiting: every request is bounded by
\* the client's timeout and five attempts, and then answers or raises.
FairSpec == Spec /\ \A r \in Run : WF_vars(pc[r] # "idle" /\ RunStep(r))

-----------------------------------------------------------------------------
(* Properties *)

PC == {"idle", "listing", "snapshot", "loop", "pdf", "store", "done", "dead"}

WorldTypeOK ==
    /\ kap \in [Disc -> 0..MaxVer]
    /\ improved \in BOOLEAN

StoreTypeOK ==
    /\ row \in [Disc -> 0..MaxVer]
    /\ txs \in SUBSET (Disc \X Key)
    /\ emptyId \in BOOLEAN
    /\ file \in [Disc -> 0..MaxVer]
    /\ cut \in SUBSET {d \in Disc : file[d] # 0}

RunTypeOK ==
    /\ status \in [Run -> {"none", "RUNNING", "SUCCESS", "PARTIAL", "FAILED"}]
    /\ pc \in [Run -> PC]
    /\ parser \in [Run -> BOOLEAN]
    /\ listed \in [Run -> [Disc -> 0..MaxVer]]
    /\ known \in [Run -> SUBSET Disc]
    /\ todo \in [Run -> SUBSET Disc]
    /\ deferred \in [Run -> SUBSET Disc]
    /\ retried \in [Run -> BOOLEAN]
    /\ cur \in [Run -> Disc \cup {NoDisc}]
    /\ got \in [Run -> 0..MaxVer]
    /\ blank \in [Run -> SUBSET Disc]

CountTypeOK ==
    count \in [Run -> [inserted : Nat, updated : Nat, skipped : Nat, empty_dkb : Nat]]

RepairTypeOK ==
    /\ repair \in [pc : {"idle", "loop", "commit", "unlink"}, better : BOOLEAN,
                    todo : SUBSET Disc, cur : Disc \cup {NoDisc}, got : 0..MaxVer]
    /\ repaired \in Nat

\* A disclosure is in flight exactly where _ingest_one has fetched a detail.
FlightOK ==
    \A r \in Run :
        /\ pc[r] \in {"pdf", "store"} => cur[r] \in Disc
        /\ pc[r] = "pdf" => got[r] # 0
        /\ pc[r] = "store" /\ got[r] = 0 => cur[r] \in blank[r]
        /\ pc[r] \notin {"pdf", "store", "dead"} => cur[r] = NoDisc /\ got[r] = 0

TypeOK ==
    /\ WorldTypeOK /\ StoreTypeOK /\ RunTypeOK
    /\ CountTypeOK /\ RepairTypeOK /\ FlightOK

\* A run that says SUCCESS lost nothing but what KAP answered with a blank:
\* every other disclosure it listed is in kap_disclosures, whichever sweep,
\* retry or concurrent run stored it (the deferral and the PARTIAL downgrade of
\* KapInsiderScraper.run).
SuccessMeansStored ==
    \A r \in Run : status[r] = "SUCCESS" => Listed(r) \subseteq Stored \cup blank[r]

\* A stored disclosure is never left with neither trades nor evidence: it has
\* trades in the table, or a PDF in the quarantine (whole, unless its writing
\* was cut off), or its stored version was published without one (_ingest_one
\* writes the quarantine before the row, reparse_quarantine unlinks after the
\* commit, and both may meet the other's file).
EvidenceKept ==
    \A d \in Stored :
        \/ \E k \in Key : <<d, k>> \in txs
        \/ file[d] # 0
        \/ <<d, row[d]>> \in NoPdf

\* The audit counters never claim a row twice: what all runs and repairs
\* report as inserted is in the two tables, the row of blank details included,
\* however retries, overlapping runs and lost commit answers interleave
\* (created = ingested_at == updated_at, rowcount of ON CONFLICT DO NOTHING).
NothingCountedTwice ==
    SumOf([r \in Run |-> count[r].inserted]) + repaired
        <= Rows + Cardinality(txs)

\* The audit row adds up: a disclosure a finished run saw and did not lose was
\* counted as inserted, updated or skipped exactly once, retried or not.
AuditAddsUp ==
    \A r \in Run : status[r] \in {"SUCCESS", "PARTIAL"} =>
        LET handled == Cardinality(Listed(r)) - Cardinality(deferred[r])
        IN /\ count[r].updated + count[r].skipped <= handled
           /\ handled <= count[r].inserted + count[r].updated + count[r].skipped

\* A SUCCESS run leaves every disclosure it listed at least as new as it was
\* listed, blank answers excepted: corrections are re-fetched even though the
\* row exists, which _ingest_one decides by a field of the list item.
CorrectionTaken ==
    \A r \in Run : status[r] = "SUCCESS" =>
        \A d \in Listed(r) \ blank[r] : row[d] >= listed[r][d]

\* Every run that starts ends, closing its audit row, unless its process dies
\* or its deadline cancels it: one cooldown round, not one per failure.
RunsEnd ==
    \A r \in Run : status[r] = "RUNNING" ~> (status[r] # "RUNNING" \/ pc[r] = "dead")

\* The abstract ingest: what is stored, what each run promised, what KAP would
\* not answer, what the run says.
Audited == INSTANCE AuditedStore WITH
    stored <- Stored,
    promised <- [r \in Run |-> Listed(r)],
    unanswered <- blank

\* Every step of the ingest is a step of the abstract one: SUCCESS is written
\* only once the run's promise is kept.
AuditedSpec == Audited!AbstractSpec

=============================================================================
