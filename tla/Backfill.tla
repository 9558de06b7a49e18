------------------------------ MODULE Backfill ------------------------------
(***************************************************************************)
(* The archive backfill: one invocation after another of main_async, each  *)
(* sweeping the chunks the resume ledger does not call complete and then   *)
(* re-sweeping, in recovery passes, those it calls PARTIAL, while days     *)
(* pass and disclosures go on being filed.                                 *)
(*                                                                         *)
(* A chunk is <<from, to>>: a calendar month, cut off at the day of the    *)
(* launch, so that the last month is another chunk every day.  Of a run of *)
(* the scraper only its outcome is kept: what it leaves missing and the    *)
(* audit row it leaves behind (module KapIngest has the run itself, and    *)
(* shows what a SUCCESS row means; ListFetch, what a list may leave out).  *)
(***************************************************************************)
EXTENDS Integers, FiniteSets

CONSTANTS
    LastDay,     \* bound: the last day of the model
    Months,      \* the calendar: months as <<first day, last day>>
    MaxMissing,  \* bound: disclosures a day may be missing
    Attempts,    \* len(_WAF_BACKOFF_S) + 1
    Passes,      \* _RECOVERY_PASSES
    Deadline,    \* may a chunk exceed _CHUNK_DEADLINE_S?
    MaxKills     \* bound: kills of the process

Day == 1..LastDay

ASSUME BoundsAssumption ==
    /\ LastDay \in Nat \ {0}
    /\ MaxMissing \in Nat \ {0}
    /\ Attempts \in Nat \ {0}
    /\ Passes \in Nat \ {0}
    /\ Deadline \in BOOLEAN
    /\ MaxKills \in Nat
ASSUME MonthsAssumption ==
    /\ Months \subseteq (Nat \ {0}) \X (Nat \ {0})
    /\ \A m \in Months : m[1] <= m[2]
    /\ \A m, n \in Months : m # n => m[2] < n[1] \/ n[2] < m[1]

VARIABLES
    today,
    missing,    \* missing[d]: disclosures filed on day d and not in the database
    ledger,     \* ledger[c]: statuses of the scraper_runs rows of chunk c, but
                \* for FAILED, which nothing ever asks for
    early,      \* history: chunks whose last SUCCESS listed KAP on their last day
    hidden,     \* history: <<c, d>> if the last SUCCESS of chunk c was over answers
                \* that hid something filed on day d
    pc,         \* where the invocation stands
    end,        \* the day it was launched
    ordered,    \* the chunks it took on
    fresh,      \* those without a PARTIAL row, not yet swept
    stragglers, \* those with one, not yet swept
    chunk,      \* the chunk being run
    attempt,    \* its attempt
    listed,     \* the day the attempt listed KAP
    pass,       \* recovery passes begun
    remaining,  \* PARTIAL chunks at the start of the pass
    queue,      \* those the pass has still to run
    unheard,    \* history: chunks of this invocation that a TimeoutError ended
                \* without leaving a row anything asks for
    left,       \* PARTIAL chunks the final log line reports
    kills       \* kills so far

archiveVars == <<missing, ledger, early, hidden>>
sweepVars == <<ordered, fresh, stragglers>>
chunkVars == <<chunk, attempt, listed>>
passVars == <<pass, remaining, queue>>
vars == <<today, archiveVars, pc, end, sweepVars, chunkVars, passVars, unheard, left, kills>>

-----------------------------------------------------------------------------
(* generate_monthly_chunks *)

\* Mutant: the month under way is asked for whole.
WholeMonths(e) == {m \in Months : m[1] <= e}

\* The months begun by day e, the last of them cut off at e.
Chunks(e) == {<<m[1], IF m[2] <= e THEN m[2] ELSE e>> : m \in {n \in Months : n[1] <= e}}

Chunk == UNION {Chunks(e) : e \in Day}
NoChunk == <<0, 0>>

DaysOf(c) == c[1]..c[2]

\* _chunks_with_status: the chunks with any row of that status; rows are
\* never taken back.
ChunksWithStatus(s) == {c \in Chunk : s \in ledger[c]}

\* The chunks of this invocation that have a PARTIAL row.
Partials == ChunksWithStatus("PARTIAL") \cap ordered

\* The earliest of some chunks of one launch.
First(S) == CHOOSE c \in S : \A x \in S : c[1] <= x[1]

Init ==
    /\ today \in Day
    /\ missing \in [Day -> 0..MaxMissing]
    /\ \A d \in Day : d > today => missing[d] = 0
    /\ ledger = [c \in Chunk |-> {}]
    /\ early = {}
    /\ hidden = {}
    /\ pc = "off" /\ end = 0
    /\ ordered = {} /\ fresh = {} /\ stragglers = {}
    /\ chunk = NoChunk /\ attempt = 0 /\ listed = 0
    /\ pass = 0 /\ remaining = {} /\ queue = {}
    /\ unheard = {}
    /\ left = {}
    /\ kills = 0

\* The process ends, and with it all it knew.
Vanish ==
    /\ pc' = "off" /\ end' = 0
    /\ ordered' = {} /\ fresh' = {} /\ stragglers' = {}
    /\ chunk' = NoChunk /\ attempt' = 0 /\ listed' = 0
    /\ pass' = 0 /\ remaining' = {} /\ queue' = {}
    /\ unheard' = {}
    /\ left' = {}

NextDay ==
    /\ today < LastDay
    /\ today' = today + 1
    /\ UNCHANGED <<archiveVars, pc, end, sweepVars, chunkVars, passVars, unheard, left, kills>>

File ==
    /\ missing[today] < MaxMissing
    /\ missing' = [missing EXCEPT ![today] = @ + 1]
    /\ UNCHANGED <<today, ledger, early, hidden, pc, end, sweepVars, chunkVars, passVars, unheard, left, kills>>

\* Mutant: a PARTIAL chunk counts as done.
TodoSkippingPartials(forced) ==
    {c \in Chunks(today) : ledger[c] \cap {"SUCCESS", "PARTIAL"} = {} \/ c[1] \in forced}

\* What a launch takes on: every chunk that is not complete, or its month forced.
Todo(forced) == {c \in Chunks(today) : c \notin ChunksWithStatus("SUCCESS") \/ c[1] \in forced}

\* main_async reads the date and the ledger once; the untouched chunks go first.
Launch(forced) ==
    /\ pc \in {"off", "done"}
    /\ Todo(forced) # {}
    /\ ordered' = Todo(forced)
    /\ fresh' = Todo(forced) \ ChunksWithStatus("PARTIAL")
    /\ stragglers' = Todo(forced) \cap ChunksWithStatus("PARTIAL")
    /\ pc' = "sweep" /\ end' = today
    /\ pass' = 0 /\ remaining' = {} /\ queue' = {}
    /\ unheard' = {}
    /\ left' = {}
    /\ UNCHANGED <<today, archiveVars, chunkVars, kills>>

BeginChunk(c) ==
    /\ chunk' = c
    /\ attempt' = 1
    /\ listed' = today
    /\ pc' = "running"

SweepNext ==
    /\ pc = "sweep"
    /\ \/ /\ fresh # {}
          /\ BeginChunk(First(fresh))
          /\ fresh' = fresh \ {First(fresh)}
          /\ UNCHANGED stragglers
       \/ /\ fresh = {} /\ stragglers # {}
          /\ BeginChunk(First(stragglers))
          /\ stragglers' = stragglers \ {First(stragglers)}
          /\ UNCHANGED fresh
    /\ UNCHANGED <<today, archiveVars, end, ordered, passVars, unheard, left, kills>>

SweepDone ==
    /\ pc = "sweep"
    /\ fresh = {} /\ stragglers = {}
    /\ pc' = "recovery"
    /\ UNCHANGED <<today, archiveVars, end, sweepVars, chunkVars, passVars, unheard, left, kills>>

-----------------------------------------------------------------------------
(* _run_chunk: one attempt at the current chunk *)

Leave(status) == ledger' = [ledger EXCEPT ![chunk] = @ \cup {status}]

\* The attempt stores some of what the chunk was missing: whole are the days of
\* which it stores everything it listed.  Of the day it listed KAP, more may
\* have been filed since.
Stores(whole) ==
    /\ missing' \in [Day -> 0..MaxMissing]
    /\ \A d \in Day :
          /\ missing'[d] <= missing[d]
          /\ d \notin DaysOf(chunk) => missing'[d] = missing[d]
          /\ d \in whole /\ d # listed => missing'[d] = 0

\* What is stored is hidden no more.
StillHidden == {p \in hidden : missing'[p[2]] # 0}

\* _run_chunk returns to the loop that called it.
ChunkReturns ==
    /\ pc' = IF pass = 0 THEN "sweep" ELSE "resweep"
    /\ chunk' = NoChunk /\ attempt' = 0 /\ listed' = 0
    /\ UNCHANGED <<today, end, sweepVars, passVars, left, kills>>

\* SUCCESS is said over what the answers hid, too: the rows of a day beyond the
\* cap, a list that is no list, a detail that is empty.
RunSucceeds ==
    /\ pc = "running"
    /\ \E kept \in SUBSET {d \in DaysOf(chunk) \ {listed} : missing[d] > 0} :
          /\ Stores(DaysOf(chunk) \ kept)
          /\ hidden' = {p \in StillHidden : p[1] # chunk} \cup ({chunk} \X kept)
    /\ early' = IF listed = chunk[2] THEN early \cup {chunk} ELSE early \ {chunk}
    /\ Leave("SUCCESS")
    /\ ChunkReturns
    /\ UNCHANGED unheard

\* Some disclosure failed in both sweeps; one corrected since, or whose commit
\* answer was lost, can fail without being missing.
RunPartial ==
    /\ pc = "running"
    /\ Stores({})
    /\ Leave("PARTIAL")
    /\ ChunkReturns
    /\ hidden' = StillHidden
    /\ UNCHANGED <<early, unheard>>

\* The audit row stays RUNNING, whatever the run has stored.
Unfinished ==
    /\ Stores({})
    /\ Leave("RUNNING")
    /\ hidden' = StillHidden
    /\ UNCHANGED early

\* wait_for cancels the run: the chunk is abandoned with its row RUNNING.
RunTimesOut ==
    /\ pc = "running"
    /\ Deadline
    /\ Unfinished
    /\ ChunkReturns
    /\ UNCHANGED unheard

\* A TimeoutError raised within the run, by a connection to the database say, is
\* taken for the deadline.  Its row was never made or says FAILED, before any
\* disclosure was stored, or could not be closed in the end.
RunHearsTimeout ==
    /\ pc = "running"
    /\ \/ /\ UNCHANGED archiveVars
          /\ unheard' = unheard \cup {c \in {chunk} : ledger[c] = {}}
       \/ Unfinished /\ UNCHANGED unheard
    /\ ChunkReturns

\* RemoteProtocolError before the first disclosure: back off and try again.
RunBlocked ==
    /\ pc = "running"
    /\ attempt < Attempts
    /\ attempt' = attempt + 1
    /\ listed' = today
    /\ UNCHANGED <<today, archiveVars, pc, end, sweepVars, chunk, passVars, unheard, left, kills>>

\* Mutant: after the last backoff the loop falls through and the sweep goes on.
RunRaisesUnheard ==
    /\ pc = "running"
    /\ UNCHANGED <<archiveVars, unheard>>
    /\ ChunkReturns

\* The last attempt was blocked, or any attempt raised something else: the
\* whole invocation ends with the exception.
RunRaises ==
    /\ pc = "running"
    /\ UNCHANGED archiveVars \/ Unfinished
    /\ Vanish
    /\ UNCHANGED <<today, kills>>

-----------------------------------------------------------------------------
(* Recovery passes *)

PassBegin ==
    /\ pc = "recovery"
    /\ pass < Passes
    /\ Partials # {}
    /\ pass' = pass + 1
    /\ remaining' = Partials
    /\ queue' = Partials
    /\ pc' = "resweep"
    /\ UNCHANGED <<today, archiveVars, end, sweepVars, chunkVars, unheard, left, kills>>

PassNext ==
    /\ pc = "resweep"
    /\ queue # {}
    /\ BeginChunk(First(queue))
    /\ queue' = queue \ {First(queue)}
    /\ UNCHANGED <<today, archiveVars, end, sweepVars, pass, remaining, unheard, left, kills>>

Stalled == Cardinality(Partials) >= Cardinality(remaining)

PassEnd ==
    /\ pc = "resweep"
    /\ queue = {}
    /\ pc' = IF Stalled THEN "report" ELSE "recovery"
    /\ UNCHANGED <<today, archiveVars, end, sweepVars, chunkVars, passVars, unheard, left, kills>>

PassesOver ==
    /\ pc = "recovery"
    /\ Partials = {} \/ pass = Passes
    /\ pc' = "report"
    /\ UNCHANGED <<today, archiveVars, end, sweepVars, chunkVars, passVars, unheard, left, kills>>

Report ==
    /\ pc = "report"
    /\ left' = Partials
    /\ pc' = "done"
    /\ UNCHANGED <<today, archiveVars, end, sweepVars, chunkVars, passVars, unheard, kills>>

\* The process is killed; a run under way leaves its row RUNNING.
Kill ==
    /\ pc \notin {"off", "done"}
    /\ kills < MaxKills
    /\ kills' = kills + 1
    /\ IF pc = "running" THEN Leave("RUNNING") ELSE UNCHANGED ledger
    /\ Vanish
    /\ UNCHANGED <<today, missing, early, hidden>>

Sweep == SweepNext \/ SweepDone
Run == RunSucceeds \/ RunPartial \/ RunTimesOut \/ RunHearsTimeout \/ RunBlocked \/ RunRaises
Recovery == PassBegin \/ PassNext \/ PassEnd \/ PassesOver \/ Report
Step == Sweep \/ Run \/ Recovery
Launches == \E forced \in SUBSET {m[1] : m \in Months} : Launch(forced)

Next == Step \/ Kill \/ Launches \/ NextDay \/ File

Spec == Init /\ [][Next]_vars

\* What a completed archive rests on: days pass, the process keeps running and
\* is started again when it ends, and KAP does not block one month for ever.
FairSpec ==
    /\ Spec
    /\ WF_vars(NextDay)
    /\ WF_vars(Step)
    /\ WF_vars(Launches)
    /\ \A m \in Months : SF_vars(chunk[1] = m[1] /\ RunSucceeds)

-----------------------------------------------------------------------------
(* Properties *)

Status == {"RUNNING", "SUCCESS", "PARTIAL"}

TypeOK ==
    /\ today \in Day
    /\ missing \in [Day -> 0..MaxMissing]
    /\ ledger \in [Chunk -> SUBSET Status]
    /\ early \in SUBSET Chunk
    /\ hidden \in SUBSET (Chunk \X Day)
    /\ pc \in {"off", "sweep", "running", "recovery", "resweep", "report", "done"}
    /\ end \in 0..today
    /\ ordered \in SUBSET Chunks(end)
    /\ fresh \in SUBSET ordered
    /\ stragglers \in SUBSET ordered
    /\ IF pc = "running" THEN chunk \in ordered /\ listed \in end..today
                         ELSE chunk = NoChunk /\ listed = 0
    /\ attempt \in 0..Attempts
    /\ pass \in 0..Passes
    /\ remaining \in SUBSET ordered
    /\ queue \in SUBSET remaining
    /\ unheard \in SUBSET ordered
    /\ left \in SUBSET ordered
    /\ kills \in 0..MaxKills

\* What the run of a complete chunk could not have stored: disclosures filed
\* later on its last day, if KAP was listed on that day, and what the answers hid.
OutOfSight(c, d) == (d = c[2] /\ c \in early) \/ <<c, d>> \in hidden

\* A chunk the ledger calls complete, and that no later launch will therefore
\* visit, misses nothing (get_completed_chunks), but for what was filed on its
\* last day after that day's list and what KAP hid from that very run.
CompleteMeansNothingMissing ==
    \A c \in ChunksWithStatus("SUCCESS") : \A d \in DaysOf(c) : missing[d] = 0 \/ OutOfSight(c, d)

\* No chunk is passed over: when the sweep is over, each chunk taken on has
\* been run to an outcome with a row that says so, not merely been blocked,
\* unless a TimeoutError within the run was taken for the deadline.
NoMonthPassedOver ==
    pc \in {"recovery", "resweep", "report", "done"} =>
        \A c \in ordered : ledger[c] \cap {"SUCCESS", "PARTIAL", "RUNNING"} # {} \/ c \in unheard

\* An invocation whose last line reports no PARTIAL chunk has left nothing of
\* the days up to its launch missing, but for chunks whose run was cut off by a
\* timeout or a kill before it could say what it lost, and for what no run
\* could see.
CleanUnlessAbandoned ==
    pc = "done" /\ left = {} =>
        \A c \in Chunks(end) : \A d \in DaysOf(c) :
            missing[d] = 0 \/ "RUNNING" \in ledger[c] \/ c \in unheard \/ OutOfSight(c, d)

\* Started again and again, the backfill completes the archive: whatever was
\* blocked, abandoned or killed is taken on by a later launch, and what was
\* filed after a day's list, or hidden from a run of part of a month, by the
\* next day's chunk.  What remains is what the month's last chunk could not see.
ArchiveCompletes ==
    <>[](\A d \in Day : missing[d] = 0 \/ \E c \in Chunks(LastDay) : OutOfSight(c, d))

=============================================================================
