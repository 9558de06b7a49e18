--------------------------- MODULE BackfillProofs ---------------------------
(***************************************************************************)
(* For any calendar, losses, attempts, passes and kills: the resume ledger *)
(* never calls a chunk complete that misses something its run could have   *)
(* stored, no chunk is passed over but for one a TimeoutError ends, and an *)
(* invocation that reports no PARTIAL chunk has accounted for every day up *)
(* to its launch.                                                          *)
(***************************************************************************)
EXTENDS Backfill, TLAPS, WellFoundedInduction

\* A complete chunk lies in the past, or is today's and was listed today: nothing
\* can be filed on its days any more but what OutOfSight allows for.
Past == \A c \in ChunksWithStatus("SUCCESS") : c[2] < today \/ (c[2] = today /\ c \in early)

\* A chunk of this invocation is to come, is being run for the first time, or has
\* an outcome.
Visited ==
    pc # "off" =>
        \A c \in ordered : \/ c \in fresh \cup stragglers
                           \/ pc = "running" /\ pass = 0 /\ c = chunk
                           \/ ledger[c] # {} \/ c \in unheard

\* Recovery passes begin when the sweep is over.
Phases ==
    /\ pc = "sweep" => pass = 0
    /\ pc = "resweep" => pass # 0
    /\ (pc \in {"recovery", "resweep", "report", "done"} \/ (pc = "running" /\ pass # 0))
            => fresh = {} /\ stragglers = {}

\* Chunks of the launch that were not taken on were complete, and stay so.
NotOrdered == pc # "off" => \A c \in Chunks(end) \ ordered : "SUCCESS" \in ledger[c]

\* What the last line reports is what the ledger holds.
Reported == pc = "done" => left = Partials

Books == CompleteMeansNothingMissing /\ Past
Course == Visited /\ Phases /\ NotOrdered /\ Reported

\* The inductive invariant.
Inv == TypeOK /\ Books /\ Course

-----------------------------------------------------------------------------

\* The chunks of a day's launch are chunks, and end by that day.
LEMMA LaunchDay ==
    ASSUME NEW e \in 0..LastDay
    PROVE  /\ Chunks(e) \subseteq Chunk
           /\ \A c \in Chunks(e) : c[1] \in Nat /\ c[2] \in Day /\ c[2] <= e /\ DaysOf(c) \subseteq Day
<1>1. \A m \in Months : m[1] \in Nat \ {0} /\ m[2] \in Nat /\ m[1] <= m[2]
  BY MonthsAssumption DEF MonthsAssumption
<1>2. ASSUME NEW c \in Chunks(e)
      PROVE  c[1] \in Nat /\ c[2] \in Day /\ c[2] <= e /\ DaysOf(c) \subseteq Day /\ e \in Day
  <2>1. PICK m \in Months : m[1] <= e /\ c = <<m[1], IF m[2] <= e THEN m[2] ELSE e>>
    BY DEF Chunks
  <2>2. c[1] = m[1] /\ c[2] = IF m[2] <= e THEN m[2] ELSE e
    BY <2>1
  <2>. QED BY <1>1, <2>1, <2>2, BoundsAssumption DEF BoundsAssumption, Day, DaysOf
<1>3. Chunks(e) \subseteq Chunk
  BY <1>2 DEF Chunk
<1>. QED BY <1>2, <1>3

\* So does every chunk.
LEMMA AnyChunk == ASSUME NEW c \in Chunk PROVE c[1] \in Nat /\ c[2] \in Day /\ DaysOf(c) \subseteq Day
<1>1. PICK e \in Day : c \in Chunks(e)
  BY DEF Chunk
<1>2. e \in 0..LastDay
  BY BoundsAssumption DEF BoundsAssumption, Day
<1>. QED BY <1>1, <1>2, LaunchDay

\* What an invocation took on are chunks.
LEMMA Taken == ASSUME TypeOK PROVE ordered \subseteq Chunk /\ end \in 0..LastDay
<1>1. end \in 0..LastDay
  BY BoundsAssumption DEF TypeOK, BoundsAssumption, Day
<1>. QED BY <1>1, LaunchDay DEF TypeOK

\* First picks a member: the numbers are well founded.
LEMMA FirstIn ==
    ASSUME NEW S, S \subseteq Chunk, S # {}
    PROVE  First(S) \in S
<1>. DEFINE T == {c[1] : c \in S}
<1>1. T \subseteq Nat /\ T # {}
  BY AnyChunk
<1>2. IsWellFoundedOn(OpToRel(<, Nat), Nat)
  BY NatLessThanWellFounded
<1>3. PICK x \in T : \A y \in T : ~(<<y, x>> \in OpToRel(<, Nat))
  <2>. HIDE DEF T
  <2>. QED BY <1>1, <1>2, WFMin, Zenon
<1>4. ASSUME NEW y \in T PROVE x <= y
  <2>1. y < x => <<y, x>> \in OpToRel(<, Nat)
    <3>1. <<y, x>>[1] = y /\ <<y, x>>[2] = x /\ <<y, x>> \in Nat \X Nat
      BY <1>1
    <3>. QED BY <3>1, Zenon DEF OpToRel
  <2>2. ~(y < x)
    BY <1>3, <2>1, Zenon
  <2>. QED BY <1>1, <2>2
<1>5. \E c \in S : \A s \in S : c[1] <= s[1]
  BY <1>4
<1>. QED BY <1>5 DEF First

\* The status of a run is added to the ledger of its chunk.
LEMMA Leaves ==
    ASSUME TypeOK, pc = "running", NEW status \in Status, Leave(status)
    PROVE  /\ ledger' \in [Chunk -> SUBSET Status]
           /\ chunk \in ordered /\ chunk \in Chunk
           /\ ledger'[chunk] = ledger[chunk] \cup {status}
           /\ \A c \in Chunk : c # chunk => ledger'[c] = ledger[c]
<1>1. chunk \in ordered /\ chunk \in Chunk
  BY Taken DEF TypeOK
<1>. QED BY <1>1 DEF TypeOK, Leave

\* A step that touches nothing but the clock keeps the books.
LEMMA BooksKept ==
    ASSUME TypeOK, Books, UNCHANGED archiveVars, today' \in {today, today + 1}
    PROVE  Books'
<1>1. today \in Nat /\ today' \in Nat /\ today <= today'
  BY BoundsAssumption DEF TypeOK, Day, BoundsAssumption
<1>2. CompleteMeansNothingMissing'
  BY DEF Books, archiveVars, CompleteMeansNothingMissing, ChunksWithStatus, OutOfSight
<1>3. Past'
  <2>1. ASSUME NEW c \in Chunk, "SUCCESS" \in ledger[c]
        PROVE  c[2] < today' \/ (c[2] = today' /\ c \in early)
    <3>1. c[2] \in Nat
      BY AnyChunk, BoundsAssumption DEF Day, BoundsAssumption
    <3>2. c[2] < today \/ (c[2] = today /\ c \in early)
      BY <2>1 DEF Books, Past, ChunksWithStatus
    <3>. QED BY <1>1, <3>1, <3>2
  <2>. QED BY <2>1 DEF Past, archiveVars, ChunksWithStatus
<1>. QED BY <1>2, <1>3 DEF Books

LEMMA Starts == Init => Inv
<1> SUFFICES ASSUME Init PROVE Inv
  OBVIOUS
<1>1. TypeOK
  BY BoundsAssumption DEF Init, TypeOK, BoundsAssumption, Day
<1>2. ChunksWithStatus("SUCCESS") = {}
  BY DEF Init, ChunksWithStatus
<1>. QED BY <1>1, <1>2 DEF Init, Inv, Books, Past, CompleteMeansNothingMissing, Course, Visited, Phases,
                           NotOrdered, Reported

\* Disclosures are only filed today, where complete chunks allow for them.
LEMMA FileSteps == ASSUME Inv, File PROVE Inv'
<1>1. /\ today \in Day /\ missing \in [Day -> 0..MaxMissing] /\ missing[today] < MaxMissing
      /\ missing' = [missing EXCEPT ![today] = @ + 1]
      /\ UNCHANGED <<today, ledger, early, hidden, pc, end, ordered, fresh, stragglers, chunk, attempt, listed,
                     pass, remaining, queue, unheard, left, kills>>
  BY DEF File, Inv, TypeOK, sweepVars, chunkVars, passVars
<1>2. missing' \in [Day -> 0..MaxMissing] /\ \A d \in Day : d # today => missing'[d] = missing[d]
  BY <1>1, BoundsAssumption DEF BoundsAssumption
<1>3. TypeOK'
  BY <1>1, <1>2 DEF Inv, TypeOK
<1>4. Past'
  BY <1>1 DEF Inv, Books, Past, ChunksWithStatus
<1>5. ASSUME NEW c \in Chunk, "SUCCESS" \in ledger[c], NEW d \in DaysOf(c)
      PROVE  missing'[d] = 0 \/ (d = c[2] /\ c \in early) \/ <<c, d>> \in hidden
  <2>1. d \in Day /\ c[2] \in Day /\ d <= c[2]
    BY AnyChunk DEF DaysOf, Day
  <2>2. missing[d] = 0 \/ (d = c[2] /\ c \in early) \/ <<c, d>> \in hidden
    BY <1>5 DEF Inv, Books, CompleteMeansNothingMissing, ChunksWithStatus, OutOfSight
  <2>3. c[2] < today \/ (c[2] = today /\ c \in early)
    BY <1>5 DEF Inv, Books, Past, ChunksWithStatus
  <2>4. d = today => d = c[2] /\ c \in early
    BY <1>1, <2>1, <2>3, BoundsAssumption DEF Day, BoundsAssumption
  <2>. QED BY <1>2, <2>1, <2>2, <2>4
<1>6. CompleteMeansNothingMissing'
  BY <1>1, <1>5 DEF CompleteMeansNothingMissing, ChunksWithStatus, OutOfSight
<1>7. Course'
  BY <1>1 DEF Inv, Course, Visited, Phases, NotOrdered, Reported, Partials, ChunksWithStatus
<1>. QED BY <1>3, <1>4, <1>6, <1>7 DEF Inv, Books

LEMMA DaySteps == ASSUME Inv, NextDay PROVE Inv'
<1>1. /\ today' = today + 1 /\ today' \in Day /\ today \in Day
      /\ UNCHANGED archiveVars
      /\ UNCHANGED <<missing, ledger, early, hidden, pc, end, ordered, fresh, stragglers, chunk, attempt, listed,
                     pass, remaining, queue, unheard, left, kills>>
  BY BoundsAssumption DEF NextDay, Inv, TypeOK, Day, BoundsAssumption, archiveVars, sweepVars, chunkVars, passVars
<1>2. TypeOK'
  <2>1. 0..today \subseteq 0..today' /\ end..today \subseteq end..today'
    BY <1>1, BoundsAssumption DEF Day, BoundsAssumption, Inv, TypeOK
  <2>. QED BY <1>1, <2>1 DEF Inv, TypeOK
<1>3. Course'
  BY <1>1 DEF Inv, Course, Visited, Phases, NotOrdered, Reported, Partials, ChunksWithStatus
<1>. QED BY <1>1, <1>2, <1>3, BooksKept DEF Inv

LEMMA LaunchSteps == ASSUME Inv, NEW forced, Launch(forced) PROVE Inv'
<1>1. /\ ordered' = Todo(forced) /\ end' = today /\ today' = today /\ pc' = "sweep"
      /\ fresh' \cup stragglers' = ordered' /\ pass' = 0
      /\ UNCHANGED archiveVars /\ UNCHANGED <<missing, ledger, early, hidden, chunk, attempt, listed, kills>>
  BY DEF Launch, archiveVars, chunkVars
<1>2. ordered' \subseteq Chunks(end')
  BY <1>1 DEF Todo
<1>3. TypeOK'
  <2>1. pc # "running" /\ 0 \in 0..Passes /\ today \in 0..today
    BY BoundsAssumption DEF Launch, Inv, TypeOK, Day, BoundsAssumption
  <2>. QED BY <1>1, <1>2, <2>1 DEF Inv, TypeOK, Launch
<1>4. NotOrdered'
  <2>1. Chunks(today) \subseteq Chunk
    BY LaunchDay, BoundsAssumption DEF Inv, TypeOK, Day, BoundsAssumption
  <2>. QED BY <1>1, <2>1 DEF NotOrdered, Todo, ChunksWithStatus
<1>5. Visited' /\ Phases' /\ Reported'
  BY <1>1 DEF Visited, Phases, Reported
<1>. QED BY <1>1, <1>3, <1>4, <1>5, BooksKept DEF Inv, Course

LEMMA SweepSteps == ASSUME Inv, Sweep PROVE Inv'
<1>1. CASE SweepDone
  <2>1. /\ pc = "sweep" /\ pc' = "recovery" /\ fresh = {} /\ stragglers = {} /\ UNCHANGED archiveVars
        /\ UNCHANGED <<today, missing, ledger, early, hidden, end, ordered, fresh, stragglers, chunk, attempt, listed,
                       pass, remaining, queue, unheard, left, kills>>
    BY <1>1 DEF SweepDone, archiveVars, sweepVars, chunkVars, passVars
  <2>2. TypeOK'
    BY <2>1 DEF Inv, TypeOK
  <2>3. Course'
    BY <2>1 DEF Inv, Course, Visited, Phases, NotOrdered, Reported
  <2>. QED BY <2>1, <2>2, <2>3, BooksKept DEF Inv
<1>2. CASE SweepNext
  <2>1. fresh \subseteq ordered /\ stragglers \subseteq ordered /\ ordered \subseteq Chunk
    BY Taken DEF Inv, TypeOK
  <2>2. First(fresh) \in fresh \/ (fresh = {} /\ First(stragglers) \in stragglers)
    BY <1>2, <2>1, FirstIn DEF SweepNext
  <2>3. /\ chunk' \in fresh \cup stragglers /\ attempt' = 1 /\ listed' = today /\ pc' = "running" /\ pc = "sweep"
        /\ fresh' \subseteq fresh /\ stragglers' \subseteq stragglers
        /\ \A c \in fresh \cup stragglers : c \in fresh' \cup stragglers' \/ c = chunk'
        /\ UNCHANGED archiveVars
        /\ UNCHANGED <<today, missing, ledger, early, hidden, end, ordered, pass, remaining, queue,
                       unheard, left, kills>>
    BY <1>2, <2>1, <2>2 DEF SweepNext, BeginChunk, archiveVars, passVars
  <2>4. TypeOK'
    <3>1. today \in end..today /\ 1 \in 0..Attempts
      BY BoundsAssumption DEF Inv, TypeOK, Day, BoundsAssumption
    <3>. QED BY <2>1, <2>3, <3>1 DEF Inv, TypeOK
  <2>5. Visited'
    <3>1. pass = 0
      BY <2>3 DEF Inv, Course, Phases
    <3>2. \A c \in ordered : c \in fresh \cup stragglers \/ ledger[c] # {} \/ c \in unheard
      BY <2>3 DEF Inv, Course, Visited
    <3>. QED BY <2>3, <3>1, <3>2 DEF Visited
  <2>6. Phases' /\ NotOrdered' /\ Reported'
    BY <2>3 DEF Inv, Course, Phases, NotOrdered, Reported
  <2>. QED BY <2>3, <2>4, <2>5, <2>6, BooksKept DEF Inv, Course
<1>. QED BY <1>1, <1>2 DEF Sweep

\* A run that ends with a row leaves the books in order: it says SUCCESS only if
\* it stored all of the days it listed but what the answers hid.
LEMMA RowBooks ==
    ASSUME Inv, pc = "running", NEW status \in Status, Leave(status), today' = today,
           NEW whole, Stores(whole), hidden' \subseteq Chunk \X Day,
           \A c \in Chunk, d \in Day :
               <<c, d>> \in hidden /\ missing'[d] # 0 /\ ~(c = chunk /\ status = "SUCCESS") => <<c, d>> \in hidden',
           IF status = "SUCCESS"
           THEN /\ \A d \in DaysOf(chunk) : d \in whole \/ <<chunk, d>> \in hidden'
                /\ early' = (IF listed = chunk[2] THEN early \cup {chunk} ELSE early \ {chunk})
           ELSE early' = early
    PROVE  /\ Books'
           /\ missing' \in [Day -> 0..MaxMissing] /\ early' \subseteq Chunk
<1>1. /\ ledger' \in [Chunk -> SUBSET Status] /\ chunk \in Chunk /\ chunk \in ordered
      /\ ledger'[chunk] = ledger[chunk] \cup {status}
      /\ \A c \in Chunk : c # chunk => ledger'[c] = ledger[c]
  BY Leaves DEF Inv
<1>2. /\ missing' \in [Day -> 0..MaxMissing]
      /\ \A d \in Day : missing'[d] <= missing[d] /\ (d \in whole /\ d # listed => missing'[d] = 0)
  BY DEF Stores
<1>3. /\ listed \in end..today /\ chunk[2] \in Nat /\ chunk[2] <= end /\ end \in Nat /\ today \in Nat
      /\ \A d \in DaysOf(chunk) : d <= chunk[2] /\ d \in Day
  <2>1. chunk \in Chunks(end) /\ end \in 0..LastDay
    BY <1>1, Taken DEF Inv, TypeOK
  <2>2. chunk[2] \in Day /\ chunk[2] <= end /\ DaysOf(chunk) \subseteq Day
    BY <2>1, LaunchDay
  <2>3. chunk[2] \in Nat /\ end \in Nat
    BY <2>1, <2>2, BoundsAssumption DEF Day, BoundsAssumption
  <2>4. listed \in end..today /\ today \in Nat
    BY BoundsAssumption DEF Inv, TypeOK, Day, BoundsAssumption
  <2>5. \A d \in DaysOf(chunk) : d <= chunk[2]
    BY DEF DaysOf
  <2>. QED BY <2>2, <2>3, <2>4, <2>5
<1>4. \A d \in Day : missing[d] = 0 => missing'[d] = 0
  BY <1>2, BoundsAssumption DEF Inv, TypeOK, BoundsAssumption
<1>5. ASSUME NEW c \in Chunk, "SUCCESS" \in ledger'[c]
      PROVE  /\ c[2] < today \/ (c[2] = today /\ c \in early')
             /\ \A d \in DaysOf(c) : missing'[d] = 0 \/ (d = c[2] /\ c \in early') \/ <<c, d>> \in hidden'
  <2>1. CASE c = chunk /\ status = "SUCCESS"
    <3>1. CASE listed = chunk[2]
      BY <1>2, <1>3, <2>1, <3>1
    <3>2. CASE listed # chunk[2]
      <4>1. chunk[2] < listed /\ listed <= today
        BY <1>3, <3>2
      <4>. QED BY <1>2, <1>3, <2>1, <4>1
    <3>. QED BY <3>1, <3>2
  <2>2. CASE ~(c = chunk /\ status = "SUCCESS")
    <3>1. "SUCCESS" \in ledger[c] /\ (c \in early => c \in early')
      BY <1>1, <1>5, <2>2
    <3>2. /\ c[2] < today \/ (c[2] = today /\ c \in early)
          /\ \A d \in DaysOf(c) : missing[d] = 0 \/ (d = c[2] /\ c \in early) \/ <<c, d>> \in hidden
      BY <3>1 DEF Inv, Books, Past, CompleteMeansNothingMissing, ChunksWithStatus, OutOfSight
    <3>3. DaysOf(c) \subseteq Day
      BY AnyChunk
    <3>. QED BY <1>4, <2>2, <3>1, <3>2, <3>3
  <2>. QED BY <2>1, <2>2
<1>6. Books'
  BY <1>5 DEF Books, Past, CompleteMeansNothingMissing, ChunksWithStatus, OutOfSight
<1>. QED BY <1>1, <1>2, <1>6 DEF Inv, TypeOK

\* A run that returns to the sweep with its books in order, and has a row or
\* was not heard of.
LEMMA ReturnSteps ==
    ASSUME Inv, pc = "running", ChunkReturns, Books', missing' \in [Day -> 0..MaxMissing],
           early' \subseteq Chunk, hidden' \subseteq Chunk \X Day, ledger' \in [Chunk -> SUBSET Status],
           unheard \subseteq unheard', unheard' \subseteq unheard \cup {chunk},
           \A c \in Chunk : ledger[c] \subseteq ledger'[c],
           ledger'[chunk] # {} \/ chunk \in unheard'
    PROVE  Inv'
<1>1. /\ pc' = IF pass = 0 THEN "sweep" ELSE "resweep"
      /\ chunk' = NoChunk /\ attempt' = 0 /\ listed' = 0
      /\ UNCHANGED <<today, end, ordered, fresh, stragglers, pass, remaining, queue, left, kills>>
  BY DEF ChunkReturns, sweepVars, passVars
<1>2. chunk \in ordered /\ ordered \subseteq Chunk
  BY Taken DEF Inv, TypeOK
<1>3. TypeOK'
  <2>1. attempt' \in 0..Attempts /\ pc' \in {"sweep", "resweep"}
    BY <1>1, BoundsAssumption DEF BoundsAssumption, Inv, TypeOK
  <2>2. unheard' \subseteq ordered
    BY <1>2 DEF Inv, TypeOK
  <2>. QED BY <1>1, <2>1, <2>2 DEF Inv, TypeOK
<1>4. Visited'
  <2>1. \A c \in ordered : c \in fresh \cup stragglers \/ c = chunk \/ ledger[c] # {} \/ c \in unheard
    BY DEF Inv, Course, Visited
  <2>2. \A c \in ordered : c \in fresh \cup stragglers \/ ledger'[c] # {} \/ c \in unheard'
    BY <1>2, <2>1
  <2>. QED BY <1>1, <2>2 DEF Visited
<1>5. Phases' /\ Reported'
  BY <1>1 DEF Inv, Course, Phases, Reported
<1>6. NotOrdered'
  <2>1. Chunks(end) \subseteq Chunk
    BY Taken, LaunchDay DEF Inv
  <2>. QED BY <1>1, <2>1 DEF Inv, Course, NotOrdered
<1>. QED BY <1>3, <1>4, <1>5, <1>6 DEF Inv, Course

\* An invocation that ends early takes what it knew with it.
LEMMA VanishSteps ==
    ASSUME Inv, Vanish, kills' \in 0..MaxKills, today' = today, Books',
           missing' \in [Day -> 0..MaxMissing], early' \subseteq Chunk, hidden' \subseteq Chunk \X Day,
           ledger' \in [Chunk -> SUBSET Status]
    PROVE  Inv'
<1>1. TypeOK'
  <2>1. 0 \in 0..today /\ 0 \in 0..Attempts /\ 0 \in 0..Passes
    BY BoundsAssumption DEF Inv, TypeOK, Day, BoundsAssumption
  <2>. QED BY <2>1 DEF Inv, TypeOK, Vanish
<1>2. Course'
  BY DEF Vanish, Course, Visited, Phases, NotOrdered, Reported
<1>. QED BY <1>1, <1>2 DEF Inv

\* What is stored is hidden no more, everything else as before.
LEMMA HiddenStays ==
    ASSUME Inv, hidden' = StillHidden
    PROVE  /\ hidden' \subseteq Chunk \X Day
           /\ \A c \in Chunk, d \in Day : <<c, d>> \in hidden /\ missing'[d] # 0 => <<c, d>> \in hidden'
BY DEF Inv, TypeOK, StillHidden

\* The row a run leaves is added to the others.
LEMMA Rows ==
    ASSUME Inv, pc = "running", NEW status \in Status, Leave(status)
    PROVE  /\ ledger' \in [Chunk -> SUBSET Status]
           /\ \A c \in Chunk : ledger[c] \subseteq ledger'[c]
           /\ ledger'[chunk] # {}
BY Leaves DEF Inv

LEMMA UnfinishedBooks ==
    ASSUME Inv, pc = "running", Unfinished, today' = today
    PROVE  /\ Books' /\ missing' \in [Day -> 0..MaxMissing] /\ early' \subseteq Chunk
           /\ hidden' \subseteq Chunk \X Day /\ ledger' \in [Chunk -> SUBSET Status]
           /\ \A c \in Chunk : ledger[c] \subseteq ledger'[c]
           /\ ledger'[chunk] # {}
<1>1. /\ Stores({}) /\ Leave("RUNNING") /\ hidden' = StillHidden /\ early' = early
      /\ "RUNNING" \in Status /\ "RUNNING" # "SUCCESS"
  BY DEF Unfinished, Status
<1>2. Books' /\ missing' \in [Day -> 0..MaxMissing] /\ early' \subseteq Chunk
  BY <1>1, HiddenStays, RowBooks
<1>. QED BY <1>1, <1>2, HiddenStays, Rows

LEMMA SucceedsSteps == ASSUME Inv, RunSucceeds PROVE Inv'
<1>1. PICK kept \in SUBSET {d \in DaysOf(chunk) \ {listed} : missing[d] > 0} :
         /\ Stores(DaysOf(chunk) \ kept)
         /\ hidden' = {p \in StillHidden : p[1] # chunk} \cup ({chunk} \X kept)
  BY DEF RunSucceeds
<1>2. /\ pc = "running" /\ Leave("SUCCESS") /\ ChunkReturns /\ unheard' = unheard
      /\ early' = (IF listed = chunk[2] THEN early \cup {chunk} ELSE early \ {chunk})
      /\ "SUCCESS" \in Status /\ today' = today
  BY DEF RunSucceeds, ChunkReturns, Status
<1>3. chunk \in Chunk /\ DaysOf(chunk) \subseteq Day
  BY <1>2, Taken, AnyChunk DEF Inv, TypeOK
<1>4. hidden' \subseteq Chunk \X Day
  BY <1>1, <1>3 DEF Inv, TypeOK, StillHidden
<1>5. \A c \in Chunk, d \in Day : <<c, d>> \in hidden /\ missing'[d] # 0 /\ c # chunk => <<c, d>> \in hidden'
  BY <1>1 DEF StillHidden
<1>6. \A d \in DaysOf(chunk) : d \in DaysOf(chunk) \ kept \/ <<chunk, d>> \in hidden'
  BY <1>1
<1>7. Books' /\ missing' \in [Day -> 0..MaxMissing] /\ early' \subseteq Chunk
  BY <1>1, <1>2, <1>4, <1>5, <1>6, RowBooks
<1>. QED BY <1>2, <1>4, <1>7, Rows, ReturnSteps

LEMMA RunSteps == ASSUME Inv, Run PROVE Inv'
<1>1. CASE RunSucceeds
  BY <1>1, SucceedsSteps
<1>2. CASE RunPartial
  <2>1. /\ pc = "running" /\ Stores({}) /\ Leave("PARTIAL") /\ hidden' = StillHidden /\ early' = early
        /\ ChunkReturns /\ unheard' = unheard /\ today' = today
        /\ "PARTIAL" \in Status /\ "PARTIAL" # "SUCCESS"
    BY <1>2 DEF RunPartial, ChunkReturns, Status
  <2>2. Books' /\ missing' \in [Day -> 0..MaxMissing] /\ early' \subseteq Chunk
    BY <2>1, HiddenStays, RowBooks
  <2>. QED BY <2>1, <2>2, HiddenStays, Rows, ReturnSteps
<1>3. CASE RunTimesOut
  BY <1>3, UnfinishedBooks, ReturnSteps DEF RunTimesOut, ChunkReturns
<1>4. CASE RunHearsTimeout
  <2>1. pc = "running" /\ ChunkReturns /\ today' = today
    BY <1>4 DEF RunHearsTimeout, ChunkReturns
  <2>2. CASE Unfinished /\ UNCHANGED unheard
    BY <2>1, <2>2, UnfinishedBooks, ReturnSteps
  <2>3. CASE UNCHANGED archiveVars /\ unheard' = unheard \cup {c \in {chunk} : ledger[c] = {}}
    <3>1. Books'
      BY <2>1, <2>3, BooksKept DEF Inv
    <3>. QED BY <2>1, <2>3, <3>1, ReturnSteps DEF Inv, TypeOK, archiveVars
  <2>. QED BY <1>4, <2>2, <2>3 DEF RunHearsTimeout
<1>5. CASE RunBlocked
  <2>1. /\ pc = "running" /\ attempt' \in 0..Attempts /\ listed' = today /\ UNCHANGED archiveVars
        /\ UNCHANGED <<today, missing, ledger, early, hidden, pc, end, ordered, fresh, stragglers, chunk,
                       pass, remaining, queue, unheard, left, kills>>
    BY <1>5, BoundsAssumption DEF RunBlocked, Inv, TypeOK, archiveVars, sweepVars, passVars, BoundsAssumption
  <2>2. TypeOK'
    <3>1. today \in end..today
      BY BoundsAssumption DEF Inv, TypeOK, Day, BoundsAssumption
    <3>. QED BY <2>1, <3>1 DEF Inv, TypeOK
  <2>3. Course'
    BY <2>1 DEF Inv, Course, Visited, Phases, NotOrdered, Reported
  <2>. QED BY <2>1, <2>2, <2>3, BooksKept DEF Inv
<1>6. CASE RunRaises
  <2>1. pc = "running" /\ Vanish /\ today' = today /\ kills' \in 0..MaxKills
    BY <1>6 DEF RunRaises, Inv, TypeOK
  <2>2. CASE UNCHANGED archiveVars
    <3>1. Books'
      BY <2>1, <2>2, BooksKept DEF Inv
    <3>. QED BY <2>1, <2>2, <3>1, VanishSteps DEF Inv, TypeOK, archiveVars
  <2>3. CASE Unfinished
    BY <2>1, <2>3, UnfinishedBooks, VanishSteps
  <2>. QED BY <1>6, <2>2, <2>3 DEF RunRaises
<1>. QED BY <1>1, <1>2, <1>3, <1>4, <1>5, <1>6 DEF Run

LEMMA RecoverySteps == ASSUME Inv, Recovery PROVE Inv'
<1>0. /\ UNCHANGED <<today, missing, ledger, early, hidden, end, ordered, fresh, stragglers, unheard, kills>>
      /\ UNCHANGED archiveVars
  BY DEF Recovery, PassBegin, PassNext, PassEnd, PassesOver, Report, archiveVars, sweepVars
<1>1. Books'
  BY <1>0, BooksKept DEF Inv
<1>2. NotOrdered'
  BY <1>0 DEF Inv, Course, NotOrdered, Recovery, PassBegin, PassNext, PassEnd, PassesOver, Report
<1>3. CASE PassNext
  <2>1. queue \subseteq ordered /\ queue # {} /\ ordered \subseteq Chunk
    BY <1>3, Taken DEF PassNext, Inv, TypeOK
  <2>2. First(queue) \in queue
    BY <2>1, FirstIn
  <2>3. /\ chunk' \in ordered /\ queue' \subseteq queue /\ attempt' = 1 /\ listed' = today
        /\ pc = "resweep" /\ pc' = "running" /\ UNCHANGED <<pass, remaining, left>>
    BY <1>3, <2>1, <2>2 DEF PassNext, BeginChunk
  <2>4. TypeOK'
    <3>1. today \in end..today /\ 1 \in 0..Attempts
      BY BoundsAssumption DEF Inv, TypeOK, Day, BoundsAssumption
    <3>. QED BY <1>0, <2>3, <3>1 DEF Inv, TypeOK
  <2>5. Visited' /\ Phases' /\ Reported'
    BY <1>0, <2>3 DEF Inv, Course, Visited, Phases, Reported
  <2>. QED BY <1>1, <1>2, <2>4, <2>5 DEF Inv, Course
<1>4. CASE PassBegin
  <2>1. /\ pass' = pass + 1 /\ pass \in Nat /\ pass' \in 0..Passes
        /\ remaining' \subseteq ordered /\ queue' = remaining'
        /\ pc = "recovery" /\ pc' = "resweep" /\ UNCHANGED <<chunk, attempt, listed, left>>
    BY <1>4, BoundsAssumption DEF PassBegin, Inv, TypeOK, Partials, chunkVars, BoundsAssumption
  <2>2. TypeOK'
    BY <1>0, <2>1 DEF Inv, TypeOK
  <2>3. Visited' /\ Phases' /\ Reported'
    BY <1>0, <2>1 DEF Inv, Course, Visited, Phases, Reported
  <2>. QED BY <1>1, <1>2, <2>2, <2>3 DEF Inv, Course
<1>5. CASE PassEnd \/ PassesOver \/ Report
  <2>1. /\ pc \in {"recovery", "resweep", "report"} /\ pc' \in {"recovery", "report", "done"}
        /\ left' \subseteq ordered /\ (pc' = "done" => left' = Partials)
        /\ UNCHANGED <<chunk, attempt, listed, pass, remaining, queue>>
    BY <1>5 DEF PassEnd, PassesOver, Report, chunkVars, passVars, Inv, TypeOK, Partials
  <2>2. TypeOK'
    BY <1>0, <2>1 DEF Inv, TypeOK
  <2>3. Visited' /\ Phases'
    BY <1>0, <2>1 DEF Inv, Course, Visited, Phases
  <2>4. Reported'
    BY <1>0, <2>1 DEF Reported, Partials, ChunksWithStatus
  <2>. QED BY <1>1, <1>2, <2>2, <2>3, <2>4 DEF Inv, Course
<1>. QED BY <1>3, <1>4, <1>5 DEF Recovery

LEMMA KillSteps == ASSUME Inv, Kill PROVE Inv'
<1>1. kills' \in 0..MaxKills /\ Vanish /\ UNCHANGED <<today, missing, early, hidden>>
  BY BoundsAssumption DEF Kill, Inv, TypeOK, BoundsAssumption
<1>2. /\ ledger' \in [Chunk -> SUBSET Status]
      /\ \A c \in Chunk : "SUCCESS" \in ledger'[c] <=> "SUCCESS" \in ledger[c]
  <2>1. CASE pc = "running"
    BY <2>1, Leaves DEF Kill, Inv, Status
  <2>2. CASE pc # "running"
    BY <2>2 DEF Kill, Inv, TypeOK
  <2>. QED BY <2>1, <2>2
<1>3. Books'
  BY <1>1, <1>2 DEF Inv, Books, Past, CompleteMeansNothingMissing, ChunksWithStatus, OutOfSight
<1>. QED BY <1>1, <1>2, <1>3, VanishSteps DEF Inv, TypeOK

LEMMA Inductive == Inv /\ [Next]_vars => Inv'
<1> SUFFICES ASSUME Inv, [Next]_vars PROVE Inv'
  OBVIOUS
<1>1. CASE UNCHANGED vars
  <2>1. Books'
    BY <1>1, BooksKept DEF vars, Inv
  <2>2. TypeOK' /\ Course'
    BY <1>1 DEF vars, archiveVars, sweepVars, chunkVars, passVars, Inv, TypeOK, Course, Visited, Phases,
                NotOrdered, Reported, Partials, ChunksWithStatus
  <2>. QED BY <2>1, <2>2 DEF Inv
<1>2. CASE Next
  BY <1>2, FileSteps, DaySteps, LaunchSteps, SweepSteps, RunSteps, RecoverySteps, KillSteps DEF Next, Step, Launches
<1>. QED BY <1>1, <1>2

\* The inductive invariant of the backfill's ledger and its sweep, of which the
\* theorems below are parts.
THEOREM Invariant == Spec => []Inv
BY Starts, Inductive, PTL DEF Spec

\* The sweep and the passes of main_async keep their books: whatever is killed or
\* times out, what is to come and under way are chunks taken on.
THEOREM TypeCorrect == Spec => []TypeOK
<1>1. Inv => TypeOK
  BY DEF Inv
<1>. QED BY <1>1, Invariant, PTL

\* The resume ledger (get_completed_chunks) never calls a chunk complete that
\* misses a disclosure, but for those filed later on the day it was listed and
\* those KAP's answers hid from the run that completed it.
THEOREM LedgerHonest == Spec => []CompleteMeansNothingMissing
<1>1. Inv => CompleteMeansNothingMissing
  BY DEF Inv, Books
<1>. QED BY <1>1, Invariant, PTL

\* When the sweep of main_async is over, every chunk taken on has been run to an
\* outcome, but for those a TimeoutError within their run ended unheard.
THEOREM SweepsAll == Spec => []NoMonthPassedOver
<1>1. Inv => NoMonthPassedOver
  <2>1. SUFFICES ASSUME Inv, pc \in {"recovery", "resweep", "report", "done"}, NEW c \in ordered,
                        c \notin unheard
                 PROVE  ledger[c] \cap {"SUCCESS", "PARTIAL", "RUNNING"} # {}
    BY DEF NoMonthPassedOver
  <2>2. ledger[c] # {}
    BY <2>1 DEF Inv, Course, Visited, Phases
  <2>3. ledger[c] \subseteq Status
    BY <2>1, Taken DEF Inv, TypeOK
  <2>. QED BY <2>2, <2>3 DEF Status
<1>. QED BY <1>1, Invariant, PTL

\* An invocation whose last line reports no PARTIAL chunk has every day up to its
\* launch, but for chunks cut off by a timeout or a kill and what no run could see.
THEOREM CleanReport == Spec => []CleanUnlessAbandoned
<1>1. Inv => CleanUnlessAbandoned
  <2>1. SUFFICES ASSUME Inv, pc = "done", left = {}, NEW c \in Chunks(end), "RUNNING" \notin ledger[c],
                        c \notin unheard
                 PROVE  \A d \in DaysOf(c) : missing[d] = 0 \/ OutOfSight(c, d)
    BY DEF CleanUnlessAbandoned
  <2>2. c \in Chunk /\ ledger[c] \subseteq Status
    BY <2>1, Taken, LaunchDay DEF Inv, TypeOK
  <2>3. "SUCCESS" \in ledger[c]
    BY <2>1, <2>2 DEF Inv, Course, NotOrdered, Visited, Phases, Reported, Partials, ChunksWithStatus, Status
  <2>4. c \in ChunksWithStatus("SUCCESS") /\ CompleteMeansNothingMissing
    BY <2>1, <2>2, <2>3 DEF Inv, Books, ChunksWithStatus
  <2>. QED BY <2>4, Zenon DEF CompleteMeansNothingMissing
<1>. QED BY <1>1, Invariant, PTL

=============================================================================
