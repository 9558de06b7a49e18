--------------------------- MODULE SignalsProofs ---------------------------
(***************************************************************************)
(* For any filings, in any order of storage, any calendar, horizons and    *)
(* loads of prices, and any number of overlapping jobs in either mode: the *)
(* recorded clusters are real, no position is entered on news that was not *)
(* public, but for what in-place corrections add, and the legs of a        *)
(* position are in order unless a hole was filled between their reads.     *)
(***************************************************************************)
EXTENDS Signals, FiniteSetTheorems, WellFoundedInduction, TLAPS

\* Of some trades, those in the window, and those of them that were public
\* before a day or that a correction has added.
Behind(s, w) == {f \in s : w[1] <= f.day /\ f.day <= w[2]}
Public(s, w, d) == {f \in Behind(s, w) : LocalDay(f.out) < d \/ Corrected(f)}

\* They make a cluster.
Enough(buys) == Cardinality(Insiders(buys)) >= MinCount

\* Insiders that form a cluster in the window.
ClusterIn(s, w, ins) ==
    /\ Cardinality(ins) >= MinCount
    /\ ins \subseteq Insiders(Behind(s, w))
    /\ \E f \in Behind(s, w) : f.day = w[2]

\* An entry that looks at nothing ahead of it.
Safe(s, w, entry) ==
    entry # NoDay => entry \in Day /\ w[2] < entry /\ Enough(Public(s, w, entry))

\* Rows of outcomes with such entries.
SafeRows(s, rows) ==
    DOMAIN rows \subseteq Windows \X Horizon /\ \A k \in DOMAIN rows : Safe(s, k[1], rows[k].entry)

\* A signal day after which a window's filings are public.
Known(s, w, d) == d \in Nat /\ Enough(Public(s, w, d + 1))

\* A job that has a cluster in hand.
Priced(x) == x.pc \in {"exit", "benchEntry", "benchExit"}

\* What a job holds.
Holds(s, x) ==
    /\ x.buys \subseteq s
    /\ x.todo \subseteq Windows /\ \A w \in x.todo : Enough(Behind(s, w))
    /\ DOMAIN x.signal \subseteq Windows /\ \A w \in DOMAIN x.signal : Known(s, w, x.signal[w])
    /\ Priced(x) => /\ x.hand.w \in DOMAIN x.signal /\ x.hand.w[2] <= x.signal[x.hand.w]
                    /\ x.left \subseteq Horizon
                    /\ x.pc # "exit" => x.hand.h \in x.left
                    /\ x.hand.entry # NoDay =>
                         x.hand.entry \in Day /\ x.signal[x.hand.w] < x.hand.entry
    /\ DOMAIN x.hand = DOMAIN NoHand
    /\ SafeRows(s, x.batch)

WorldOK ==
    /\ today \in Day
    /\ stored \subseteq Filing
    /\ \A f \in stored : LocalDay(f.out) <= today
    /\ stock \subseteq Day

ClustersOK ==
    DOMAIN clusters \subseteq Windows /\ \A w \in DOMAIN clusters : ClusterIn(stored, w, clusters[w])

JobsShaped == DOMAIN job = Job /\ \A j \in Job : DOMAIN job[j] = DOMAIN Idle

JobsOK == \A j \in Job : Holds(stored, job[j])

\* The inductive invariant.
Inv == WorldOK /\ ClustersOK /\ SafeRows(stored, outcomes) /\ JobsShaped /\ JobsOK

-----------------------------------------------------------------------------
(* Days *)

\* A set of days has a first one.
LEMMA FirstOf ==
    ASSUME NEW S, S \subseteq Nat, S # {}
    PROVE  Min(S) \in S /\ \A d \in S : Min(S) <= d
<1>1. IsWellFoundedOn(OpToRel(<, Nat), Nat)
  BY NatLessThanWellFounded
<1>2. PICK x \in S : \A y \in S : ~(<<y, x>> \in OpToRel(<, Nat))
  BY <1>1, WFMin, Zenon
<1>3. ASSUME NEW y \in S PROVE x <= y
  <2>1. y < x => <<y, x>> \in OpToRel(<, Nat)
    <3>1. <<y, x>>[1] = y /\ <<y, x>>[2] = x /\ <<y, x>> \in Nat \X Nat
      OBVIOUS
    <3>. QED BY <3>1, Zenon DEF OpToRel
  <2>2. ~(y < x)
    BY <1>2, <2>1, Zenon
  <2>. QED BY <2>2
<1>. QED BY <1>3 DEF Min

\* And, when bounded, a last one.
LEMMA LastOf ==
    ASSUME NEW n \in Nat, NEW S, S \subseteq 0..n, S # {}
    PROVE  Max(S) \in S /\ \A d \in S : d <= Max(S)
<1>. DEFINE T == {n - d : d \in S}
<1>1. T \subseteq Nat /\ T # {}
  OBVIOUS
<1>2. Min(T) \in T /\ \A t \in T : Min(T) <= t
  <2>. HIDE DEF T
  <2>. QED BY <1>1, FirstOf
<1>3. PICK m \in S : Min(T) = n - m
  BY <1>2
<1>4. ASSUME NEW d \in S PROVE d <= m
  <2>1. n - d \in T
    OBVIOUS
  <2>2. n - m <= n - d
    <3>. HIDE DEF T
    <3>. QED BY <1>2, <1>3, <2>1
  <2>. QED BY <2>2
<1>. QED BY <1>4 DEF Max

\* The first of some days is the only one up to it, so it is the next one.
LEMMA NextSession ==
    ASSUME NEW days, days \subseteq Day, NEW from \in Nat, After(days, from, 1) # NoDay
    PROVE  After(days, from, 1) \in Day /\ from < After(days, from, 1)
<1>. DEFINE later == {d \in days : d > from}
<1>1. later # {} /\ After(days, from, 1) = CHOOSE d \in later : Cardinality({e \in later : e <= d}) = 1
  BY DEF After
<1>2. later \subseteq Nat
  <2>1. days \subseteq Nat
    BY DEF Day
  <2>. QED BY <2>1, Zenon
<1>3. Min(later) \in later /\ \A d \in later : Min(later) <= d
  BY <1>1, <1>2, FirstOf
<1>4. {e \in later : e <= Min(later)} = {Min(later)}
  BY <1>2, <1>3
<1>5. Cardinality({e \in later : e <= Min(later)}) = 1
  BY <1>4, FS_Singleton
<1>6. After(days, from, 1) \in later
  BY <1>1, <1>3, <1>5
<1>. QED BY <1>6

-----------------------------------------------------------------------------
(* Trades *)

\* More filings make no fewer insiders.
LEMMA MoreInsiders ==
    ASSUME NEW s, NEW t, s \subseteq t, t \subseteq Filing, Enough(s)
    PROVE  Enough(t)
<1>1. Insiders(t) \subseteq Insider /\ Insiders(s) \subseteq Insiders(t)
  BY FilingAssumption DEF FilingAssumption, Insiders
<1>2. IsFiniteSet(Insiders(t))
  BY <1>1, InsiderAssumption, FS_Subset DEF InsiderAssumption
<1>3. /\ Cardinality(Insiders(s)) <= Cardinality(Insiders(t))
      /\ IsFiniteSet(Insiders(s))
  BY <1>1, <1>2, FS_Subset
<1>4. Cardinality(Insiders(s)) \in Nat /\ Cardinality(Insiders(t)) \in Nat
  BY <1>2, <1>3, FS_CardinalityType
<1>. QED BY <1>3, <1>4, MinCountAssumption DEF Enough, MinCountAssumption

\* What is safe with some filings is with more, and so is what jobs hold.
LEMMA StaysSafe ==
    ASSUME NEW s, NEW t, s \subseteq t, t \subseteq Filing, NEW w, NEW entry, Safe(s, w, entry)
    PROVE  Safe(t, w, entry)
<1>1. Public(s, w, entry) \subseteq Public(t, w, entry) /\ Public(t, w, entry) \subseteq Filing
  BY DEF Public, Behind
<1>. QED BY <1>1, MoreInsiders DEF Safe

LEMMA StaysKnown ==
    ASSUME NEW s, NEW t, s \subseteq t, t \subseteq Filing, NEW w, NEW d, Known(s, w, d)
    PROVE  Known(t, w, d)
<1>1. Public(s, w, d + 1) \subseteq Public(t, w, d + 1) /\ Public(t, w, d + 1) \subseteq Filing
  BY DEF Public, Behind
<1>. QED BY <1>1, MoreInsiders DEF Known

LEMMA StaysHeld ==
    ASSUME NEW s, NEW t, s \subseteq t, t \subseteq Filing, NEW x, Holds(s, x)
    PROVE  Holds(t, x)
<1>1. x.buys \subseteq t
  BY DEF Holds
<1>2. ASSUME NEW w \in x.todo PROVE Enough(Behind(t, w))
  <2>1. Behind(s, w) \subseteq Behind(t, w) /\ Behind(t, w) \subseteq Filing
    BY DEF Behind
  <2>. QED BY <2>1, MoreInsiders DEF Holds
<1>3. \A w \in DOMAIN x.signal : Known(t, w, x.signal[w])
  BY StaysKnown DEF Holds
<1>4. SafeRows(t, x.batch)
  BY StaysSafe DEF Holds, SafeRows
<1>. QED BY <1>1, <1>2, <1>3, <1>4 DEF Holds

\* An event of some of the stored filings is a cluster in its window.
LEMMA Events ==
    ASSUME NEW buys, buys \subseteq stored, stored \subseteq Filing,
           NEW w \in DOMAIN FindClusterEvents(buys)
    PROVE  /\ w \in Windows
           /\ ClusterIn(stored, w, FindClusterEvents(buys)[w])
           /\ Enough(Behind(stored, w))
<1>. DEFINE ends == {d \in DaysOf(buys) : Forms(buys, d)}
<1>1. PICK d \in ends : w = WindowAt(buys, d)
  BY DEF FindClusterEvents
<1>2. PICK b \in buys : b.day = d
  BY <1>1 DEF DaysOf
<1>3. \A f \in buys : f \in stored /\ f.day \in Day
  BY FilingAssumption DEF FilingAssumption
<1>4. d \in Day /\ b \in LookBack(buys, d)
  BY <1>2, <1>3, WindowAssumption DEF WindowAssumption, LookBack, Day
<1>5. DaysOf(LookBack(buys, d)) \subseteq Day /\ d \in DaysOf(LookBack(buys, d))
  BY <1>2, <1>3, <1>4 DEF DaysOf, LookBack
<1>6. /\ Min(DaysOf(LookBack(buys, d))) \in DaysOf(LookBack(buys, d))
      /\ \A e \in DaysOf(LookBack(buys, d)) : Min(DaysOf(LookBack(buys, d))) <= e
  <2>1. DaysOf(LookBack(buys, d)) \subseteq Nat
    BY <1>5 DEF Day
  <2>. QED BY <1>5, <2>1, FirstOf
<1>7. w = <<w[1], w[2]>> /\ w[1] = Min(DaysOf(LookBack(buys, d))) /\ w[2] = d
  BY <1>1 DEF WindowAt
<1>8. w \in Windows
  BY <1>4, <1>5, <1>6, <1>7 DEF Windows
<1>9. ASSUME NEW f \in LookBack(buys, d) PROVE f \in Behind(stored, w)
  <2>1. f \in buys /\ f.day <= d /\ f.day \in DaysOf(LookBack(buys, d))
    BY DEF LookBack, DaysOf
  <2>2. w[1] <= f.day
    BY <1>6, <1>7, <2>1
  <2>. QED BY <1>3, <1>7, <2>1, <2>2 DEF Behind
<1>10. FindClusterEvents(buys)[w] = Insiders(LookBack(buys, d))
  BY <1>7 DEF FindClusterEvents
<1>11. Enough(LookBack(buys, d))
  BY <1>1 DEF Forms, Enough
<1>12. Insiders(LookBack(buys, d)) \subseteq Insiders(Behind(stored, w))
  BY <1>9 DEF Insiders
<1>13. b \in Behind(stored, w) /\ b.day = w[2]
  BY <1>2, <1>4, <1>7, <1>9
<1>14. Behind(stored, w) \subseteq Filing
  BY DEF Behind
<1>. QED BY <1>8, <1>9, <1>10, <1>11, <1>12, <1>13, <1>14, MoreInsiders DEF ClusterIn, Enough

\* A trade is dated no later than it came to light.
LEMMA Instants ==
    ASSUME NEW f \in Filing
    PROVE  /\ f.pub \in Nat \ {0} /\ f.out \in Nat \ {0} /\ f.pub <= f.out
           /\ LocalDay(f.pub) \in Nat /\ LocalDay(f.out) \in Nat
           /\ LocalDay(f.pub) <= LocalDay(f.out) /\ 1 <= LocalDay(f.pub)
           /\ ~Corrected(f) => f.out = f.pub
<1>1. f.pub \in Nat \ {0} /\ f.out \in Nat \ {0} /\ f.pub <= f.out
  BY FilingAssumption DEF FilingAssumption
<1>. QED BY <1>1 DEF LocalDay, Corrected

\* On a window's signal day everything behind it has been public, but for what
\* corrections have added.
LEMMA SignalKnown ==
    ASSUME Inv, NEW w \in Windows, Enough(Behind(stored, w)), Backing(w) # {}
    PROVE  Known(stored, w, SignalDay(w))
<1>. DEFINE S == {LocalDay(f.pub) : f \in Backing(w)}
<1>1. \A f \in stored : f \in Filing /\ LocalDay(f.out) <= today
  BY DEF Inv, WorldOK
<1>2. S \subseteq 0..today /\ S # {} /\ today \in Nat
  <2>1. today \in Nat
    BY DaysAssumption DEF Inv, WorldOK, Day, DaysAssumption
  <2>2. \A f \in stored : LocalDay(f.pub) \in 0..today
    BY <1>1, <2>1, Instants
  <2>. QED BY <2>1, <2>2 DEF Backing
<1>3. SignalDay(w) \in S /\ \A d \in S : d <= SignalDay(w)
  <2>1. SignalDay(w) = Max(S)
    BY DEF SignalDay
  <2>. HIDE DEF S
  <2>. QED BY <1>2, <2>1, LastOf
<1>4. Behind(stored, w) = Backing(w)
  BY DEF Behind, Backing
<1>5. SignalDay(w) \in Nat
  BY <1>2, <1>3
<1>6. Public(stored, w, SignalDay(w) + 1) = Behind(stored, w)
  <2>1. \A f \in Behind(stored, w) : LocalDay(f.pub) \in S
    BY <1>4
  <2>2. ASSUME NEW f \in Behind(stored, w), ~Corrected(f) PROVE LocalDay(f.out) < SignalDay(w) + 1
    <3>1. LocalDay(f.pub) \in S
      BY <2>1
    <3>. HIDE DEF S
    <3>2. LocalDay(f.pub) <= SignalDay(w)
      BY <1>3, <3>1, Zenon
    <3>3. f.out = f.pub /\ LocalDay(f.pub) \in Nat
      BY <1>1, <2>2, Instants DEF Behind
    <3>. QED BY <1>5, <3>2, <3>3
  <2>. QED BY <2>2 DEF Public
<1>. QED BY <1>5, <1>6 DEF Known

-----------------------------------------------------------------------------
(* Steps *)

LEMMA Starts == Init => Inv
<1>. SUFFICES ASSUME Init PROVE Inv
  OBVIOUS
<1>1. WorldOK
  BY DaysAssumption, ArchiveAssumption DEF Init, WorldOK, DaysAssumption, ArchiveAssumption
<1>2. ClustersOK /\ SafeRows(stored, outcomes) /\ SafeRows(stored, NoRows)
  BY DEF Init, ClustersOK, SafeRows, NoRows
<1>3. Holds(stored, Idle) /\ DOMAIN Idle = DOMAIN Idle
  BY <1>2 DEF Holds, Idle, NoRows, Priced
<1>. QED BY <1>1, <1>2, <1>3 DEF Init, Inv, JobsShaped, JobsOK

\* A job at rest holds nothing.
LEMMA AtRest == \A s : Holds(s, Idle)
BY DEF Holds, Idle, NoRows, SafeRows, Priced

\* One job steps: it keeps the invariant if what it holds and what it wrote do.
LEMMA OneJob ==
    ASSUME Inv, NEW j \in Job, NEW y, job' = [job EXCEPT ![j] = y],
           DOMAIN y = DOMAIN Idle, Holds(stored, y), UNCHANGED world,
           ClustersOK', SafeRows(stored, outcomes)'
    PROVE  Inv'
<1>1. DOMAIN job' = Job /\ \A i \in Job : job'[i] = IF i = j THEN y ELSE job[i]
  BY DEF Inv, JobsShaped
<1>2. JobsShaped'
  BY <1>1 DEF Inv, JobsShaped
<1>3. JobsOK'
  BY <1>1 DEF Inv, JobsOK, world
<1>4. WorldOK'
  BY DEF Inv, WorldOK, world
<1>. QED BY <1>2, <1>3, <1>4 DEF Inv

\* It may have written nothing.
LEMMA OneJobOnly ==
    ASSUME Inv, NEW j \in Job, NEW y, job' = [job EXCEPT ![j] = y],
           DOMAIN y = DOMAIN Idle, Holds(stored, y), UNCHANGED <<world, tables>>
    PROVE  Inv'
<1>1. ClustersOK' /\ SafeRows(stored, outcomes)'
  BY DEF Inv, ClustersOK, world, tables
<1>. QED BY <1>1, OneJob

\* What Inv says of one job.
LEMMA JobFacts ==
    ASSUME Inv, NEW j \in Job
    PROVE  DOMAIN job[j] = DOMAIN Idle /\ Holds(stored, job[j])
BY DEF Inv, JobsShaped, JobsOK

LEMMA RestSteps ==
    ASSUME Inv, NEW j \in Job, job' = [job EXCEPT ![j] = Idle], UNCHANGED <<world, tables>>
    PROVE  Inv'
BY AtRest, OneJobOnly

LEMMA DaySteps == ASSUME Inv, NextDay PROVE Inv'
<1>1. WorldOK'
  <2>1. today' \in Day /\ today < today'
    BY DaysAssumption DEF DaysAssumption, NextDay, Inv, WorldOK, Day
  <2>2. \A f \in stored : LocalDay(f.out) \in Int
    BY Instants DEF Inv, WorldOK
  <2>. QED BY <2>1, <2>2 DEF NextDay, Inv, WorldOK, Day
<1>. QED BY <1>1 DEF NextDay, Inv, tables, ClustersOK, JobsShaped, JobsOK

LEMMA LoadSteps ==
    ASSUME Inv, NEW back, LoadStock(back) \/ LoadBench(back)
    PROVE  Inv'
<1>1. WorldOK'
  BY DaysAssumption DEF DaysAssumption, LoadStock, LoadBench, Inv, WorldOK, Printed
<1>. QED BY <1>1 DEF LoadStock, LoadBench, Inv, tables, ClustersOK, JobsShaped, JobsOK

LEMMA FilingSteps == ASSUME Inv, NEW f \in Filing, StoreFiling(f) PROVE Inv'
<1>1. stored \subseteq stored' /\ stored' \subseteq Filing
  BY DEF Inv, WorldOK, StoreFiling
<1>2. WorldOK'
  BY DEF Inv, WorldOK, StoreFiling
<1>3. ClustersOK'
  <2>. SUFFICES ASSUME NEW w \in DOMAIN clusters
                PROVE  ClusterIn(stored', w, clusters[w])
    BY DEF Inv, ClustersOK, StoreFiling, tables
  <2>1. ClusterIn(stored, w, clusters[w])
    BY DEF Inv, ClustersOK
  <2>. QED BY <1>1, <2>1 DEF ClusterIn, Behind, Insiders
<1>4. SafeRows(stored, outcomes)'
  <2>1. SafeRows(stored, outcomes)
    BY DEF Inv
  <2>2. SafeRows(stored', outcomes)
    BY <1>1, <2>1, StaysSafe DEF SafeRows
  <2>. QED BY <2>2 DEF StoreFiling, tables
<1>5. JobsShaped' /\ JobsOK'
  BY <1>1, StaysHeld DEF Inv, JobsShaped, JobsOK, StoreFiling
<1>. QED BY <1>2, <1>3, <1>4, <1>5 DEF Inv

LEMMA SelectSteps == ASSUME Inv, NEW j \in Job, SelectBuys(j) PROVE Inv'
<1>. DEFINE y == [Idle EXCEPT !.pc = "upsert", !.buys = Selected(stored, Mode[j], today)]
<1>1. y.buys \subseteq stored
  BY DEF Idle, Selected, LookBack
<1>2. DOMAIN y = DOMAIN Idle /\ Holds(stored, y)
  BY <1>1, AtRest DEF Holds, Idle, Priced
<1>. QED BY <1>2, OneJobOnly DEF SelectBuys

LEMMA UpsertSteps == ASSUME Inv, NEW j \in Job, UpsertClusters(j) PROVE Inv'
<1>. DEFINE x == job[j]
            events == FindClusterEvents(x.buys)
            y == [x EXCEPT !.pc = "resolve", !.buys = {}, !.todo = DOMAIN events]
<1>1. DOMAIN x = DOMAIN Idle /\ Holds(stored, x)
  BY JobFacts
<1>2. job' = [job EXCEPT ![j] = y]
  BY <1>1 DEF UpsertClusters, Inv, JobsShaped, Idle
<1>3. \A w \in DOMAIN events : /\ w \in Windows /\ ClusterIn(stored, w, events[w])
                               /\ Enough(Behind(stored, w))
  BY <1>1, Events DEF Holds, Inv, WorldOK
<1>4. DOMAIN y = DOMAIN Idle /\ Holds(stored, y)
  <2>1. /\ DOMAIN y = DOMAIN x /\ y.pc = "resolve" /\ y.buys = {} /\ y.todo = DOMAIN events
        /\ y.signal = x.signal /\ y.batch = x.batch /\ y.hand = x.hand
    BY <1>1 DEF Idle
  <2>. HIDE DEF y, events
  <2>. QED BY <1>1, <1>3, <2>1 DEF Holds, Priced
<1>5. clusters' = Upsert(clusters, events) /\ UNCHANGED <<world, outcomes>>
  BY DEF UpsertClusters
<1>6. ClustersOK'
  <2>. HIDE DEF events
  <2>1. /\ DOMAIN clusters' = DOMAIN clusters \cup DOMAIN events
        /\ \A w \in DOMAIN clusters' : clusters'[w] = IF w \in DOMAIN events THEN events[w] ELSE clusters[w]
    BY <1>5 DEF Upsert
  <2>. QED BY <1>3, <1>5, <2>1 DEF ClustersOK, Inv, world
<1>7. SafeRows(stored, outcomes)'
  BY <1>5 DEF Inv, world
<1>. HIDE DEF y
<1>. QED BY <1>2, <1>4, <1>5, <1>6, <1>7, OneJob

LEMMA ResolveSteps == ASSUME Inv, NEW j \in Job, ResolveDates(j) PROVE Inv'
<1>. DEFINE x == job[j]
            dates == [w \in {w \in x.todo : Backing(w) # {}} |-> SignalDay(w)]
            y == [x EXCEPT !.pc = "price", !.signal = dates]
<1>1. DOMAIN x = DOMAIN Idle /\ Holds(stored, x)
  BY JobFacts
<1>2. job' = [job EXCEPT ![j] = y]
  BY <1>1 DEF ResolveDates, Inv, JobsShaped, Idle
<1>3. ASSUME NEW w \in DOMAIN dates PROVE w \in Windows /\ Known(stored, w, dates[w])
  <2>1. w \in x.todo /\ Backing(w) # {} /\ dates[w] = SignalDay(w)
    OBVIOUS
  <2>. QED BY <1>1, <2>1, SignalKnown DEF Holds
<1>4. DOMAIN y = DOMAIN Idle /\ Holds(stored, y)
  <2>1. /\ DOMAIN y = DOMAIN x /\ y.pc = "price" /\ y.buys = x.buys /\ y.todo = x.todo
        /\ y.signal = dates /\ y.batch = x.batch /\ y.hand = x.hand
    BY <1>1 DEF Idle
  <2>. HIDE DEF y, dates
  <2>. QED BY <1>1, <1>3, <2>1 DEF Holds, Priced
<1>. HIDE DEF y
<1>. QED BY <1>2, <1>4, OneJobOnly DEF ResolveDates

LEMMA EnterSteps == ASSUME Inv, NEW j \in Job, NEW w \in job[j].todo, EnterCluster(j, w) PROVE Inv'
<1>. DEFINE x == job[j]
            entry == After(stock, x.signal[w], 1)
<1>1. DOMAIN x = DOMAIN Idle /\ Holds(stored, x) /\ x.pc = "price"
  BY JobFacts DEF EnterCluster
<1>2. UNCHANGED <<world, tables>>
  BY DEF EnterCluster
<1>3. CASE w \notin DOMAIN x.signal
  <2>. DEFINE y == [x EXCEPT !.todo = @ \ {w}]
  <2>1. job' = [job EXCEPT ![j] = y]
    BY <1>3 DEF EnterCluster
  <2>2. /\ DOMAIN y = DOMAIN x /\ y.pc = x.pc /\ y.buys = x.buys /\ y.todo = x.todo \ {w}
        /\ y.signal = x.signal /\ y.batch = x.batch /\ y.hand = x.hand
    BY <1>1 DEF Idle
  <2>. HIDE DEF y
  <2>3. Holds(stored, y)
    BY <1>1, <2>2 DEF Holds, Priced
  <2>. QED BY <1>1, <1>2, <2>1, <2>2, <2>3, OneJobOnly
<1>4. CASE w \in DOMAIN x.signal /\ x.signal[w] < w[2]
  BY <1>2, <1>4, RestSteps DEF EnterCluster
<1>5. CASE w \in DOMAIN x.signal /\ ~(x.signal[w] < w[2])
  <2>. DEFINE hand == [NoHand EXCEPT !.w = w, !.entry = entry]
              y == [x EXCEPT !.pc = "exit", !.todo = @ \ {w}, !.left = Horizon, !.hand = hand]
  <2>1. job' = [job EXCEPT ![j] = y]
    BY <1>5 DEF EnterCluster
  <2>2. /\ DOMAIN y = DOMAIN x /\ y.pc = "exit" /\ y.buys = x.buys /\ y.todo = x.todo \ {w}
        /\ y.signal = x.signal /\ y.batch = x.batch /\ y.hand = hand /\ y.left = Horizon
    BY <1>1 DEF Idle
  <2>3. hand.w = w /\ hand.entry = entry /\ DOMAIN hand = DOMAIN NoHand
    BY DEF NoHand
  <2>4. w \in Windows /\ x.signal[w] \in Nat
    BY <1>1, <1>5 DEF Holds, Known
  <2>5. w[2] <= x.signal[w]
    BY <1>5, <2>4 DEF Windows, Day
  <2>6. entry # NoDay => entry \in Day /\ x.signal[w] < entry
    BY <2>4, NextSession DEF Inv, WorldOK
  <2>. HIDE DEF y, hand, entry
  <2>7. Holds(stored, y)
    BY <1>1, <1>5, <2>2, <2>3, <2>5, <2>6 DEF Holds, Priced
  <2>. QED BY <1>1, <1>2, <2>1, <2>2, <2>7, OneJobOnly
<1>. QED BY <1>3, <1>4, <1>5

\* An entry after a signal day is safe.
LEMMA EntryIsSafe ==
    ASSUME Inv, NEW w \in Windows, NEW d, Known(stored, w, d), w[2] <= d,
           NEW entry, entry # NoDay => entry \in Day /\ d < entry
    PROVE  Safe(stored, w, entry)
<1>. SUFFICES ASSUME entry # NoDay PROVE entry \in Day /\ w[2] < entry /\ Enough(Public(stored, w, entry))
  BY DEF Safe
<1>1. entry \in Nat /\ d \in Nat /\ w[2] \in Nat /\ d < entry
  BY DaysAssumption DEF Known, Windows, Day, DaysAssumption
<1>2. \A f \in stored : LocalDay(f.out) \in Int
  BY Instants DEF Inv, WorldOK
<1>3. Public(stored, w, d + 1) \subseteq Public(stored, w, entry) /\ Public(stored, w, entry) \subseteq Filing
  BY <1>1, <1>2 DEF Public, Behind, Inv, WorldOK
<1>4. Enough(Public(stored, w, entry))
  BY <1>3, MoreInsiders DEF Known
<1>. QED BY <1>1, <1>4

\* Upserting safe rows leaves safe rows.
LEMMA UpsertSafe ==
    ASSUME NEW s, NEW rows, NEW new, SafeRows(s, rows), SafeRows(s, new)
    PROVE  SafeRows(s, Upsert(rows, new))
BY DEF SafeRows, Upsert

\* Recording a row leaves a job with what it may hold.
LEMMA RecordedHolds ==
    ASSUME Inv, NEW x, DOMAIN x = DOMAIN Idle, Holds(stored, x), Priced(x), NEW h \in x.left,
           NEW row, row.entry = x.hand.entry
    PROVE  DOMAIN Recorded(x, h, row) = DOMAIN Idle /\ Holds(stored, Recorded(x, h, row))
<1>. DEFINE y == Recorded(x, h, row)
            new == [k \in {<<x.hand.w, h>>} |-> row]
<1>1. /\ DOMAIN y = DOMAIN Idle /\ y.buys = x.buys /\ y.todo = x.todo /\ y.signal = x.signal
      /\ y.left = x.left \ {h} /\ y.batch = Upsert(x.batch, new)
      /\ DOMAIN y.hand = DOMAIN NoHand
      /\ \/ y.pc = "price"
         \/ y.pc = "exit" /\ y.hand.w = x.hand.w /\ y.hand.entry = x.hand.entry
  BY DEF Recorded, Idle, NoHand
<1>. HIDE DEF y, new
<1>2. x.hand.w \in Windows /\ Safe(stored, x.hand.w, x.hand.entry) /\ h \in Horizon
  <2>1. /\ x.hand.w \in Windows /\ h \in Horizon /\ Known(stored, x.hand.w, x.signal[x.hand.w])
        /\ x.hand.w[2] <= x.signal[x.hand.w]
        /\ x.hand.entry # NoDay => x.hand.entry \in Day /\ x.signal[x.hand.w] < x.hand.entry
    BY DEF Holds
  <2>. DEFINE w == x.hand.w
              d == x.signal[w]
              e == x.hand.entry
  <2>2. /\ w \in Windows /\ Known(stored, w, d) /\ w[2] <= d
        /\ e # NoDay => e \in Day /\ d < e
    BY <2>1
  <2>. HIDE DEF w, d, e
  <2>3. Safe(stored, w, e)
    BY <2>2, EntryIsSafe
  <2>. QED BY <2>1, <2>3 DEF w, e
<1>3. SafeRows(stored, new)
  <2>1. DOMAIN new = {<<x.hand.w, h>>} /\ \A k \in DOMAIN new : k[1] = x.hand.w /\ new[k] = row
    BY DEF new
  <2>. QED BY <1>2, <2>1 DEF SafeRows
<1>4. SafeRows(stored, Upsert(x.batch, new))
  BY <1>3, UpsertSafe DEF Holds
<1>5. Holds(stored, y)
  BY <1>1, <1>4 DEF Holds, Priced
<1>. QED BY <1>1, <1>5 DEF y

\* Reads that only change what is in hand.
LEMMA HandHolds ==
    ASSUME NEW x, DOMAIN x = DOMAIN Idle, Holds(stored, x), Priced(x), NEW y, DOMAIN y = DOMAIN Idle,
           y.buys = x.buys, y.todo = x.todo, y.signal = x.signal, y.left = x.left, y.batch = x.batch,
           y.hand.w = x.hand.w, y.hand.entry = x.hand.entry, DOMAIN y.hand = DOMAIN NoHand,
           y.hand.h \in x.left
    PROVE  Holds(stored, y)
BY DEF Holds

LEMMA ExitSteps == ASSUME Inv, NEW j \in Job, NEW h \in job[j].left, ReadExit(j, h) PROVE Inv'
<1>. DEFINE x == job[j]
            signal == x.signal[x.hand.w]
            exit == IF x.hand.entry = NoDay THEN NoDay ELSE After(stock, signal, ExitOffset(h))
            row == Row(signal, x.hand.entry, NoDay, NoDay, NoDay)
            y == [x EXCEPT !.pc = "benchEntry", !.hand.h = h, !.hand.exit = exit]
<1>1. DOMAIN x = DOMAIN Idle /\ Holds(stored, x) /\ x.pc = "exit" /\ Priced(x)
  BY JobFacts DEF ReadExit, Priced
<1>2. UNCHANGED <<world, tables>>
  BY DEF ReadExit
<1>3. CASE exit = NoDay
  <2>1. job' = [job EXCEPT ![j] = Recorded(x, h, row)]
    BY <1>3 DEF ReadExit
  <2>2. row.entry = x.hand.entry
    BY DEF Row
  <2>. HIDE DEF row
  <2>3. DOMAIN Recorded(x, h, row) = DOMAIN Idle /\ Holds(stored, Recorded(x, h, row))
    BY <1>1, <2>2, RecordedHolds
  <2>. QED BY <1>2, <2>1, <2>3, OneJobOnly
<1>4. CASE exit # NoDay
  <2>1. job' = [job EXCEPT ![j] = y]
    BY <1>4 DEF ReadExit
  <2>2. DOMAIN x.hand = DOMAIN NoHand
    BY <1>1 DEF Holds
  <2>3. /\ DOMAIN y = DOMAIN Idle /\ y.pc = "benchEntry" /\ y.buys = x.buys /\ y.todo = x.todo
        /\ y.signal = x.signal /\ y.left = x.left /\ y.batch = x.batch
        /\ y.hand.w = x.hand.w /\ y.hand.entry = x.hand.entry
        /\ DOMAIN y.hand = DOMAIN NoHand /\ y.hand.h = h
    BY <1>1, <2>2 DEF Idle, NoHand
  <2>. HIDE DEF y
  <2>4. Holds(stored, y)
    BY <1>1, <2>3, HandHolds
  <2>. QED BY <1>2, <2>1, <2>3, <2>4, OneJobOnly
<1>. QED BY <1>3, <1>4

LEMMA BenchEntrySteps == ASSUME Inv, NEW j \in Job, ReadBenchEntry(j) PROVE Inv'
<1>. DEFINE x == job[j]
            y == [x EXCEPT !.pc = "benchExit", !.hand.bench = OnOrBefore(bench, x.hand.entry)]
<1>1. DOMAIN x = DOMAIN Idle /\ Holds(stored, x) /\ x.pc = "benchEntry" /\ Priced(x)
  BY JobFacts DEF ReadBenchEntry, Priced
<1>2. DOMAIN x.hand = DOMAIN NoHand /\ x.hand.h \in x.left
  BY <1>1 DEF Holds
<1>3. /\ DOMAIN y = DOMAIN Idle /\ y.pc = "benchExit" /\ y.buys = x.buys /\ y.todo = x.todo
      /\ y.signal = x.signal /\ y.left = x.left /\ y.batch = x.batch
      /\ y.hand.w = x.hand.w /\ y.hand.entry = x.hand.entry
      /\ DOMAIN y.hand = DOMAIN NoHand /\ y.hand.h = x.hand.h
  BY <1>1, <1>2 DEF Idle, NoHand
<1>4. job' = [job EXCEPT ![j] = y] /\ UNCHANGED <<world, tables>>
  BY DEF ReadBenchEntry
<1>. HIDE DEF y
<1>5. Holds(stored, y)
  BY <1>1, <1>2, <1>3, HandHolds
<1>. QED BY <1>3, <1>4, <1>5, OneJobOnly

LEMMA BenchExitSteps == ASSUME Inv, NEW j \in Job, ReadBenchExit(j) PROVE Inv'
<1>. DEFINE x == job[j]
            row == Row(x.signal[x.hand.w], x.hand.entry, x.hand.exit,
                       x.hand.bench, OnOrBefore(bench, x.hand.exit))
<1>1. DOMAIN x = DOMAIN Idle /\ Holds(stored, x) /\ x.pc = "benchExit" /\ Priced(x)
  BY JobFacts DEF ReadBenchExit, Priced
<1>2. x.hand.h \in x.left /\ row.entry = x.hand.entry
  BY <1>1 DEF Holds, Row
<1>3. job' = [job EXCEPT ![j] = Recorded(x, x.hand.h, row)] /\ UNCHANGED <<world, tables>>
  BY DEF ReadBenchExit
<1>. HIDE DEF row
<1>4. DOMAIN Recorded(x, x.hand.h, row) = DOMAIN Idle /\ Holds(stored, Recorded(x, x.hand.h, row))
  BY <1>1, <1>2, RecordedHolds
<1>. QED BY <1>3, <1>4, OneJobOnly

LEMMA CommitSteps == ASSUME Inv, NEW j \in Job, CommitOutcomes(j) PROVE Inv'
<1>. DEFINE y == [Idle EXCEPT !.pc = IF Mode[j] = "live" THEN "rate" ELSE "idle"]
<1>1. DOMAIN y = DOMAIN Idle /\ Holds(stored, y)
  BY AtRest DEF Holds, Idle, Priced
<1>2. SafeRows(stored, job[j].batch) /\ SafeRows(stored, outcomes)
  BY JobFacts DEF Holds, Inv
<1>3. SafeRows(stored, outcomes)'
  BY <1>2, UpsertSafe DEF CommitOutcomes, world
<1>4. ClustersOK'
  BY DEF CommitOutcomes, world, Inv, ClustersOK
<1>. QED BY <1>1, <1>3, <1>4, OneJob DEF CommitOutcomes

LEMMA ReadSteps == ASSUME Inv, NEW j \in Job, NEW h \in Horizon, ReadRows(j, h) PROVE Inv'
<1>. DEFINE x == job[j]
            y == [x EXCEPT !.pc = "verdict", !.scored = Cardinality(ScoredRows(h))]
<1>1. DOMAIN x = DOMAIN Idle /\ Holds(stored, x)
  BY JobFacts
<1>2. job' = [job EXCEPT ![j] = y]
  BY <1>1 DEF ReadRows, Inv, JobsShaped, Idle
<1>3. /\ DOMAIN y = DOMAIN x /\ y.pc = "verdict" /\ y.buys = x.buys /\ y.todo = x.todo
      /\ y.signal = x.signal /\ y.batch = x.batch /\ y.hand = x.hand
  BY <1>1 DEF Idle
<1>. HIDE DEF y
<1>4. Holds(stored, y)
  BY <1>1, <1>3 DEF Holds, Priced
<1>. QED BY <1>1, <1>2, <1>3, <1>4, OneJobOnly DEF ReadRows

LEMMA VerdictSteps == ASSUME Inv, NEW j \in Job, GiveVerdict(j) PROVE Inv'
<1>. DEFINE y == [Idle EXCEPT !.verdict = Verdict(job[j].scored, TotalClusters)]
<1>1. DOMAIN y = DOMAIN Idle /\ Holds(stored, y)
  BY AtRest DEF Holds, Idle, Priced
<1>. HIDE DEF y
<1>2. job' = [job EXCEPT ![j] = y]
  BY DEF GiveVerdict, y
<1>. QED BY <1>1, <1>2, OneJobOnly DEF GiveVerdict

LEMMA Inductive == Inv /\ [Next]_vars => Inv'
<1>. SUFFICES ASSUME Inv, [Next]_vars PROVE Inv'
  OBVIOUS
<1>1. CASE NextDay
  BY <1>1, DaySteps
<1>2. ASSUME NEW f \in Filing \ stored, StoreFiling(f) PROVE Inv'
  BY <1>2, FilingSteps
<1>3. ASSUME NEW back \in LoadFrom, LoadStock(back) \/ LoadBench(back) PROVE Inv'
  BY <1>3, LoadSteps
<1>4. ASSUME NEW j \in Job, JobStep(j) PROVE Inv'
  BY <1>4, SelectSteps, UpsertSteps, ResolveSteps, EnterSteps, ExitSteps, BenchEntrySteps,
     BenchExitSteps, CommitSteps, ReadSteps, VerdictSteps DEF JobStep
<1>5. ASSUME NEW j \in Job, Kill(j) PROVE Inv'
  BY <1>5, RestSteps DEF Kill
<1>6. CASE UNCHANGED vars
  BY <1>6 DEF vars, world, tables, Inv, WorldOK, ClustersOK, JobsShaped, JobsOK
<1>. QED BY <1>1, <1>2, <1>3, <1>4, <1>5, <1>6 DEF Next

LEMMA Invariant == Spec => []Inv
<1>1. Init => Inv
  BY Starts
<1>. QED BY <1>1, Inductive, PTL DEF Spec

-----------------------------------------------------------------------------
(* Theorems *)

\* Every recorded cluster was one, whatever window a job selected its trades
\* from and whatever was stored since (_find_cluster_events, the upsert).
THEOREM RealClusters == Spec => []ClustersAreReal
<1>1. Inv => ClustersAreReal
  <2>1. \A w : Backing(w) = Behind(stored, w)
    BY DEF Backing, Behind
  <2>. QED BY <2>1 DEF Inv, ClustersOK, ClusterIn, ClustersAreReal
<1>. QED BY <1>1, Invariant, PTL

\* No position is entered before enough of the news it rests on was public, nor
\* before the last trade of its window, but for the trades that in-place
\* corrections added (entry_timing, calculate_outcomes).
THEOREM NothingAhead == Spec => []NoLookAhead
<1>1. ASSUME Inv PROVE NoLookAhead
  <2>. SUFFICES ASSUME NEW k \in DOMAIN outcomes, outcomes[k].entry # NoDay
                PROVE  /\ k[1][2] < outcomes[k].entry
                       /\ Enough({f \in Backing(k[1]) : LocalDay(f.out) < outcomes[k].entry}
                                   \cup {f \in Backing(k[1]) : Corrected(f)})
    BY DEF NoLookAhead, Enough
  <2>1. Safe(stored, k[1], outcomes[k].entry)
    BY <1>1 DEF Inv, SafeRows
  <2>2. Public(stored, k[1], outcomes[k].entry) =
            {f \in Backing(k[1]) : LocalDay(f.out) < outcomes[k].entry}
               \cup {f \in Backing(k[1]) : Corrected(f)}
    BY DEF Public, Behind, Backing
  <2>. QED BY <2>1, <2>2 DEF Safe
<1>. QED BY <1>1, Invariant, PTL

-----------------------------------------------------------------------------
(* Positions are held for a time *)

\* A day with a row between the signal and the entry.
Filled(days, signal, entry) == \E d \in days : signal < d /\ d < entry

\* An outcome of the right type, its legs in order for the rows there are.
Legs(days, o) ==
    /\ o \in OutcomeType
    /\ o.benchEntry <= o.entry /\ o.benchExit <= o.exit
    /\ o.exit # NoDay =>
         /\ o.entry # NoDay
         /\ Filled(days, o.signal, o.entry) \/ (o.entry < o.exit /\ o.benchEntry <= o.benchExit)

LegsOf(days, rows) == \A k \in DOMAIN rows : Legs(days, rows[k])

\* The prices of a position in hand, read so far.
HandOK(days, index, pc, signal, hand) ==
    /\ hand.entry \in days \cup {NoDay}
    /\ pc # "exit" => /\ hand.entry # NoDay /\ hand.exit \in Day
                      /\ Filled(days, signal, hand.entry) \/ hand.entry < hand.exit
    /\ pc = "benchExit" => hand.bench \in index \cup {NoDay} /\ hand.bench <= hand.entry

\* What a job holds besides.
Keeps(days, index, x) ==
    /\ x.pc \in {"idle", "upsert", "resolve", "price", "exit", "benchEntry", "benchExit",
                 "rate", "verdict"}
    /\ \A w \in DOMAIN x.signal : x.signal[w] \in Day
    /\ Priced(x) => HandOK(days, index, x.pc, x.signal[x.hand.w], x.hand)
    /\ LegsOf(days, x.batch)

LegsInv ==
    /\ stock \subseteq Session /\ bench \subseteq Session
    /\ LegsOf(stock, outcomes)
    /\ \A j \in Job : Keeps(stock, bench, job[j])

\* Days after one, up to another.
Span(days, from, to) == {d \in days : from < d /\ d <= to}

\* Enough later days have an n-th one among them.
LEMMA NthDay ==
    ASSUME NEW days, days \subseteq Day, NEW from \in Nat, NEW n \in Nat \ {0}, After(days, from, n) # NoDay
    PROVE  /\ After(days, from, n) \in days /\ from < After(days, from, n)
           /\ Cardinality(Span(days, from, After(days, from, n))) = n
<1>. DEFINE later == {d \in days : d > from}
            Upto(d) == {e \in later : e <= d}
            Enough_ == {k \in 0..LastDay : Cardinality(Upto(k)) >= n}
<1>0. days \subseteq 1..LastDay /\ LastDay \in Nat /\ later \subseteq 1..LastDay
  BY DaysAssumption DEF Day, DaysAssumption
<1>1. /\ ~(Cardinality(later) < n)
      /\ After(days, from, n) = CHOOSE d \in later : Cardinality({e \in later : e <= d}) = n
  BY DEF After
<1>2. IsFiniteSet(later)
  <2>1. IsFiniteSet(1..LastDay)
    BY <1>0, FS_Interval
  <2>. HIDE DEF later
  <2>. QED BY <1>0, <2>1, FS_Subset
<1>3. \A d : IsFiniteSet(Upto(d)) /\ Cardinality(Upto(d)) \in Nat
  <2>1. \A d : Upto(d) \subseteq later
    OBVIOUS
  <2>. HIDE DEF later, Upto
  <2>. QED BY <1>2, <2>1, FS_Subset, FS_CardinalityType
<1>4. Upto(LastDay) = later /\ Upto(0) = {}
  BY <1>0
<1>5. LastDay \in Enough_ /\ Enough_ \subseteq Nat /\ 0 \notin Enough_
  <2>1. Cardinality(later) \in Nat /\ Cardinality({}) = 0
    BY <1>2, FS_CardinalityType, FS_EmptySet
  <2>2. Cardinality(Upto(LastDay)) >= n /\ ~(Cardinality(Upto(0)) >= n)
    BY <1>1, <1>4, <2>1
  <2>. HIDE DEF Upto
  <2>. QED BY <1>0, <2>2
<1>6. PICK k \in Nat : k \in Enough_ /\ \A e \in Enough_ : k <= e
  <2>. HIDE DEF Enough_
  <2>. QED BY <1>5, FirstOf
<1>7. k \in 1..LastDay /\ k - 1 \in 0..LastDay /\ Cardinality(Upto(k)) >= n /\ ~(Cardinality(Upto(k - 1)) >= n)
  <2>. HIDE DEF Upto
  <2>. QED BY <1>0, <1>5, <1>6
<1>8. k \in later
  <2>. SUFFICES ASSUME k \notin later PROVE FALSE
    OBVIOUS
  <2>1. Upto(k) = Upto(k - 1)
    BY <1>0, <1>7
  <2>. QED BY <1>7, <2>1
<1>9. Cardinality(Upto(k)) = n
  <2>1. Upto(k) = Upto(k - 1) \cup {k} /\ k \notin Upto(k - 1)
    BY <1>0, <1>7, <1>8
  <2>. HIDE DEF Upto
  <2>2. Cardinality(Upto(k)) = Cardinality(Upto(k - 1)) + 1
    BY <1>3, <2>1, FS_AddElement
  <2>. QED BY <1>3, <1>7, <2>2
<1>10. After(days, from, n) \in later /\ Cardinality({e \in later : e <= After(days, from, n)}) = n
  BY <1>1, <1>8, <1>9
<1>11. {e \in later : e <= After(days, from, n)} = Span(days, from, After(days, from, n))
  BY <1>0 DEF Span
<1>. QED BY <1>10, <1>11

\* An exit, at least the second row after the signal, lies after an entry that is
\* a row after it, unless a row has come before the entry.
LEMMA LaterExit ==
    ASSUME NEW days, days \subseteq Day, NEW d \in Nat, NEW n \in Nat, n >= 2, After(days, d, n) # NoDay,
           NEW e \in days, d < e
    PROVE  /\ After(days, d, n) \in Day
           /\ Filled(days, d, e) \/ e < After(days, d, n)
<1>. DEFINE x == After(days, d, n)
<1>1. days \subseteq Nat /\ n \in Nat \ {0}
  BY DaysAssumption DEF DaysAssumption, Day
<1>2. x \in days /\ d < x /\ Cardinality(Span(days, d, x)) = n
  <2>2. After(days, d, n) \in days
    BY <1>1, NthDay
  <2>3. d < After(days, d, n)
    BY <1>1, NthDay
  <2>4. Cardinality(Span(days, d, After(days, d, n))) = n
    BY <1>1, NthDay
  <2>. QED BY <2>2, <2>3, <2>4
<1>. HIDE DEF x
<1>3. ASSUME ~Filled(days, d, e) PROVE e < x
  <2>1. \A y \in days : d < y => e <= y
    BY <1>1, <1>3 DEF Filled
  <2>2. e <= x
    BY <1>2, <2>1
  <2>3. e # x
    <3>. SUFFICES ASSUME e = x PROVE FALSE
      OBVIOUS
    <3>1. Span(days, d, x) = {x}
      <4>1. x \in days /\ x \in Nat /\ d < x /\ \A y \in days : d < y => x <= y /\ y \in Nat
        BY <1>1, <1>2, <2>1
      <4>2. \A y \in days : d < y /\ y <= x <=> y = x
        BY <4>1
      <4>3. {y \in days : d < y /\ y <= x} = {x}
        BY <4>1, <4>2, Zenon
      <4>. QED BY <4>3 DEF Span
    <3>2. Cardinality({x}) = 1
      BY FS_Singleton
    <3>3. n = 1
      BY <1>2, <3>1, <3>2, Zenon
    <3>. QED BY <3>3
  <2>. QED BY <1>1, <1>2, <2>2, <2>3
<1>. QED BY <1>2, <1>3 DEF x

\* The last row on or before a day.
LEMMA LastRow ==
    ASSUME NEW days, days \subseteq Day, NEW d \in Day, DaysAssumption
    PROVE  /\ OnOrBefore(days, d) \in 0..LastDay /\ OnOrBefore(days, d) <= d
           /\ \A e \in days : e <= d => e <= OnOrBefore(days, d)
<1>. DEFINE S == {e \in days : e <= d} \cup {NoDay}
<1>1. S \subseteq 0..d /\ S # {} /\ d \in Nat /\ d <= LastDay /\ LastDay \in Nat
  <2>1. LastDay \in Nat /\ d \in Nat /\ d <= LastDay /\ \A e \in days : e \in Nat
    BY DEF Day, DaysAssumption
  <2>2. \A e \in S : e \in 0..d
    BY <2>1 DEF NoDay
  <2>. QED BY <2>1, <2>2
<1>2. \A e \in days : e <= d => e \in S
  OBVIOUS
<1>3. OnOrBefore(days, d) = Max(S)
  BY DEF OnOrBefore
<1>. HIDE DEF S
<1>4. Max(S) \in S /\ \A e \in S : e <= Max(S)
  BY <1>1, LastOf
<1>5. Max(S) \in 0..LastDay /\ Max(S) <= d
  <2>1. PICK m \in 0..d : m = Max(S)
    BY <1>1, <1>4
  <2>2. m \in 0..LastDay /\ m <= d
    BY <1>1
  <2>. QED BY <2>1, <2>2
<1>. QED BY <1>2, <1>3, <1>4, <1>5

\* And it is one of the rows, or none.
LEMMA LastRowIsRow ==
    ASSUME NEW days, days \subseteq Day, NEW d \in Day, DaysAssumption
    PROVE  OnOrBefore(days, d) \in days \cup {NoDay}
<1>. DEFINE S == {e \in days : e <= d} \cup {NoDay}
<1>1. S \subseteq 0..d /\ S # {} /\ d \in Nat
  <2>1. LastDay \in Nat /\ d \in Nat /\ d <= LastDay /\ \A e \in days : e \in Nat
    BY DEF Day, DaysAssumption
  <2>2. \A e \in S : e \in 0..d
    BY <2>1 DEF NoDay
  <2>. QED BY <2>1, <2>2
<1>2. OnOrBefore(days, d) = Max(S)
  BY DEF OnOrBefore
<1>. HIDE DEF S
<1>3. Max(S) \in S
  BY <1>1, LastOf
<1>. QED BY <1>2, <1>3 DEF S

\* Rows are only added, and what was in order for some is for more.
LEMMA MoreRows ==
    ASSUME LegsInv, NEW days, stock \subseteq days, NEW index, bench \subseteq index
    PROVE  /\ LegsOf(days, outcomes)
           /\ \A j \in Job : Keeps(days, index, job[j])
<1>1. \A signal, entry : Filled(stock, signal, entry) => Filled(days, signal, entry)
  BY DEF Filled
<1>2. \A o : Legs(stock, o) => Legs(days, o)
  BY <1>1 DEF Legs
<1>3. \A rows : LegsOf(stock, rows) => LegsOf(days, rows)
  BY <1>2 DEF LegsOf
<1>4. \A pc, signal, hand : HandOK(stock, bench, pc, signal, hand) => HandOK(days, index, pc, signal, hand)
  BY <1>1 DEF HandOK
<1>5. ASSUME NEW j \in Job PROVE Keeps(days, index, job[j])
  BY <1>3, <1>4 DEF Keeps, LegsInv
<1>. QED BY <1>3, <1>5 DEF LegsInv

-----------------------------------------------------------------------------
(* Steps, and the legs *)

\* A signal day is a day of the model.
LEMMA SignalIsDay ==
    ASSUME Inv, NEW w, Backing(w) # {}
    PROVE  SignalDay(w) \in Day
<1>. DEFINE S == {LocalDay(f.pub) : f \in Backing(w)}
<1>1. \A f \in stored : f.pub \in Nat \ {0} /\ LocalDay(f.pub) <= today
  <2>1. \A f \in stored : f \in Filing /\ LocalDay(f.out) <= today
    BY DEF Inv, WorldOK
  <2>2. today \in Nat
    BY DaysAssumption DEF Inv, WorldOK, Day, DaysAssumption
  <2>3. ASSUME NEW f \in stored PROVE f.pub \in Nat \ {0} /\ LocalDay(f.pub) <= today
    BY <2>1, <2>2, Instants
  <2>. QED BY <2>3
<1>2. today \in Nat /\ today <= LastDay /\ LastDay \in Nat
  BY DaysAssumption DEF Inv, WorldOK, Day, DaysAssumption
<1>3. \A f \in stored : LocalDay(f.pub) \in 1..today
  <2>1. \A p \in Nat \ {0} : LocalDay(p) \in Nat /\ LocalDay(p) >= 1
    BY DEF LocalDay
  <2>. QED BY <1>1, <1>2, <2>1
<1>4. S \subseteq 1..today /\ S # {}
  BY <1>3 DEF Backing
<1>5. SignalDay(w) = Max(S)
  BY DEF SignalDay
<1>. HIDE DEF S
<1>6. SignalDay(w) \in S
  <2>1. S \subseteq 0..today
    BY <1>2, <1>4
  <2>. QED BY <1>2, <1>4, <1>5, <2>1, LastOf
<1>7. SignalDay(w) \in 1..today
  BY <1>4, <1>6
<1>8. 1..today \subseteq 1..LastDay
  BY <1>2
<1>. QED BY <1>7, <1>8 DEF Day

LEMMA LegsOfNone ==
    /\ Keeps(stock, bench, Idle) /\ LegsOf(stock, NoRows)
BY DEF Keeps, Idle, NoRows, LegsOf, Priced

\* One job steps, and no price arrives.
LEMMA OneKeeps ==
    ASSUME Inv, LegsInv, NEW j \in Job, NEW y, job' = [job EXCEPT ![j] = y], Keeps(stock, bench, y),
           UNCHANGED world, LegsOf(stock, outcomes')
    PROVE  LegsInv'
<1>1. \A i \in Job : job'[i] = IF i = j THEN y ELSE job[i]
  BY DEF Inv, JobsShaped
<1>2. \A i \in Job : Keeps(stock, bench, job'[i])
  BY <1>1 DEF LegsInv
<1>3. stock' = stock /\ bench' = bench
  BY DEF world
<1>. QED BY <1>2, <1>3 DEF LegsInv

LEMMA UpsertLegs ==
    ASSUME NEW rows, NEW new, LegsOf(stock, rows), LegsOf(stock, new)
    PROVE  LegsOf(stock, Upsert(rows, new))
BY DEF LegsOf, Upsert

\* A row in order leaves a job that keeps them so.
LEMMA RecordedKeeps ==
    ASSUME LegsInv, NEW x, DOMAIN x = DOMAIN Idle, Priced(x), Keeps(stock, bench, x),
           NEW h, NEW row, Legs(stock, row)
    PROVE  Keeps(stock, bench, Recorded(x, h, row))
<1>. DEFINE y == Recorded(x, h, row)
            new == [k \in {<<x.hand.w, h>>} |-> row]
<1>1. /\ y.signal = x.signal /\ y.batch = Upsert(x.batch, new)
      /\ \/ y.pc = "price"
         \/ y.pc = "exit" /\ y.hand.w = x.hand.w /\ y.hand.entry = x.hand.entry
  BY DEF Recorded, Idle, NoHand
<1>. HIDE DEF y
<1>2. LegsOf(stock, new)
  BY DEF LegsOf
<1>. HIDE DEF new
<1>3. LegsOf(stock, Upsert(x.batch, new))
  BY <1>2, UpsertLegs DEF Keeps
<1>4. Keeps(stock, bench, y)
  BY <1>1, <1>3 DEF Keeps, Priced, HandOK
<1>. QED BY <1>4 DEF y

\* A step of a job that prices a cluster keeps the legs.
LEMMA PricingKeeps ==
    ASSUME Inv, LegsInv, NEW j \in Job,
           \/ \E w \in job[j].todo : EnterCluster(j, w)
           \/ \E h \in job[j].left : ReadExit(j, h)
           \/ ReadBenchEntry(j)
           \/ ReadBenchExit(j)
    PROVE  LegsInv'
<1>. DEFINE x == job[j]
<1>0. /\ DOMAIN x = DOMAIN Idle /\ Holds(stored, x) /\ Keeps(stock, bench, x) /\ LegsOf(stock, outcomes)
      /\ DOMAIN x.hand = DOMAIN NoHand
  BY JobFacts DEF LegsInv, Holds
<1>1. UNCHANGED world /\ UNCHANGED tables
  BY DEF EnterCluster, ReadExit, ReadBenchEntry, ReadBenchExit
<1>2. LegsOf(stock, outcomes')
  BY <1>0, <1>1 DEF tables
<1>3. /\ stock \subseteq Day /\ bench \subseteq Day /\ LastDay \in Nat
      /\ NoDay = 0 /\ \A d \in Day : d \in Nat /\ d # 0 /\ d \in 0..LastDay
  BY DaysAssumption DEF DaysAssumption, LegsInv, Day, NoDay
<1>4. ASSUME NEW w \in x.todo, EnterCluster(j, w) PROVE LegsInv'
  <2>1. x.pc = "price"
    BY <1>4 DEF EnterCluster
  <2>2. CASE w \notin DOMAIN x.signal
    <3>. DEFINE y == [x EXCEPT !.todo = @ \ {w}]
    <3>1. y.pc = x.pc /\ y.signal = x.signal /\ y.batch = x.batch
      BY <1>0 DEF Idle
    <3>2. job' = [job EXCEPT ![j] = y]
      BY <1>4, <2>2 DEF EnterCluster
    <3>. HIDE DEF y
    <3>3. Keeps(stock, bench, y)
      BY <1>0, <2>1, <3>1 DEF Keeps, Priced
    <3>. QED BY <1>1, <1>2, <3>2, <3>3, OneKeeps
  <2>3. CASE w \in DOMAIN x.signal /\ x.signal[w] < w[2]
    <3>1. job' = [job EXCEPT ![j] = Idle]
      BY <1>4, <2>3 DEF EnterCluster
    <3>. QED BY <1>1, <1>2, <3>1, LegsOfNone, OneKeeps
  <2>4. CASE w \in DOMAIN x.signal /\ ~(x.signal[w] < w[2])
    <3>. DEFINE e == After(stock, x.signal[w], 1)
                hand == [NoHand EXCEPT !.w = w, !.entry = e]
                y == [x EXCEPT !.pc = "exit", !.todo = @ \ {w}, !.left = Horizon, !.hand = hand]
    <3>1. y.pc = "exit" /\ y.signal = x.signal /\ y.batch = x.batch /\ y.hand = hand
      BY <1>0 DEF Idle
    <3>2. hand.w = w /\ hand.entry = e
      BY DEF NoHand
    <3>3. job' = [job EXCEPT ![j] = y]
      BY <1>4, <2>4 DEF EnterCluster
    <3>4. e # NoDay => e \in stock
      <4>. DEFINE d == x.signal[w]
                  one == 1
      <4>1. d \in Nat /\ one \in Nat \ {0}
        BY <1>0, <2>4 DEF Holds, Known
      <4>. HIDE DEF d, one
      <4>2. After(stock, d, one) # NoDay => After(stock, d, one) \in stock
        BY <1>3, <4>1, NthDay
      <4>. QED BY <4>2 DEF d, one
    <3>. HIDE DEF y, hand, e
    <3>5. Keeps(stock, bench, y)
      BY <1>0, <3>1, <3>2, <3>4 DEF Keeps, HandOK
    <3>. QED BY <1>1, <1>2, <3>3, <3>5, OneKeeps
  <2>. QED BY <2>2, <2>3, <2>4
<1>5. ASSUME NEW h \in x.left, ReadExit(j, h) PROVE LegsInv'
  <2>. DEFINE signal == x.signal[x.hand.w]
              entry == x.hand.entry
              n == ExitOffset(h)
              exit == IF entry = NoDay THEN NoDay ELSE After(stock, signal, n)
              row == Row(signal, entry, NoDay, NoDay, NoDay)
              y == [x EXCEPT !.pc = "benchEntry", !.hand.h = h, !.hand.exit = exit]
  <2>1. x.pc = "exit" /\ Priced(x)
    BY <1>5 DEF ReadExit, Priced
  <2>2. /\ signal \in Day /\ entry \in stock \cup {NoDay} /\ h \in Horizon
        /\ entry # NoDay => signal < entry
    BY <1>0, <2>1 DEF Holds, Keeps, HandOK
  <2>3. n \in Nat /\ n >= 2
    BY <2>2, HorizonAssumption DEF HorizonAssumption, ExitOffset
  <2>4. CASE exit = NoDay
    <3>1. job' = [job EXCEPT ![j] = Recorded(x, h, row)]
      BY <1>5, <2>4 DEF ReadExit
    <3>2. Legs(stock, row)
      <4>1. /\ row = [signal |-> signal, entry |-> entry, exit |-> 0, benchEntry |-> 0, benchExit |-> 0]
            /\ row.entry = entry /\ row.exit = 0 /\ row.benchEntry = 0 /\ row.benchExit = 0
        BY <1>3 DEF Row
      <4>. HIDE DEF row
      <4>2. entry \in 0..LastDay /\ 0 \in 0..LastDay /\ signal \in Day
        BY <1>3, <2>2
      <4>. HIDE DEF signal, entry
      <4>3. row \in OutcomeType
        BY <4>1, <4>2 DEF OutcomeType
      <4>. QED BY <1>3, <4>1, <4>2, <4>3 DEF Legs
    <3>. HIDE DEF row
    <3>3. Keeps(stock, bench, Recorded(x, h, row))
      BY <1>0, <2>1, <3>2, RecordedKeeps
    <3>. QED BY <1>1, <1>2, <3>1, <3>3, OneKeeps
  <2>5. CASE exit # NoDay
    <3>1. job' = [job EXCEPT ![j] = y]
      BY <1>5, <2>5 DEF ReadExit
    <3>2. /\ y.pc = "benchEntry" /\ y.signal = x.signal /\ y.batch = x.batch
          /\ y.hand.w = x.hand.w /\ y.hand.entry = entry /\ y.hand.exit = exit
      BY <1>0 DEF Idle, NoHand
    <3>3. entry # NoDay /\ exit = After(stock, signal, n)
      BY <2>5
    <3>. HIDE DEF y, n
    <3>4. exit \in Day /\ (Filled(stock, signal, entry) \/ entry < exit)
      <4>. DEFINE d == signal
                  e == entry
      <4>1. d \in Nat /\ e \in stock /\ d < e /\ After(stock, d, n) # NoDay
        BY <1>3, <2>2, <2>5, <3>3
      <4>. HIDE DEF d, e
      <4>2. After(stock, d, n) \in Day /\ (Filled(stock, d, e) \/ e < After(stock, d, n))
        BY <1>3, <2>3, <4>1, LaterExit
      <4>. QED BY <3>3, <4>2 DEF d, e
    <3>. HIDE DEF exit, entry
    <3>5. Keeps(stock, bench, y)
      BY <1>0, <2>2, <3>2, <3>3, <3>4 DEF Keeps, HandOK, signal
    <3>. QED BY <1>1, <1>2, <3>1, <3>5, OneKeeps
  <2>. QED BY <2>4, <2>5
<1>6. ASSUME ReadBenchEntry(j) PROVE LegsInv'
  <2>. DEFINE signal == x.signal[x.hand.w]
              entry == x.hand.entry
              leg == OnOrBefore(bench, entry)
              y == [x EXCEPT !.pc = "benchExit", !.hand.bench = leg]
  <2>1. x.pc = "benchEntry" /\ Priced(x)
    BY <1>6 DEF ReadBenchEntry, Priced
  <2>2. HandOK(stock, bench, "benchEntry", signal, x.hand)
    BY <1>0, <2>1 DEF Keeps
  <2>3. job' = [job EXCEPT ![j] = y]
    BY <1>6 DEF ReadBenchEntry
  <2>4. /\ y.pc = "benchExit" /\ y.signal = x.signal /\ y.batch = x.batch
        /\ y.hand.w = x.hand.w /\ y.hand.entry = entry /\ y.hand.exit = x.hand.exit
        /\ y.hand.bench = leg
    BY <1>0 DEF Idle, NoHand
  <2>5. leg \in bench \cup {NoDay} /\ leg <= entry
    <3>1. entry \in Day
      BY <1>3, <2>2 DEF HandOK
    <3>. HIDE DEF entry
    <3>. QED BY <1>3, <3>1, LastRow, LastRowIsRow, DaysAssumption
  <2>. HIDE DEF y, leg
  <2>6. HandOK(stock, bench, "benchExit", signal, y.hand)
    BY <2>2, <2>4, <2>5 DEF HandOK
  <2>7. Keeps(stock, bench, y)
    BY <1>0, <2>4, <2>6 DEF Keeps
  <2>. QED BY <1>1, <1>2, <2>3, <2>7, OneKeeps
<1>7. ASSUME ReadBenchExit(j) PROVE LegsInv'
  <2>. DEFINE signal == x.signal[x.hand.w]
              entry == x.hand.entry
              exit == x.hand.exit
              first == x.hand.bench
              last == OnOrBefore(bench, exit)
              row == Row(signal, entry, exit, first, last)
  <2>1. x.pc = "benchExit" /\ Priced(x)
    BY <1>7 DEF ReadBenchExit, Priced
  <2>2. HandOK(stock, bench, "benchExit", signal, x.hand) /\ signal \in Day
    BY <1>0, <2>1 DEF Keeps, Holds
  <2>3. job' = [job EXCEPT ![j] = Recorded(x, x.hand.h, row)]
    BY <1>7 DEF ReadBenchExit
  <2>4. /\ entry \in Day /\ exit \in Day /\ first \in bench \cup {NoDay} /\ first <= entry
        /\ Filled(stock, signal, entry) \/ entry < exit
    BY <1>3, <2>2 DEF HandOK
  <2>5. /\ row = [signal |-> signal, entry |-> entry, exit |-> exit, benchEntry |-> first, benchExit |-> last]
        /\ row.signal = signal /\ row.entry = entry /\ row.exit = exit
        /\ row.benchEntry = first /\ row.benchExit = last
    BY DEF Row
  <2>. HIDE DEF row, signal, entry, exit, first
  <2>6. last \in 0..LastDay /\ last <= exit /\ \A b \in bench : b <= exit => b <= last
    BY <1>3, <2>4, LastRow, DaysAssumption
  <2>. HIDE DEF last
  <2>7. Legs(stock, row)
    <3>1. entry < exit => first <= last
      BY <1>3, <2>4, <2>6
    <3>2. first \in 0..LastDay /\ entry \in 0..LastDay /\ exit \in 0..LastDay /\ entry # NoDay
      BY <1>3, <2>4
    <3>3. row \in OutcomeType
      BY <2>2, <2>5, <2>6, <3>2 DEF OutcomeType
    <3>. QED BY <2>4, <2>5, <2>6, <3>1, <3>2, <3>3 DEF Legs
  <2>8. Keeps(stock, bench, Recorded(x, x.hand.h, row))
    BY <1>0, <2>1, <2>7, RecordedKeeps
  <2>. QED BY <1>1, <1>2, <2>3, <2>8, OneKeeps
<1>. QED BY <1>4, <1>5, <1>6, <1>7

LEMMA LegsStep ==
    ASSUME Inv, LegsInv, NEW j \in Job, JobStep(j) \/ Kill(j)
    PROVE  LegsInv'
<1>. DEFINE x == job[j]
<1>0. /\ DOMAIN x = DOMAIN Idle /\ Holds(stored, x) /\ Keeps(stock, bench, x) /\ LegsOf(stock, outcomes)
  BY JobFacts DEF LegsInv
<1>1. CASE \E y : job' = [job EXCEPT ![j] = y] /\ y.pc \in {"idle", "upsert", "rate"} /\ UNCHANGED world
                  /\ y.signal = NoRows /\ y.batch = NoRows /\ LegsOf(stock, outcomes')
  <2>1. PICK y : job' = [job EXCEPT ![j] = y] /\ y.pc \in {"idle", "upsert", "rate"} /\ UNCHANGED world
                  /\ y.signal = NoRows /\ y.batch = NoRows /\ LegsOf(stock, outcomes')
    BY <1>1
  <2>2. Keeps(stock, bench, y)
    BY <2>1, LegsOfNone DEF Keeps, NoRows, Priced
  <2>. QED BY <2>1, <2>2, OneKeeps
<1>2. CASE SelectBuys(j)
  <2>. DEFINE y == [Idle EXCEPT !.pc = "upsert", !.buys = Selected(stored, Mode[j], today)]
  <2>1. y.pc = "upsert" /\ y.signal = NoRows /\ y.batch = NoRows
    BY DEF Idle
  <2>2. job' = [job EXCEPT ![j] = y] /\ UNCHANGED <<world, tables>>
    BY <1>2 DEF SelectBuys
  <2>. HIDE DEF y
  <2>. QED BY <1>0, <1>1, <2>1, <2>2 DEF tables
<1>3. CASE UpsertClusters(j)
  <2>. DEFINE y == [x EXCEPT !.pc = "resolve", !.buys = {}, !.todo = DOMAIN FindClusterEvents(x.buys)]
  <2>1. y.pc = "resolve" /\ y.signal = x.signal /\ y.batch = x.batch
    BY <1>0 DEF Idle
  <2>2. job' = [job EXCEPT ![j] = y] /\ UNCHANGED <<world, outcomes>>
    BY <1>0, <1>3 DEF UpsertClusters, Idle, Inv, JobsShaped
  <2>. HIDE DEF y
  <2>3. Keeps(stock, bench, y)
    BY <1>0, <2>1 DEF Keeps, Priced
  <2>. QED BY <1>0, <2>2, <2>3, OneKeeps
<1>4. CASE ResolveDates(j)
  <2>. DEFINE dates == [w \in {w \in x.todo : Backing(w) # {}} |-> SignalDay(w)]
              y == [x EXCEPT !.pc = "price", !.signal = dates]
  <2>1. y.pc = "price" /\ y.signal = dates /\ y.batch = x.batch
    BY <1>0 DEF Idle
  <2>2. job' = [job EXCEPT ![j] = y] /\ UNCHANGED <<world, tables>>
    BY <1>0, <1>4 DEF ResolveDates, Idle, Inv, JobsShaped
  <2>3. \A w \in DOMAIN dates : dates[w] \in Day
    BY SignalIsDay
  <2>. HIDE DEF y, dates
  <2>4. Keeps(stock, bench, y)
    BY <1>0, <2>1, <2>3 DEF Keeps, Priced
  <2>. QED BY <1>0, <2>2, <2>4, OneKeeps DEF tables
<1>5. CASE CommitOutcomes(j)
  <2>. DEFINE y == [Idle EXCEPT !.pc = IF Mode[j] = "live" THEN "rate" ELSE "idle"]
  <2>1. y.pc \in {"idle", "rate"} /\ y.signal = NoRows /\ y.batch = NoRows
    BY DEF Idle
  <2>2. job' = [job EXCEPT ![j] = y] /\ UNCHANGED <<world, clusters>> /\ outcomes' = Upsert(outcomes, x.batch)
    BY <1>5 DEF CommitOutcomes
  <2>3. LegsOf(stock, outcomes')
    BY <1>0, <2>2, UpsertLegs DEF Keeps
  <2>. HIDE DEF y
  <2>. QED BY <1>0, <1>1, <2>1, <2>2, <2>3
<1>6. ASSUME NEW h \in Horizon, ReadRows(j, h) PROVE LegsInv'
  <2>. DEFINE y == [x EXCEPT !.pc = "verdict", !.scored = Cardinality(ScoredRows(h))]
  <2>1. y.pc = "verdict" /\ y.signal = x.signal /\ y.batch = x.batch
    BY <1>0 DEF Idle
  <2>2. job' = [job EXCEPT ![j] = y] /\ UNCHANGED <<world, tables>>
    BY <1>0, <1>6 DEF ReadRows, Idle, Inv, JobsShaped
  <2>. HIDE DEF y
  <2>3. Keeps(stock, bench, y)
    BY <1>0, <2>1 DEF Keeps, Priced
  <2>. QED BY <1>0, <2>2, <2>3, OneKeeps DEF tables
<1>7. CASE GiveVerdict(j)
  <2>. DEFINE y == [Idle EXCEPT !.verdict = Verdict(x.scored, TotalClusters)]
  <2>1. y.pc = "idle" /\ y.signal = NoRows /\ y.batch = NoRows
    BY DEF Idle
  <2>2. job' = [job EXCEPT ![j] = y] /\ UNCHANGED <<world, tables>>
    BY <1>7, Zenon DEF GiveVerdict
  <2>. HIDE DEF y
  <2>. QED BY <1>0, <1>1, <2>1, <2>2 DEF tables
<1>8. CASE Kill(j)
  BY <1>0, <1>8, LegsOfNone, OneKeeps DEF Kill, tables
<1>. QED BY <1>2, <1>3, <1>4, <1>5, <1>6, <1>7, <1>8, PricingKeeps DEF JobStep

LEMMA LegsStart == Init => LegsInv
BY LegsOfNone DEF Init, LegsInv

LEMMA LegsKeep == ASSUME Inv, LegsInv, [Next]_vars PROVE LegsInv'
<1>1. CASE NextDay
  BY <1>1 DEF NextDay, LegsInv, tables
<1>2. ASSUME NEW f \in Filing \ stored, StoreFiling(f) PROVE LegsInv'
  BY <1>2 DEF StoreFiling, LegsInv, tables
<1>3. ASSUME NEW back \in LoadFrom, LoadStock(back) PROVE LegsInv'
  <2>1. /\ stock \subseteq stock' /\ stock' \subseteq Session /\ bench' = bench
        /\ outcomes' = outcomes /\ job' = job
    BY <1>3 DEF LoadStock, LegsInv, Printed, tables
  <2>2. LegsOf(stock', outcomes) /\ \A j \in Job : Keeps(stock', bench, job[j])
    BY <2>1, MoreRows
  <2>. QED BY <2>1, <2>2 DEF LegsInv
<1>4. ASSUME NEW back \in LoadFrom, LoadBench(back) PROVE LegsInv'
  <2>1. /\ bench \subseteq bench' /\ bench' \subseteq Session /\ stock' = stock
        /\ outcomes' = outcomes /\ job' = job
    BY <1>4 DEF LoadBench, LegsInv, Printed, tables
  <2>2. LegsOf(stock, outcomes) /\ \A j \in Job : Keeps(stock, bench', job[j])
    BY <2>1, MoreRows
  <2>. QED BY <2>1, <2>2 DEF LegsInv
<1>5. ASSUME NEW j \in Job, JobStep(j) \/ Kill(j) PROVE LegsInv'
  BY <1>5, LegsStep
<1>6. CASE UNCHANGED vars
  BY <1>6 DEF vars, world, tables, LegsInv
<1>. QED BY <1>1, <1>2, <1>3, <1>4, <1>5, <1>6 DEF Next

\* Whatever is loaded in whatever order, and between whichever reads: a position
\* is left after it was entered, its benchmark held forwards, or a load has
\* filled a hole before its entry since; and every variable has its type
\* (calculate_outcomes, get_price_and_date_after_days).
THEOREM InOrder == Spec => []LegsInOrder
<1>1. Inv /\ LegsInv /\ [Next]_vars => LegsInv'
  BY LegsKeep
<1>2. ASSUME Inv, LegsInv PROVE LegsInOrder
  <2>. USE <1>2
  <2>1. today \in Day /\ stored \subseteq Filing /\ bench \subseteq Session
    BY DEF Inv, WorldOK, LegsInv
  <2>2. stock \subseteq Session
    BY DEF LegsInv
  <2>3. IsTable(clusters, Windows, SUBSET Insider)
    <3>1. \A w \in DOMAIN clusters : clusters[w] \subseteq Insiders(Behind(stored, w))
      BY DEF Inv, ClustersOK, ClusterIn
    <3>2. \A w : Insiders(Behind(stored, w)) \subseteq Insider
      BY <2>1, FilingAssumption DEF FilingAssumption, Insiders, Behind
    <3>. QED BY <3>1, <3>2 DEF IsTable, Inv, ClustersOK
  <2>4. IsTable(outcomes, Windows \X Horizon, OutcomeType)
    BY DEF IsTable, Inv, SafeRows, LegsInv, LegsOf, Legs
  <2>5. ASSUME NEW j \in Job
        PROVE  /\ job[j].pc \in {"idle", "upsert", "resolve", "price", "exit", "benchEntry",
                                "benchExit", "rate", "verdict"}
               /\ job[j].buys \subseteq Filing
               /\ IsTable(job[j].signal, Windows, Day)
               /\ job[j].todo \subseteq Windows
               /\ IsTable(job[j].batch, Windows \X Horizon, OutcomeType)
    <3>1. Holds(stored, job[j]) /\ Keeps(stock, bench, job[j])
      BY JobFacts DEF LegsInv
    <3>. QED BY <2>1, <3>1 DEF Holds, Keeps, SafeRows, LegsOf, Legs, IsTable
  <2>6. TypeOK
    BY <2>1, <2>2, <2>3, <2>4, <2>5 DEF TypeOK
  <2>. QED BY <2>6 DEF LegsInOrder, HoleFilled, LegsInv, LegsOf, Legs, Filled
<1>3. Init => LegsInv
  BY LegsStart
<1>4. Inv /\ LegsInv => LegsInOrder
  BY <1>2
<1>. QED BY <1>1, <1>3, <1>4, Invariant, PTL DEF Spec

=============================================================================
