----------------------------- MODULE RadarProofs -----------------------------
(***************************************************************************)
(* For any tickers, filings, calendar and scores, whatever fails and       *)
(* however daily reports and publications fall between the script's steps: *)
(* a filing is only missed through failures, the state file runs ahead of  *)
(* the reports only by what a failure cost, and what has not changed is    *)
(* not reported.                                                           *)
(***************************************************************************)
EXTENDS Radar, FiniteSetTheorems, WellFoundedInduction, TLAPS

\* Of the rows of a table that share a key, those of the highest score.
BestAt(table, x) ==
    LET at == {table[k] : k \in {k \in DOMAIN table : Key(k) = x}}
    IN {r \in at : \A q \in at : q.score <= r.score}

\* The state file was taken of the rows the history remembers.
FileOfSeen ==
    /\ DOMAIN file = {Key(k) : k \in DOMAIN seen}
    /\ \A x \in DOMAIN file : file[x] \in BestAt(seen, x)

\* Of every cluster in the state file a report is due or was made with as many
\* insiders, unless one was lost.
FileTold ==
    /\ \A x \in DOMAIN file \cap DOMAIN due : file[x].count <= due[x]
    /\ \A x \in DOMAIN file \ lost : x \in DOMAIN due \/ (x \in DOMAIN told /\ file[x].count <= told[x])

\* Cron has had its turn on day d.
Past(d) == d < today \/ (d = today /\ fired)

\* On every day that should have listed a filing that is not stored, something
\* failed.
MissedBad ==
    \A f \in published \ stored : \A d \in Workday :
        (f.pub < d /\ d <= f.pub + LastHours /\ Past(d)) => d \in bad

\* The inductive invariant.
Inv == TypeOK /\ FileOfSeen /\ FileTold /\ MissedBad

\* No stretch of days without work is as long as the scrape looks back.
NoGap ==
    \A d \in Day : d + LastHours < LastDay => \E e \in Workday : d < e /\ e <= d + LastHours

-----------------------------------------------------------------------------
(* Numbers *)

\* A set of numbers has a first one.
LEMMA FirstOf ==
    ASSUME NEW S, S \subseteq Nat, S # {}
    PROVE  Min(S) \in S /\ \A d \in S : Min(S) <= d
<1>1. IsWellFoundedOn(OpToRel(<, Nat), Nat)
  BY NatLessThanWellFounded
<1>2. PICK x \in S : \A y \in S : ~(<<y, x>> \in OpToRel(<, Nat))
  BY <1>1, WFMin, Zenon
<1>3. ASSUME NEW y \in S PROVE x <= y
  <2>1. y < x => <<y, x>> \in OpToRel(<, Nat)
    <3>1. <<y, x>>[1] = y /\ <<y, x>>[2] = x /\ <<y, x>> \in Nat \X Nat
      OBVIOUS
    <3>. QED BY <3>1, Zenon DEF OpToRel
  <2>2. ~(y < x)
    BY <1>2, <2>1, Zenon
  <2>. QED BY <2>2
<1>. QED BY <1>3 DEF Min

\* And, when bounded, a last one.
LEMMA LastOf ==
    ASSUME NEW n \in Nat, NEW S, S \subseteq 0..n, S # {}
    PROVE  Max(S) \in S
<1>. DEFINE T == {n - d : d \in S}
<1>1. T \subseteq Nat /\ T # {}
  OBVIOUS
<1>2. Min(T) \in T /\ \A t \in T : Min(T) <= t
  <2>. HIDE DEF T
  <2>. QED BY <1>1, FirstOf
<1>3. PICK m \in S : Min(T) = n - m
  BY <1>2
<1>4. ASSUME NEW d \in S PROVE m >= d
  <2>1. n - d \in T
    OBVIOUS
  <2>2. n - m <= n - d
    <3>. HIDE DEF T
    <3>. QED BY <1>2, <1>3, <2>1
  <2>. QED BY <2>2
<1>. QED BY <1>4 DEF Max

\* What a quotient is worth.
LEMMA Quotient ==
    ASSUME NEW b \in Nat \ {0}, NEW c \in Nat, NEW m \in Nat
    PROVE  (c * m) \div b \in Nat /\ (m <= b => (c * m) \div b <= c)
<1>. DEFINE a == c * m
<1>2. a \in Nat
  OBVIOUS
<1>3. (a \div b) \in Int /\ (a % b) \in 0..(b - 1) /\ a = b * (a \div b) + (a % b)
  <2>. HIDE DEF a
  <2>. QED BY <1>2
<1>4. a \div b >= 0
  <2>. HIDE DEF a
  <2>. QED BY <1>2, <1>3
<1>5. ASSUME m <= b PROVE a \div b <= c
  <2>1. a <= c * b
    BY <1>5
  <2>. HIDE DEF a
  <2>. QED BY <1>2, <1>3, <2>1
<1>. QED BY <1>3, <1>4, <1>5

-----------------------------------------------------------------------------
(* Tables *)

\* A score stays within the range of a point.
LEMMA ScoreInRange ==
    ASSUME NEW insiders, insiders \subseteq Insider, insiders # {}, NEW since \in Nat
    PROVE  Score(insiders, since) \in 0..1000
<1>1. IsFiniteSet(insiders) /\ Cardinality(insiders) \in Nat \ {0}
  BY InsiderAssumption, FS_Subset, FS_CardinalityType, FS_EmptySet DEF InsiderAssumption
<1>2. CountScore(Cardinality(insiders)) \in 0..500
  <2>. DEFINE m == Min({Cardinality(insiders) - 1, FullCount - 1})
  <2>1. FullCount - 1 \in Nat \ {0} /\ Cardinality(insiders) - 1 \in Nat
    BY <1>1, ScoreAssumption DEF ScoreAssumption
  <2>2. m \in {Cardinality(insiders) - 1, FullCount - 1} /\ m <= FullCount - 1
    <3>1. {Cardinality(insiders) - 1, FullCount - 1} \subseteq Nat
      BY <2>1
    <3>. QED BY <3>1, FirstOf
  <2>3. m \in Nat
    BY <2>1, <2>2
  <2>. DEFINE b == FullCount - 1
  <2>4. CountScore(Cardinality(insiders)) = (500 * m) \div b
    BY DEF CountScore
  <2>5. b \in Nat \ {0} /\ m <= b
    BY <2>1, <2>2
  <2>. HIDE DEF m, b
  <2>6. (500 * m) \div b \in Nat /\ (500 * m) \div b <= 500
    BY <2>3, <2>5, Quotient
  <2>. QED BY <2>4, <2>6
<1>3. RoleScore(insiders) \in 0..300
  <2>. DEFINE S == {Seniority[i] : i \in insiders}
  <2>1. S \subseteq 0..100 /\ S # {}
    BY ScoreAssumption DEF ScoreAssumption
  <2>2. RoleScore(insiders) = 3 * Max(S)
    BY DEF RoleScore
  <2>. HIDE DEF S
  <2>3. PICK m \in 0..100 : m = Max(S)
    BY <2>1, LastOf
  <2>. QED BY <2>2, <2>3
<1>4. RecencyScore(since) \in 0..200
  <2>. DEFINE q == (200 * since) \div Window
  <2>1. q \in Nat
    BY WindowAssumption, ScoreAssumption, Quotient DEF WindowAssumption, ScoreAssumption
  <2>2. RecencyScore(since) = Max({0, 200 - q})
    BY DEF RecencyScore
  <2>. HIDE DEF q
  <2>3. CASE 200 - q >= 0
    <3>1. Max({0, 200 - q}) \in {0, 200 - q}
      BY <2>1, <2>3, LastOf
    <3>. QED BY <2>1, <2>2, <2>3, <3>1
  <2>4. CASE 200 - q < 0
    <3>1. Max({0, 200 - q}) = 0
      BY <2>1, <2>4 DEF Max
    <3>. QED BY <2>2, <3>1
  <2>. QED BY <2>1, <2>3, <2>4
<1>5. PICK a \in 0..500, b \in 0..300, c \in 0..200 : Score(insiders, since) = a + b + c
  BY <1>2, <1>3, <1>4, Zenon DEF Score
<1>. QED BY <1>5

\* Every event of a ticker's trades is a window of days with its insiders.
LEMMA Events ==
    ASSUME NEW buys, \A f \in buys : f.day \in Day /\ f.ins \in Insider,
           NEW w \in DOMAIN FindClusterEvents(buys)
    PROVE  /\ w \in Windows /\ w[2] \in DaysOf(buys)
           /\ FindClusterEvents(buys)[w] \subseteq Insider
           /\ FindClusterEvents(buys)[w] # {}
<1>. DEFINE ends == {d \in DaysOf(buys) : Forms(buys, d)}
<1>1. PICK d \in ends : w = WindowAt(buys, d)
  BY DEF FindClusterEvents
<1>2. PICK b \in buys : b.day = d
  BY <1>1 DEF DaysOf
<1>3. d \in Day /\ b \in LookBack(buys, d)
  BY <1>2, WindowAssumption DEF WindowAssumption, LookBack, Day
<1>4. DaysOf(LookBack(buys, d)) \subseteq Day /\ d \in DaysOf(LookBack(buys, d))
  BY <1>2, <1>3 DEF DaysOf, LookBack
<1>5. /\ Min(DaysOf(LookBack(buys, d))) \in DaysOf(LookBack(buys, d))
      /\ Min(DaysOf(LookBack(buys, d))) <= d
  <2>1. DaysOf(LookBack(buys, d)) \subseteq Nat
    BY <1>4 DEF Day
  <2>. QED BY <1>4, <2>1, FirstOf
<1>6. w = <<w[1], w[2]>> /\ w[1] = Min(DaysOf(LookBack(buys, d))) /\ w[2] = d
  BY <1>1 DEF WindowAt
<1>7. w \in Windows
  BY <1>3, <1>4, <1>5, <1>6 DEF Windows
<1>8. FindClusterEvents(buys)[w] = Insiders(LookBack(buys, d))
  BY <1>6 DEF FindClusterEvents
<1>. QED BY <1>1, <1>3, <1>6, <1>7, <1>8 DEF Insiders, LookBack

LEMMA InTable ==
    ASSUME NEW f, NEW keys, NEW values,
           \A k \in DOMAIN f : k \in keys /\ f[k] \in values
    PROVE  IsTable(f, keys, values)
BY DEF IsTable

\* What the detector upserts are rows of clusters, in either mode.
LEMMA DetectedTable ==
    ASSUME TypeOK, NEW mode \in {"history", "live"}
    PROVE  IsTable(DetectedRows(mode), Ticker \X Windows, RowType)
<1>. DEFINE Some(t) == Selected(BuysOf(t), mode, today)
            events == [t \in Ticker |-> FindClusterEvents(Some(t))]
            Since(w) == IF mode = "history" THEN 0 ELSE today - w[2]
            Row(insiders, since) == [count |-> Cardinality(insiders), score |-> Score(insiders, since)]
            new == DetectedRows(mode)
<1>1. SUFFICES ASSUME NEW k \in DOMAIN new
               PROVE  k \in Ticker \X Windows /\ new[k] \in RowType
  BY InTable
<1>2. PICK t \in Ticker : k \in {t} \X DOMAIN events[t]
  BY DEF DetectedRows
<1>3. k = <<t, k[2]>> /\ k[1] = t /\ k[2] \in DOMAIN FindClusterEvents(Some(t))
  BY <1>2
<1>4. \A f \in Some(t) : f.day \in Day /\ f.ins \in Insider /\ (mode = "live" => f.day <= today)
  BY FilingAssumption DEF FilingAssumption, TypeOK, BuysOf, Selected, LookBack
<1>. DEFINE insiders == FindClusterEvents(Some(t))[k[2]]
<1>5. k[2] \in Windows /\ k[2][2] \in DaysOf(Some(t)) /\ insiders \subseteq Insider /\ insiders # {}
  <2>. HIDE DEF Some
  <2>. QED BY <1>3, <1>4, Events
<1>6. Since(k[2]) \in Nat
  <2>1. today \in Nat /\ k[2][2] \in Day /\ (mode = "live" => k[2][2] <= today)
    BY <1>4, <1>5 DEF TypeOK, Day, DaysOf
  <2>. QED BY <2>1 DEF Day
<1>7. new[k] = Row(insiders, Since(k[2]))
  BY <1>3 DEF DetectedRows
<1>8. Cardinality(insiders) \in 0..Cardinality(Insider)
  <2>. HIDE DEF insiders
  <2>. QED BY <1>5, InsiderAssumption, FS_Subset, FS_CardinalityType DEF InsiderAssumption
<1>9. Score(insiders, Since(k[2])) \in 0..1000
  <2>. HIDE DEF insiders, Since
  <2>. QED BY <1>5, <1>6, ScoreInRange
<1>10. Row(insiders, Since(k[2])) \in RowType
  <2>. HIDE DEF insiders, Since
  <2>. QED BY <1>8, <1>9 DEF RowType, Count
<1>. HIDE DEF new, Row
<1>. QED BY <1>3, <1>5, <1>7, <1>10, Zenon

LEMMA UpsertTable ==
    ASSUME NEW old, NEW new, NEW keys, NEW values, IsTable(old, keys, values), IsTable(new, keys, values)
    PROVE  IsTable(Upsert(old, new), keys, values)
BY DEF IsTable, Upsert

\* A snapshot is a table of keys.
LEMMA SnapshotTable ==
    ASSUME TypeOK, NEW s \in Snapshots
    PROVE  /\ DOMAIN s = {Key(k) : k \in DOMAIN rows}
           /\ \A x \in DOMAIN s : s[x] \in BestAt(rows, x)
           /\ IsTable(s, Keys, RowType)
<1>1. /\ DOMAIN s = {Key(k) : k \in DOMAIN rows}
      /\ \A x \in DOMAIN s : s[x] \in BestAt(rows, x)
  BY DEF Snapshots, BestAt
<1>2. \A k \in DOMAIN rows : Key(k) \in Keys /\ rows[k] \in RowType
  BY DEF TypeOK, IsTable, Windows, Key, Keys
<1>. QED BY <1>1, <1>2 DEF IsTable, BestAt

-----------------------------------------------------------------------------
(* Types *)

LEMMA LastIsDay == LastDay \in Nat \ {0} /\ Workday \subseteq Nat
BY DayAssumption DEF DayAssumption, Day

LEMMA TypeInit == Init => TypeOK
<1>1. DOMAIN NoRows = {} /\ \A keys, values : IsTable(NoRows, keys, values)
  BY DEF IsTable, NoRows
<1>2. 1 \in Day
  BY LastIsDay DEF Day
<1>3. TickersOf(DOMAIN NoRows) = {}
  BY <1>1 DEF TickersOf
<1>. HIDE DEF NoRows
<1>. QED BY <1>1, <1>2, <1>3 DEF Init, TypeOK

\* A script with something to report is not through.
LEMMA FirstTicker ==
    ASSUME TypeOK, pc = "report"
    PROVE  Min(todo) \in todo /\ Min(todo) \in Ticker
<1>1. todo \subseteq Nat /\ todo # {}
  BY TickerAssumption DEF TypeOK, TickerAssumption
<1>. QED BY <1>1, FirstOf DEF TypeOK

LEMMA TypeStep == ASSUME TypeOK, [Next]_vars PROVE TypeOK'
<1>. USE DEF script, history, flags
<1>1. CASE NextDay
  <2>1. today' \in Day
    BY <1>1, LastIsDay DEF NextDay, TypeOK, Day
  <2>. QED BY <1>1, <2>1 DEF NextDay, TypeOK
<1>2. ASSUME NEW f \in Filing, Publish(f) PROVE TypeOK'
  BY <1>2 DEF Publish, TypeOK
<1>3. CASE DailyReport
  BY <1>3, DetectedTable, UpsertTable DEF DailyReport, TypeOK
<1>4. CASE Scrape
  BY <1>4 DEF Scrape, TypeOK, Listed
<1>5. ASSUME NEW kept \in SUBSET Listed, ScrapePartly(kept) PROVE TypeOK'
  BY <1>5 DEF ScrapePartly, TypeOK, Listed, Fails
<1>6. CASE Detect \/ DetectFails
  <2>1. rows' = rows \/ rows' = Upsert(rows, DetectedRows("history"))
    BY <1>6 DEF Detect, DetectFails
  <2>2. IsTable(rows', Ticker \X Windows, RowType)
    BY <2>1, DetectedTable, UpsertTable DEF TypeOK
  <2>. QED BY <1>6, <2>2 DEF Detect, DetectFails, Fails, TypeOK
<1>7. CASE Diff \/ DiffDiesSaved
  <2>1. PICK s \in Snapshots :
          /\ file' = s
          /\ \/ /\ Diff /\ todo' = TickersOf(Changed(s)) /\ pc' = IF Changed(s) = {} THEN "idle" ELSE "report"
                /\ due' = [x \in Changed(s) |-> s[x].count] /\ lost' = lost
             \/ /\ DiffDiesSaved /\ todo' = todo /\ pc' = "idle" /\ due' = due
                /\ lost' = lost \cup Changed(s)
    BY <1>7 DEF Diff, DiffDiesSaved
  <2>2. IsTable(s, Keys, RowType)
    BY SnapshotTable
  <2>3. Changed(s) \subseteq DOMAIN s
    BY DEF Changed
  <2>4. TickersOf(Changed(s)) \subseteq Ticker /\ (TickersOf(Changed(s)) # {} <=> Changed(s) # {})
    BY <2>2, <2>3 DEF IsTable, Keys, TickersOf
  <2>5. /\ UNCHANGED <<today, fired, published, stored, rows, told>> /\ seen' = rows /\ bad' \subseteq Day
        /\ pc = "diff"
    BY <1>7 DEF Diff, DiffDiesSaved, Fails, TypeOK
  <2>6. todo' \subseteq Ticker /\ pc' \in {"idle", "report"} /\ (todo' # {} <=> pc' = "report")
    BY <2>1, <2>4, <2>5 DEF TypeOK
  <2>7. lost' \subseteq Keys
    BY <2>1, <2>2, <2>3 DEF TypeOK, IsTable
  <2>8. IsTable(due', Keys, Count) /\ TickersOf(DOMAIN due') = todo'
    <3>1. \A x \in Changed(s) : x \in Keys /\ s[x].count \in Count
      BY <2>2, <2>3 DEF IsTable, RowType
    <3>. QED BY <2>1, <3>1 DEF TypeOK, IsTable
  <2>. QED BY <2>1, <2>2, <2>5, <2>6, <2>7, <2>8 DEF TypeOK
<1>8. CASE DiffDies
  <2>1. IsTable(NoRows, Keys, RowType) /\ IsTable(NoRows, Ticker \X Windows, RowType)
    BY DEF IsTable, NoRows
  <2>. QED BY <1>8, <2>1 DEF DiffDies, TypeOK, Fails
<1>9. CASE Report
  <2>. DEFINE t == Min(todo)
              mine == {x \in DOMAIN due : x[1] = t}
              rest == [x \in DOMAIN due \ mine |-> due[x]]
              more == [x \in mine |-> due[x]]
  <2>1. /\ pc = "report" /\ todo' = todo \ {t} /\ told' = Upsert(told, more) /\ due' = rest
        /\ lost' = lost \ mine /\ pc' = IF todo = {t} THEN "idle" ELSE "report"
        /\ UNCHANGED <<today, fired, published, stored, rows, file, seen, bad>>
    BY <1>9 DEF Report
  <2>2. t \in todo
    BY <2>1, FirstTicker
  <2>3. IsTable(rest, Keys, Count) /\ IsTable(more, Keys, Count)
    BY DEF TypeOK, IsTable
  <2>4. TickersOf(DOMAIN rest) = todo \ {t}
    BY <2>2 DEF TypeOK, TickersOf
  <2>. HIDE DEF t, mine, rest, more
  <2>5. IsTable(told', Keys, Count)
    BY <2>1, <2>3, UpsertTable DEF TypeOK
  <2>. QED BY <2>1, <2>2, <2>3, <2>4, <2>5 DEF TypeOK
<1>10. CASE ReportFails
  <2>1. IsTable(NoRows, Keys, Count) /\ TickersOf(DOMAIN NoRows) = {}
    BY DEF IsTable, NoRows, TickersOf
  <2>. QED BY <1>10, <2>1 DEF ReportFails, TypeOK, Fails, IsTable
<1>11. CASE UNCHANGED vars
  BY <1>11 DEF vars, TypeOK
<1>. QED BY <1>1, <1>2, <1>3, <1>4, <1>5, <1>6, <1>7, <1>8, <1>9, <1>10, <1>11
         DEF Next, ScriptStep, Failure

-----------------------------------------------------------------------------
(* The state file *)

\* A key that is not reported has no more insiders than the file says, and
\* before a comparison no report is due.
LEMMA QuietKeys ==
    ASSUME TypeOK, FileTold, pc = "diff", NEW s \in Snapshots, NEW x \in DOMAIN s, x \notin Changed(s)
    PROVE  DOMAIN due = {} /\ (x \in lost \/ (x \in DOMAIN told /\ s[x].count <= told[x]))
<1>1. DOMAIN due = {}
  BY DEF TypeOK, TickersOf
<1>2. x \in DOMAIN file /\ ~Reportable(file[x], s[x])
  BY DEF Changed
<1>3. Cardinality(Insider) \in Nat
  BY FS_CardinalityType, InsiderAssumption DEF InsiderAssumption
<1>4. s[x].count \in Count /\ file[x].count \in Count
  <2>1. s[x] \in RowType /\ file[x] \in RowType
    BY <1>2, SnapshotTable DEF TypeOK, IsTable
  <2>. QED BY <2>1 DEF RowType
<1>5. s[x].count <= file[x].count
  BY <1>2, <1>3, <1>4 DEF Reportable, Count
<1>6. ASSUME x \notin lost PROVE x \in DOMAIN told /\ s[x].count <= told[x]
  <2>1. x \in DOMAIN told /\ file[x].count <= told[x]
    BY <1>1, <1>2, <1>6 DEF FileTold
  <2>2. told[x] \in Count
    BY <2>1 DEF TypeOK, IsTable
  <2>. QED BY <1>3, <1>4, <1>5, <2>1, <2>2 DEF Count
<1>. QED BY <1>1, <1>6

LEMMA FileStep ==
    ASSUME TypeOK, FileOfSeen, FileTold, [Next]_vars
    PROVE  FileOfSeen' /\ FileTold'
<1>1. CASE Diff \/ DiffDiesSaved
  <2>1. PICK s \in Snapshots :
          /\ pc = "diff" /\ file' = s /\ seen' = rows /\ told' = told
          /\ \/ due' = [x \in Changed(s) |-> s[x].count] /\ lost' = lost
             \/ due' = due /\ lost' = lost \cup Changed(s)
    BY <1>1 DEF Diff, DiffDiesSaved
  <2>2. FileOfSeen'
    <3>1. DOMAIN s = {Key(k) : k \in DOMAIN rows} /\ \A x \in DOMAIN s : s[x] \in BestAt(rows, x)
      BY SnapshotTable
    <3>. QED BY <2>1, <3>1 DEF FileOfSeen, BestAt
  <2>3. DOMAIN due = {}
    BY <2>1 DEF TypeOK, TickersOf
  <2>4. \A x \in DOMAIN s : s[x].count \in Int
    <3>1. Cardinality(Insider) \in Nat
      BY FS_CardinalityType, InsiderAssumption DEF InsiderAssumption
    <3>2. \A x \in DOMAIN s : s[x] \in RowType
      BY SnapshotTable DEF IsTable
    <3>3. \A x \in DOMAIN s : s[x].count \in Count
      BY <3>2 DEF RowType
    <3>. QED BY <3>1, <3>3 DEF Count
  <2>5. \A x \in DOMAIN s \ Changed(s) : x \in lost \/ (x \in DOMAIN told /\ s[x].count <= told[x])
    BY <2>1, QuietKeys
  <2>6. FileTold'
    BY <2>1, <2>3, <2>4, <2>5 DEF FileTold
  <2>. QED BY <2>2, <2>6
<1>2. CASE file' = NoRows /\ seen' = NoRows
  BY <1>2 DEF FileOfSeen, FileTold, NoRows
<1>3. CASE Report
  <2>. DEFINE mine == {x \in DOMAIN due : x[1] = Min(todo)}
  <2>1. /\ UNCHANGED <<file, seen>> /\ lost' = lost \ mine
        /\ DOMAIN due' = DOMAIN due \ mine /\ \A x \in DOMAIN due' : due'[x] = due[x]
        /\ DOMAIN told' = DOMAIN told \cup mine
        /\ \A x \in DOMAIN told' : told'[x] = IF x \in mine THEN due[x] ELSE told[x]
        /\ mine \subseteq DOMAIN due
    BY <1>3 DEF Report, Upsert
  <2>. HIDE DEF mine
  <2>. QED BY <2>1 DEF FileOfSeen, FileTold, BestAt
<1>4. CASE ReportFails
  BY <1>4 DEF ReportFails, FileOfSeen, FileTold, BestAt, NoRows
<1>5. CASE UNCHANGED <<file, seen, flags>>
  BY <1>5 DEF FileOfSeen, FileTold, BestAt, flags
<1>. QED BY <1>1, <1>2, <1>3, <1>4, <1>5
         DEF Next, NextDay, Publish, DailyReport, ScriptStep, Scrape, Detect, Failure, ScrapePartly,
             DetectFails, DiffDies, script, history, vars

-----------------------------------------------------------------------------
(* The scrapes *)

LEMMA MissedStep == ASSUME TypeOK, MissedBad, [Next]_vars PROVE MissedBad'
<1>. DEFINE Missed(f, d) == f.pub < d /\ d <= f.pub + LastHours
<1>0. /\ \A f \in published : f.pub \in Nat
      /\ today \in Nat /\ \A d \in Workday : d \in Nat
  BY FilingAssumption, DayAssumption DEF FilingAssumption, DayAssumption, TypeOK, Day
<1>1. CASE NextDay
  <2>1. UNCHANGED <<published, stored, bad>> /\ today' = today + 1 /\ fired' = FALSE
    BY <1>1 DEF NextDay, history
  <2>2. \A d \in Workday : Past(d)' => Past(d)
    BY <1>0, <1>1, <2>1 DEF NextDay, Past
  <2>. QED BY <2>1, <2>2 DEF MissedBad
<1>2. ASSUME NEW g \in Filing, Publish(g) PROVE MissedBad'
  <2>1. published' = published \cup {g} /\ g.pub = today /\ UNCHANGED <<stored, bad, today, fired>>
    BY <1>2 DEF Publish, history
  <2>2. \A d \in Workday : Past(d)' => Past(d) /\ d <= today
    BY <1>0, <2>1 DEF Past
  <2>. QED BY <1>0, <2>1, <2>2 DEF MissedBad
<1>3. CASE Scrape
  <2>1. /\ stored' = stored \cup Listed /\ UNCHANGED <<published, today, bad>> /\ fired' = TRUE
    BY <1>3 DEF Scrape, history
  <2>2. ASSUME NEW f \in published' \ stored', NEW d \in Workday, Missed(f, d), Past(d)' PROVE d \in bad'
    <3>1. f \in published \ stored /\ ~(today - LastHours <= f.pub)
      BY <2>1, <2>2 DEF Listed
    <3>2. d < today
      BY <1>0, <2>1, <2>2, <3>1, HoursAssumption DEF Past, HoursAssumption
    <3>. QED BY <2>1, <2>2, <3>1, <3>2 DEF MissedBad, Past
  <2>. QED BY <2>2 DEF MissedBad
<1>4. ASSUME NEW kept \in SUBSET Listed, ScrapePartly(kept) PROVE MissedBad'
  <2>1. /\ stored \subseteq stored' /\ UNCHANGED <<published, today>> /\ bad' = bad \cup {today}
    BY <1>4 DEF ScrapePartly, Fails
  <2>2. \A d \in Workday : Past(d)' => Past(d) \/ d = today
    BY <2>1 DEF Past
  <2>. QED BY <2>1, <2>2 DEF MissedBad
<1>5. CASE UNCHANGED <<published, stored, today, fired>> /\ bad \subseteq bad'
  <2>1. \A d : Past(d)' => Past(d)
    BY <1>5 DEF Past
  <2>. QED BY <1>5, <2>1 DEF MissedBad
<1>. QED BY <1>1, <1>2, <1>3, <1>4, <1>5
         DEF Next, DailyReport, ScriptStep, Detect, Diff, Report, Failure,
             DetectFails, DiffDies, DiffDiesSaved, ReportFails, Fails, script, history, vars

-----------------------------------------------------------------------------
(* Theorems *)

LEMMA Invariant == Spec => []Inv
<1>1. Init => Inv
  BY TypeInit DEF Init, Inv, FileOfSeen, FileTold, MissedBad, NoRows
<1>2. Inv /\ [Next]_vars => Inv'
  BY TypeStep, FileStep, MissedStep DEF Inv
<1>. QED BY <1>1, <1>2, PTL DEF Spec

\* Every variable has its type; scores stay within the thousand tenths of a
\* point that the weights of compute_cluster_score allow.
THEOREM TypeCorrect == Spec => []TypeOK
<1>1. Inv => TypeOK
  BY DEF Inv
<1>. QED BY <1>1, Invariant, PTL

\* In a calendar without a gap as long as the scrape looks back, a filing that
\* no later run will list and that is not stored was lost to a failure on
\* every working day that would have listed it.
THEOREM OnlyFailures == ASSUME NoGap PROVE Spec => []OnlyFailuresSkip
<1>1. Inv => OnlyFailuresSkip
  <2>1. SUFFICES ASSUME Inv, NEW f \in published \ stored, f.pub + LastHours < today
                 PROVE  /\ \E d \in Workday : f.pub < d /\ d <= f.pub + LastHours
                        /\ \A d \in Workday : f.pub < d /\ d <= f.pub + LastHours => d \in bad
    BY DEF OnlyFailuresSkip
  <2>2. f.pub \in Day /\ f.pub \in Nat /\ today \in Nat /\ today <= LastDay
    BY <2>1, FilingAssumption, LastIsDay DEF Inv, TypeOK, FilingAssumption, Day
  <2>3. \E d \in Workday : f.pub < d /\ d <= f.pub + LastHours
    <3>1. f.pub + LastHours < LastDay
      BY <2>1, <2>2, LastIsDay, HoursAssumption DEF HoursAssumption
    <3>. QED BY <2>2, <3>1, NoGap DEF NoGap
  <2>4. ASSUME NEW d \in Workday, f.pub < d, d <= f.pub + LastHours PROVE d \in bad
    <3>1. Past(d)
      BY <2>1, <2>2, <2>4, LastIsDay, HoursAssumption DEF HoursAssumption, Past
    <3>. QED BY <2>1, <2>4, <3>1 DEF Inv, MissedBad
  <2>. QED BY <2>3, <2>4
<1>. QED BY <1>1, Invariant, PTL

\* Of every cluster in the state file a report was made with as many insiders,
\* or is due, unless a failure between the save and the report has cost it
\* (_diff, main and the loop of run_daily_radar.sh).
THEOREM FileFlagged == Spec => []InsidersFlagged
<1>1. Inv => InsidersFlagged
  BY DEF Inv, FileTold, InsidersFlagged
<1>. QED BY <1>1, Invariant, PTL

\* A row that is as it was is nothing to report.
LEMMA SameRow ==
    ASSUME NEW p \in RowType, NEW q \in RowType
    PROVE  /\ p.score \in Nat /\ q.score \in Nat
           /\ (p.count = q.count /\ p.score = q.score) => ~Reportable(p, q)
<1>1. Cardinality(Insider) \in Nat
  BY FS_CardinalityType, InsiderAssumption DEF InsiderAssumption
<1>2. \A n \in Nat : \A v : v \in 0..n => v \in Nat
  OBVIOUS
<1>3. /\ p.score \in Nat /\ q.score \in Nat /\ p.count \in Nat /\ q.count \in Nat
  <2>1. p.score \in 0..1000 /\ q.score \in 0..1000
        /\ p.count \in 0..Cardinality(Insider) /\ q.count \in 0..Cardinality(Insider)
    BY DEF RowType, Count
  <2>2. \A v : v \in 0..1000 => v \in Nat
    OBVIOUS
  <2>3. \A v : v \in 0..Cardinality(Insider) => v \in Nat
    BY <1>1, <1>2
  <2>. QED BY <2>1, <2>2, <2>3, SMT
<1>4. ASSUME p.count = q.count, p.score = q.score PROVE ~Reportable(p, q)
  <2>1. q.score - p.score = 0 /\ ~(q.count > p.count)
    BY <1>3, <1>4
  <2>2. Abs(0) = 0
    BY DEF Abs
  <2>3. ~(0 >= Threshold)
    BY ScoreAssumption DEF ScoreAssumption
  <2>. QED BY <2>1, <2>2, <2>3, Zenon DEF Reportable
<1>. QED BY <1>3, <1>4

\* Without a tie, the best rows of a key of unchanged rows are one row.
LEMMA SameBest ==
    ASSUME TypeOK, NEW t, ~Tied(t), RowsOf(seen, t) = RowsOf(rows, t),
           NEW x, x[1] = t, NEW p \in BestAt(seen, x), NEW q \in BestAt(rows, x)
    PROVE  p \in RowType /\ q \in RowType /\ p.count = q.count /\ p.score = q.score
<1>. DEFINE Of(table) == {k \in DOMAIN table : k[1] = t}
<1>1. Of(seen) = Of(rows) /\ \A k \in Of(rows) : seen[k] = rows[k]
  <2>1. DOMAIN RowsOf(seen, t) = Of(seen) /\ DOMAIN RowsOf(rows, t) = Of(rows)
    BY DEF RowsOf
  <2>2. \A k \in Of(seen) : RowsOf(seen, t)[k] = seen[k]
    BY DEF RowsOf
  <2>3. \A k \in Of(rows) : RowsOf(rows, t)[k] = rows[k]
    BY DEF RowsOf
  <2>. QED BY <2>1, <2>2, <2>3
<1>2. PICK k \in DOMAIN seen : Key(k) = x /\ p = seen[k]
  BY DEF BestAt
<1>3. PICK l \in DOMAIN rows : Key(l) = x /\ q = rows[l]
  BY DEF BestAt
<1>4. k[1] = t /\ l[1] = t
  BY <1>2, <1>3 DEF Key
<1>5. k \in DOMAIN rows /\ l \in DOMAIN seen /\ seen[k] = rows[k] /\ seen[l] = rows[l]
  BY <1>1, <1>4
<1>6. p \in RowType /\ q \in RowType
  BY <1>2, <1>3 DEF TypeOK, IsTable
<1>7. p.score <= q.score /\ q.score <= p.score
  <2>1. \A r \in BestAt(seen, x), m \in DOMAIN seen : Key(m) = x => seen[m].score <= r.score
    BY DEF BestAt
  <2>2. \A r \in BestAt(rows, x), m \in DOMAIN rows : Key(m) = x => rows[m].score <= r.score
    BY DEF BestAt
  <2>. QED BY <1>2, <1>3, <1>5, <2>1, <2>2
<1>8. p.score = q.score
  BY <1>6, <1>7, SameRow
<1>9. p.count = q.count
  BY <1>2, <1>3, <1>4, <1>5, <1>8 DEF Tied
<1>. QED BY <1>6, <1>8, <1>9

\* A ticker whose rows are those behind the state file is not reported, unless
\* two of its rows tie.
THEOREM Quiet == Spec => QuietWhenUnchanged
<1>. DEFINE Step == pc = "diff" => \A t \in todo' : Tied(t) \/ RowsOf(seen, t) # RowsOf(rows, t)
<1>1. Inv /\ [Next]_vars => [Step]_vars
  <2>1. SUFFICES ASSUME Inv, Next, pc = "diff", NEW t \in todo'
                 PROVE  Tied(t) \/ RowsOf(seen, t) # RowsOf(rows, t)
    OBVIOUS
  <2>2. TypeOK /\ todo = {}
    BY <2>1 DEF Inv, TypeOK
  <2>3. CASE Diff
    <3>1. PICK s \in Snapshots : todo' = TickersOf(Changed(s))
      BY <2>3 DEF Diff
    <3>2. PICK x \in Changed(s) : x[1] = t
      BY <2>1, <3>1 DEF TickersOf
    <3>3. SUFFICES ASSUME ~Tied(t), RowsOf(seen, t) = RowsOf(rows, t) PROVE FALSE
      OBVIOUS
    <3>4. x \in DOMAIN s /\ s[x] \in BestAt(rows, x) /\ x \in {Key(k) : k \in DOMAIN rows}
      BY <2>2, <3>2, SnapshotTable DEF Changed
    <3>5. x \in DOMAIN file
      <4>1. PICK k \in DOMAIN rows : Key(k) = x
        BY <3>4
      <4>2. k[1] = t
        BY <3>2, <4>1 DEF Key
      <4>3. k \in DOMAIN RowsOf(rows, t)
        BY <4>2 DEF RowsOf
      <4>4. k \in DOMAIN seen
        <5>1. k \in DOMAIN RowsOf(seen, t)
          BY <3>3, <4>3
        <5>. QED BY <5>1 DEF RowsOf
      <4>. QED BY <2>1, <4>1, <4>4 DEF Inv, FileOfSeen
    <3>6. file[x] \in BestAt(seen, x)
      BY <2>1, <3>5 DEF Inv, FileOfSeen
    <3>7. /\ file[x] \in RowType /\ s[x] \in RowType
          /\ file[x].count = s[x].count /\ file[x].score = s[x].score
      BY <2>2, <3>2, <3>3, <3>4, <3>6, SameBest
    <3>8. ~Reportable(file[x], s[x])
      BY <3>7, SameRow
    <3>. QED BY <3>2, <3>5, <3>8 DEF Changed
  <2>4. CASE todo' = todo
    BY <2>1, <2>2, <2>4
  <2>. QED BY <2>1, <2>3, <2>4
           DEF Next, NextDay, Publish, DailyReport, ScriptStep, Scrape, Detect, Report, Failure,
               ScrapePartly, DetectFails, DiffDies, DiffDiesSaved, ReportFails, script
<1>. QED BY <1>1, Invariant, PTL DEF Spec, QuietWhenUnchanged

=============================================================================
