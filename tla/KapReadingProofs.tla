-------------------------- MODULE KapReadingProofs ---------------------------
(***************************************************************************)
(* Proofs about what the ingest reads from KAP: the list of disclosures it *)
(* fetches (ListFetch) and the table in each filing (DkbParser).           *)
(*                                                                         *)
(* The list, for every cap, every window and every density of disclosures: *)
(* no row of the window is lost without its day being reported, the        *)
(* windows still to ask for never overlap, and bisection costs at most two *)
(* requests a day, less one.  IInv says where each expected row is:        *)
(* merged, on a reported day, or inside a window still to be asked for.    *)
(* BInv says that the pending windows tile what is left of the window, and *)
(* what asking for them can still cost.                                    *)
(*                                                                         *)
(* The filing, for every table of any number of rows, every limit of words *)
(* and every tolerance: a table whose cells all arrive is read completely  *)
(* and truthfully; a page break of any length costs rows but invents none; *)
(* nor do cells buried in text, as long as the dates arrive.  DkbInv says  *)
(* where the scanner stands in the table and what it has found of it,      *)
(* ThinInv what it has of the row it is in when cells may be missing.      *)
(***************************************************************************)
EXTENDS ListFetch, DkbParser, FiniteSetTheorems, SequenceTheorems, WellFoundedInduction, TLAPS

\* Row r lies on a day of window w.
Inside(r, w) == w[1] <= r[1] /\ r[1] <= w[2]

RowsKept == expected \subseteq RowsOf(window)

Accounted ==
    call # "idle" =>
        \A r \in expected :
            \/ r \in merged
            \/ r[1] \in overCap
            \/ \E w \in pending : Inside(r, w)

Settled == call = "done" => pending = {}

IInv == FetchTypeOK /\ RowsKept /\ Accounted /\ Settled

-----------------------------------------------------------------------------

\* Bisecting a window of two days or more gives two windows that cover it.
LEMMA HalvesCover ==
    ASSUME NEW w \in Window, w[1] < w[2]
    PROVE  /\ Halves(w) \subseteq Window
           /\ Middle(w) \in Int /\ w[1] <= Middle(w) /\ Middle(w) < w[2]
           /\ \A r \in Day \X (1..MaxPerDay) : Inside(r, w) => \E h \in Halves(w) : Inside(r, h)
<1>1. w[1] \in Int /\ w[2] \in Int /\ w[1] \in Day /\ w[2] \in Day
  BY DayAssumption DEF Window, Day
<1>2. Middle(w) \in Int /\ w[1] <= Middle(w) /\ Middle(w) < w[2]
  BY <1>1 DEF Middle
<1>3. Halves(w) \subseteq Window
  BY <1>1, <1>2, DayAssumption DEF Halves, Window, Day
<1>4. ASSUME NEW r \in Day \X (1..MaxPerDay), Inside(r, w)
      PROVE  \E h \in Halves(w) : Inside(r, h)
  <2>1. r[1] \in Int
    BY DayAssumption DEF Day
  <2>2. CASE r[1] <= Middle(w)
    BY <1>2, <1>4, <2>1, <2>2 DEF Halves, Inside
  <2>3. CASE r[1] > Middle(w)
    BY <1>2, <1>4, <2>1, <2>3 DEF Halves, Inside
  <2>. QED BY <1>2, <2>1, <2>2, <2>3
<1>. QED BY <1>2, <1>3, <1>4

\* An answer below the cap is everything the window holds.
LEMMA ShortAnswerIsWhole ==
    ASSUME ErrorBody = FALSE, NEW w, NEW R, RawAnswer(w, R), Cardinality(R) < Cap
    PROVE  R = RowsOf(w)
BY CapAssumption DEF RawAnswer, IsAnswer

\* Disclosures are only ever added, so the window holds what it held.
LEMMA RowsGrow ==
    ASSUME FetchTypeOK, File
    PROVE  RowsOf(window) \subseteq RowsOf(window)'
<1>1. \A d \in Day : filed[d] \in Nat /\ filed'[d] \in Nat /\ filed[d] <= filed'[d]
  BY MaxPerDayAssumption DEF FetchTypeOK, File
<1>2. \A d \in window[1]..window[2] : d \in Day
  BY DayAssumption DEF FetchTypeOK, Window, Day
<1>. QED BY <1>1, <1>2 DEF RowsOf, File

-----------------------------------------------------------------------------

LEMMA InitIInv == FetchInit => IInv
<1> SUFFICES ASSUME FetchInit PROVE IInv
  OBVIOUS
<1>1. window \in Window
  BY DayAssumption DEF FetchInit, Window, Day
<1>. QED
  BY <1>1 DEF FetchInit, IInv, FetchTypeOK, RowsKept, Accounted, Settled

LEMMA FileKeeps == IInv /\ File => IInv'
<1> SUFFICES ASSUME IInv, File PROVE IInv'
  OBVIOUS
<1>1. FetchTypeOK'
  <2>1. filed' \in [Day -> 0..MaxPerDay]
    BY DayAssumption, MaxPerDayAssumption DEF IInv, FetchTypeOK, File, Day
  <2>. QED BY <2>1 DEF IInv, FetchTypeOK, File
<1>2. RowsKept'
  <2>1. RowsOf(window) \subseteq RowsOf(window)'
    BY RowsGrow DEF IInv, FetchTypeOK
  <2>. QED BY <2>1 DEF IInv, RowsKept, File
<1>3. Accounted' /\ Settled'
  BY DEF IInv, Accounted, Settled, File, Inside
<1>. QED BY <1>1, <1>2, <1>3 DEF IInv

LEMMA CallKeeps == ASSUME NEW w \in Window, IInv, Call(w) PROVE IInv'
<1>1. \A r \in RowsOf(w) : r \in Day \X (1..MaxPerDay) /\ Inside(r, w)
  BY DayAssumption DEF RowsOf, Window, Day, Inside
<1>2. FetchTypeOK'
  BY <1>1 DEF IInv, FetchTypeOK, Call
<1>3. RowsKept'
  BY DEF RowsKept, Call, RowsOf
<1>4. Accounted' /\ Settled'
  BY <1>1 DEF Accounted, Settled, Call, Inside
<1>. QED BY <1>2, <1>3, <1>4 DEF IInv

LEMMA AskKeeps == ASSUME ErrorBody = FALSE, IInv, Ask PROVE IInv'
<1>. PICK w \in pending : \E R \in SUBSET RowsOf(w) :
        RawAnswer(w, R) /\ (Accept(w, R) \/ AcceptOverCap(w, R) \/ Bisect(w, R))
  BY DEF Ask
<1>. PICK R \in SUBSET RowsOf(w) :
        RawAnswer(w, R) /\ (Accept(w, R) \/ AcceptOverCap(w, R) \/ Bisect(w, R))
  OBVIOUS
<1>1. w \in Window /\ w[1] \in Day /\ w[2] \in Day /\ w[1] \in Int /\ w[2] \in Int
  BY DayAssumption DEF IInv, FetchTypeOK, Window, Day
<1>2. RowsOf(w) \subseteq Day \X (1..MaxPerDay)
  BY <1>1, DayAssumption DEF RowsOf, Window, Day
<1>3. /\ UNCHANGED <<filed, window, expected, call>>
      /\ requests' \in Nat
      /\ call = "asking"
  BY DEF Ask, IInv, FetchTypeOK
<1>4. RowsKept'
  BY <1>3 DEF IInv, RowsKept, RowsOf
<1>5. Settled'
  BY <1>3 DEF Settled
<1>6. \A r \in expected : r \in RowsOf(window) /\ r \in Day \X (1..MaxPerDay)
  BY DEF IInv, RowsKept, FetchTypeOK
<1>7. CASE Accept(w, R)
  <2>1. R = RowsOf(w)
    BY <1>7, ShortAnswerIsWhole DEF Accept
  <2>2. FetchTypeOK'
    BY <1>2, <1>3, <1>7 DEF Accept, IInv, FetchTypeOK
  <2>3. \A r \in expected : Inside(r, w) => r \in RowsOf(w)
    BY <1>1, <1>6 DEF RowsOf, Inside, Day
  <2>4. Accounted'
    BY <1>3, <1>7, <2>1, <2>3 DEF Accept, IInv, Accounted, Inside
  <2>. QED BY <1>4, <1>5, <2>2, <2>4 DEF IInv
<1>8. CASE AcceptOverCap(w, R)
  <2>1. w[1] = w[2]
    BY <1>1, <1>8 DEF AcceptOverCap, Window
  <2>2. FetchTypeOK'
    BY <1>1, <1>2, <1>3, <1>8 DEF AcceptOverCap, IInv, FetchTypeOK
  <2>3. \A r \in expected : Inside(r, w) => r[1] = w[1]
    BY <1>1, <1>6, <2>1 DEF Inside, Day
  <2>4. Accounted'
    BY <1>3, <1>8, <2>3 DEF AcceptOverCap, IInv, Accounted, Inside
  <2>. QED BY <1>4, <1>5, <2>2, <2>4 DEF IInv
<1>9. CASE Bisect(w, R)
  <2>1. /\ Halves(w) \subseteq Window
        /\ \A r \in Day \X (1..MaxPerDay) : Inside(r, w) => \E h \in Halves(w) : Inside(r, h)
    BY <1>1, <1>9, HalvesCover DEF Bisect
  <2>2. FetchTypeOK'
    BY <1>3, <1>9, <2>1 DEF Bisect, IInv, FetchTypeOK
  <2>3. Accounted'
    <3> SUFFICES ASSUME NEW r \in expected
                 PROVE  \/ r \in merged
                        \/ r[1] \in overCap
                        \/ \E v \in pending' : Inside(r, v)
      BY <1>3, <1>9 DEF Bisect, Accounted, Inside
    <3>1. CASE Inside(r, w)
      BY <1>6, <1>9, <2>1, <3>1 DEF Bisect
    <3>2. CASE ~Inside(r, w)
      BY <1>3, <1>9, <3>2 DEF Bisect, IInv, Accounted
    <3>. QED BY <3>1, <3>2
  <2>. QED BY <1>4, <1>5, <2>2, <2>3 DEF IInv
<1>. QED BY <1>7, <1>8, <1>9

LEMMA EndKeeps == IInv /\ (Return \/ Raise \/ UNCHANGED fetchVars) => IInv'
<1> SUFFICES ASSUME IInv, Return \/ Raise \/ UNCHANGED fetchVars PROVE IInv'
  OBVIOUS
<1>1. FetchTypeOK'
  BY DEF IInv, FetchTypeOK, Return, Raise, fetchVars
<1>2. RowsKept'
  BY DEF IInv, RowsKept, RowsOf, Return, Raise, fetchVars
<1>3. Accounted'
  BY DEF IInv, Accounted, Inside, Return, Raise, fetchVars
<1>4. Settled'
  BY DEF IInv, Settled, Return, Raise, fetchVars
<1>. QED BY <1>1, <1>2, <1>3, <1>4 DEF IInv

\* As long as KAP answers with lists, the invariant holds throughout.
LEMMA Invariant == ASSUME ErrorBody = FALSE PROVE FetchSpec => []IInv
<1>1. IInv /\ [FetchNext]_fetchVars => IInv'
  BY FileKeeps, CallKeeps, AskKeeps, EndKeeps DEF FetchNext
<1>. QED BY <1>1, InitIInv, PTL DEF FetchSpec

\* No silent truncation, for every window, density and cap: a row the window
\* held when fetch_disclosure_list was called is in the result, or its day was
\* reported as kap_list_day_over_cap.
THEOREM NoSilentLoss == ASSUME ErrorBody = FALSE PROVE FetchSpec => []LossIsLogged
<1>1. IInv => LossIsLogged
  BY DEF IInv, Accounted, Settled, LossIsLogged
<1>. QED BY <1>1, Invariant, PTL

-----------------------------------------------------------------------------
(* What the bisection costs *)

Days(v) == v[2] - v[1] + 1

\* The pending windows tile the end of the window: each ends where the window
\* does or where another begins.
Tiling ==
    /\ PendingDisjoint
    /\ \A v \in pending :
          /\ window[1] <= v[1] /\ v[2] <= window[2]
          /\ v[2] = window[2] \/ \E x \in pending : x[1] = v[2] + 1

\* The days from v to the end of the window can still cost two requests each,
\* less one for each pending window.
Budget ==
    /\ IsFiniteSet(pending)
    /\ call = "idle" => pending = {} /\ requests = 0
    /\ \A v \in pending :
          Leftmost(v) => requests + 2 * (window[2] - v[1] + 1) - Cardinality(pending) <= 2 * Days(window) - 1

BInv == FetchTypeOK /\ Tiling /\ Budget /\ RequestsBounded

\* The numbers of a window are days.
LEMMA Numbers ==
    ASSUME NEW v \in Window
    PROVE  v[1] \in Int /\ v[2] \in Int /\ v[1] <= v[2] /\ 1 <= v[1] /\ v[2] <= Today
BY DayAssumption DEF Window, Day

\* No more windows are pending than days are left.
LEMMA FewWindows ==
    ASSUME BInv, NEW w \in pending, Leftmost(w)
    PROVE  Cardinality(pending) <= window[2] - w[1] + 1
<1>. DEFINE days == w[1]..window[2]
            start == [v \in pending |-> v[1]]
<1>1. \A v \in pending : v \in Window /\ v[1] \in Int /\ v[2] \in Int /\ v[1] <= v[2]
  BY Numbers DEF BInv, FetchTypeOK
<1>2. window[2] \in Int /\ w[1] \in Int /\ w[1] <= window[2]
  BY <1>1, Numbers DEF BInv, FetchTypeOK, Tiling
<1>3. \A v \in pending : w[1] <= v[1] /\ v[1] <= window[2]
  BY <1>1, <1>2 DEF BInv, Tiling, Leftmost
<1>4. start \in [pending -> days]
  BY <1>1, <1>2, <1>3
<1>5. IsFiniteSet(days) /\ Cardinality(days) = window[2] - w[1] + 1
  BY <1>2, FS_Interval
<1>6. \A u, v \in pending : u # v => start[u] # start[v]
  BY <1>1 DEF BInv, Tiling, PendingDisjoint
<1>7. IsFiniteSet(pending) /\ Cardinality(pending) \in Nat
  BY FS_CardinalityType DEF BInv, Budget
<1>8. ~(Cardinality(days) < Cardinality(pending))
  <2>. HIDE DEF days, start
  <2>. QED BY <1>4, <1>5, <1>6, <1>7, FS_PigeonHole
<1>. QED BY <1>2, <1>5, <1>7, <1>8

\* The next window was answered: what it could cost is given back.
LEMMA Answered ==
    ASSUME BInv, NEW w \in pending, Leftmost(w), pending' = pending \ {w},
           requests' \in {requests, requests + 1}, UNCHANGED <<window, call>>, call = "asking"
    PROVE  Tiling' /\ Budget'
<1>1. \A v \in pending : v[1] \in Int /\ v[2] \in Int /\ v[1] <= v[2]
  BY Numbers DEF BInv, FetchTypeOK
<1>2. window[1] \in Int /\ window[2] \in Int /\ requests \in Nat
  BY Numbers DEF BInv, FetchTypeOK
<1>3. \A v \in pending' : w[2] < v[1]
  BY <1>1 DEF BInv, Tiling, PendingDisjoint, Leftmost
<1>4. Tiling'
  BY <1>1, <1>3 DEF BInv, Tiling, PendingDisjoint
<1>5. IsFiniteSet(pending') /\ Cardinality(pending') = Cardinality(pending) - 1 /\ Cardinality(pending) \in Nat
  BY FS_RemoveElement, FS_CardinalityType DEF BInv, Budget
<1>6. ASSUME NEW v \in pending', Leftmost(v)'
      PROVE  v[1] = w[2] + 1
  <2>1. w[2] # window[2]
    BY <1>1, <1>2, <1>3, <1>6 DEF BInv, Tiling
  <2>2. PICK x \in pending : x[1] = w[2] + 1
    BY <2>1 DEF BInv, Tiling
  <2>3. x \in pending'
    BY <1>1, <2>2
  <2>. QED BY <1>1, <1>3, <1>6, <2>2, <2>3 DEF Leftmost
<1>7. ASSUME NEW v \in pending', Leftmost(v)'
      PROVE  requests' + 2 * (window[2] - v[1] + 1) - Cardinality(pending') <= 2 * Days(window) - 1
  <2>1. requests + 2 * (window[2] - w[1] + 1) - Cardinality(pending) <= 2 * Days(window) - 1
    BY DEF BInv, Budget
  <2>2. v[1] = w[2] + 1
    BY <1>6, <1>7
  <2>. QED BY <1>1, <1>2, <1>5, <2>1, <2>2 DEF Days
<1>8. Budget'
  BY <1>5, <1>7 DEF Budget, Days
<1>. QED BY <1>4, <1>8

\* Bisecting it costs the request that its halves save.
LEMMA Split ==
    ASSUME BInv, NEW w \in pending, Leftmost(w), w[1] < w[2], pending' = (pending \ {w}) \cup Halves(w),
           requests' \in {requests, requests + 1}, UNCHANGED <<window, call>>, call = "asking"
    PROVE  Tiling' /\ Budget'
<1>. DEFINE l == <<w[1], Middle(w)>>
            r == <<Middle(w) + 1, w[2]>>
<1>1. \A v \in pending : v \in Window /\ v[1] \in Int /\ v[2] \in Int /\ v[1] <= v[2]
  BY Numbers DEF BInv, FetchTypeOK
<1>2. window[1] \in Int /\ window[2] \in Int /\ requests \in Nat
  BY Numbers DEF BInv, FetchTypeOK
<1>3. Middle(w) \in Int /\ w[1] <= Middle(w) /\ Middle(w) < w[2]
  BY <1>1, HalvesCover
<1>4. /\ pending' = ((pending \ {w}) \cup {l}) \cup {r}
      /\ l[1] = w[1] /\ l[2] = Middle(w) /\ r[1] = Middle(w) + 1 /\ r[2] = w[2]
  BY DEF Halves
<1>5. \A v \in pending \ {w} : w[2] < v[1]
  BY <1>1 DEF BInv, Tiling, PendingDisjoint, Leftmost
<1>. HIDE DEF l, r
<1>6. PendingDisjoint'
  BY <1>1, <1>3, <1>4, <1>5 DEF BInv, Tiling, PendingDisjoint
<1>7. ASSUME NEW v \in pending'
      PROVE  /\ window[1] <= v[1] /\ v[2] <= window[2]
             /\ v[2] = window[2] \/ \E x \in pending' : x[1] = v[2] + 1
  <2>1. CASE v \in {l, r}
    <3>1. window[1] <= v[1] /\ v[2] <= window[2]
      BY <1>1, <1>2, <1>3, <1>4, <2>1 DEF BInv, Tiling
    <3>2. v[2] = window[2] \/ \E x \in pending' : x[1] = v[2] + 1
      BY <1>1, <1>3, <1>4, <2>1 DEF BInv, Tiling
    <3>. QED BY <3>1, <3>2
  <2>2. CASE v \in pending \ {w}
    BY <1>1, <1>4, <2>2 DEF BInv, Tiling
  <2>. QED BY <1>4, <2>1, <2>2
<1>8. Tiling'
  BY <1>6, <1>7 DEF Tiling
<1>9. IsFiniteSet(pending') /\ Cardinality(pending') = Cardinality(pending) + 1 /\ Cardinality(pending) \in Nat
  <2>1. l \notin pending \ {w} /\ r \notin (pending \ {w}) \cup {l}
    BY <1>1, <1>3, <1>4, <1>5
  <2>2. IsFiniteSet(pending) /\ Cardinality(pending) \in Nat
    BY FS_CardinalityType DEF BInv, Budget
  <2>3. IsFiniteSet(pending \ {w}) /\ Cardinality(pending \ {w}) = Cardinality(pending) - 1
    BY <2>2, FS_RemoveElement
  <2>4. /\ IsFiniteSet((pending \ {w}) \cup {l})
        /\ Cardinality((pending \ {w}) \cup {l}) = Cardinality(pending)
    <3>. DEFINE S == pending \ {w}
    <3>1. IsFiniteSet(S) /\ Cardinality(S) = Cardinality(pending) - 1 /\ l \notin S
      BY <2>1, <2>3
    <3>. HIDE DEF S
    <3>2. IsFiniteSet(S \cup {l}) /\ Cardinality(S \cup {l}) = Cardinality(pending) - 1 + 1
      BY <3>1, FS_AddElement
    <3>. QED BY <2>2, <3>2 DEF S
  <2>5. /\ IsFiniteSet(((pending \ {w}) \cup {l}) \cup {r})
        /\ Cardinality(((pending \ {w}) \cup {l}) \cup {r}) = Cardinality(pending) + 1
    <3>. DEFINE S == (pending \ {w}) \cup {l}
    <3>1. IsFiniteSet(S) /\ Cardinality(S) = Cardinality(pending) /\ r \notin S
      BY <2>1, <2>4
    <3>. HIDE DEF S
    <3>2. IsFiniteSet(S \cup {r}) /\ Cardinality(S \cup {r}) = Cardinality(pending) + 1
      BY <3>1, FS_AddElement
    <3>. QED BY <3>2 DEF S
  <2>. QED BY <1>4, <2>2, <2>5
<1>10. ASSUME NEW v \in pending', Leftmost(v)'
       PROVE  v[1] = w[1]
  <2>1. l \in pending'
    BY <1>4
  <2>. QED BY <1>1, <1>3, <1>4, <1>5, <1>10, <2>1 DEF Leftmost
<1>11. ASSUME NEW v \in pending', Leftmost(v)'
       PROVE  requests' + 2 * (window[2] - v[1] + 1) - Cardinality(pending') <= 2 * Days(window) - 1
  <2>1. requests + 2 * (window[2] - w[1] + 1) - Cardinality(pending) <= 2 * Days(window) - 1
    BY DEF BInv, Budget
  <2>2. v[1] = w[1]
    BY <1>10, <1>11
  <2>. QED BY <1>1, <1>2, <1>9, <2>1, <2>2 DEF Days
<1>12. Budget'
  BY <1>9, <1>11 DEF Budget, Days
<1>. QED BY <1>8, <1>12

LEMMA AskCosts == ASSUME BInv, Ask PROVE BInv'
<1>. PICK w \in pending : /\ Leftmost(w)
                          /\ \E R \in SUBSET RowsOf(w) : Accept(w, R) \/ AcceptOverCap(w, R) \/ Bisect(w, R)
  BY DEF Ask
<1>. PICK R \in SUBSET RowsOf(w) : Accept(w, R) \/ AcceptOverCap(w, R) \/ Bisect(w, R)
  OBVIOUS
<1>1. w \in Window /\ w[1] \in Day /\ w[2] \in Day /\ w[1] \in Int /\ w[2] \in Int /\ w[1] <= w[2]
  BY DayAssumption DEF BInv, FetchTypeOK, Window, Day
<1>2. RowsOf(w) \subseteq Day \X (1..MaxPerDay)
  BY <1>1, DayAssumption DEF RowsOf, Window, Day
<1>3. /\ UNCHANGED <<filed, window, expected, call>> /\ call = "asking"
      /\ requests \in Nat /\ requests' \in {requests, requests + 1}
  BY DEF Ask, BInv, FetchTypeOK
<1>4. window[1] \in Int /\ window[2] \in Int
  BY Numbers DEF BInv, FetchTypeOK
<1>5. Cardinality(pending) <= window[2] - w[1] + 1 /\ Cardinality(pending) \in Nat
  BY FewWindows, FS_CardinalityType DEF BInv, Budget
<1>6. requests + 2 * (window[2] - w[1] + 1) - Cardinality(pending) <= 2 * Days(window) - 1
  BY DEF BInv, Budget
<1>7. w[1] <= window[2]
  BY <1>1, <1>4 DEF BInv, Tiling
<1>8. RequestsBounded'
  BY <1>1, <1>3, <1>4, <1>5, <1>6, <1>7 DEF RequestsBounded, Days
<1>9. CASE Bisect(w, R)
  <2>1. w[1] < w[2] /\ pending' = (pending \ {w}) \cup Halves(w) /\ UNCHANGED <<merged, overCap>>
    BY <1>9 DEF Bisect
  <2>2. FetchTypeOK'
    BY <1>1, <1>3, <2>1, HalvesCover DEF BInv, FetchTypeOK
  <2>. QED BY <1>3, <1>8, <2>1, <2>2, Split DEF BInv
<1>10. CASE Accept(w, R) \/ AcceptOverCap(w, R)
  <2>1. /\ pending' = pending \ {w} /\ merged' = merged \cup R
        /\ overCap' \subseteq overCap \cup {w[1]}
    BY <1>10 DEF Accept, AcceptOverCap
  <2>2. FetchTypeOK'
    BY <1>1, <1>2, <1>3, <2>1 DEF BInv, FetchTypeOK
  <2>. QED BY <1>3, <1>8, <2>1, <2>2, Answered DEF BInv
<1>. QED BY <1>9, <1>10

LEMMA BudgetInductive == BInv /\ [FetchNext]_fetchVars => BInv'
<1> SUFFICES ASSUME BInv, [FetchNext]_fetchVars PROVE BInv'
  OBVIOUS
<1>1. CASE File
  <2>1. FetchTypeOK'
    BY <1>1, DayAssumption, MaxPerDayAssumption DEF BInv, FetchTypeOK, File, Day
  <2>. QED BY <1>1, <2>1 DEF File, BInv, Tiling, PendingDisjoint, Budget, Leftmost, Days, RequestsBounded
<1>2. CASE Return \/ Raise \/ UNCHANGED fetchVars
  BY <1>2 DEF Return, Raise, fetchVars, BInv, FetchTypeOK, Tiling, PendingDisjoint, Budget, Leftmost, Days,
             RequestsBounded
<1>3. ASSUME NEW w \in Window, Call(w) PROVE BInv'
  <2>1. w[1] \in Int /\ w[2] \in Int /\ w[1] <= w[2]
    BY Numbers
  <2>2. window' = w /\ pending' = {w} /\ requests' = 0 /\ call' = "asking"
    BY <1>3 DEF Call, BInv, Budget
  <2>3. FetchTypeOK'
    BY <1>3, DayAssumption DEF BInv, FetchTypeOK, Call, RowsOf, Window, Day
  <2>4. IsFiniteSet({w}) /\ Cardinality({w}) = 1
    BY FS_Singleton
  <2>. QED BY <2>1, <2>2, <2>3, <2>4 DEF BInv, Tiling, PendingDisjoint, Budget, Leftmost, Days, RequestsBounded
<1>. QED BY <1>1, <1>2, <1>3, AskCosts DEF FetchNext

THEOREM BudgetInvariant == FetchSpec => []BInv
<1>1. FetchInit => BInv
  <2>1. SUFFICES ASSUME FetchInit PROVE BInv
    OBVIOUS
  <2>2. window \in Window /\ window[1] = 1 /\ window[2] = 1
    BY <2>1, DayAssumption DEF FetchInit, Window, Day
  <2>. QED BY <2>1, <2>2, FS_EmptySet DEF FetchInit, BInv, FetchTypeOK, Tiling, PendingDisjoint, Budget, RequestsBounded
<1>. QED BY <1>1, BudgetInductive, PTL DEF FetchSpec

\* Bisection converges, whatever KAP answers and whatever is filed meanwhile: a
\* window of n days never costs fetch_disclosure_list more than 2n - 1 requests.
THEOREM BisectionConverges == FetchSpec => []RequestsBounded
<1>1. BInv => RequestsBounded
  BY DEF BInv
<1>. QED BY <1>1, BudgetInvariant, PTL

\* The recursion of _fetch_list never asks for a day twice: the windows it has
\* still to ask for do not overlap.
THEOREM NoDayTwice == FetchSpec => []PendingDisjoint
<1>1. BInv => PendingDisjoint
  BY DEF BInv, Tiling
<1>. QED BY <1>1, BudgetInvariant, PTL

-----------------------------------------------------------------------------
(* The parser of the filings: numbers and sequences *)

\* Where each piece of a sequence ends in the whole of them.
Cuts(ss, whole, off) ==
    /\ off \in [0..Len(ss) -> Nat] /\ off[0] = 0 /\ off[Len(ss)] = Len(whole)
    /\ \A i \in 1..Len(ss) :
        /\ off[i - 1] <= off[i] /\ off[i] <= Len(whole)
        /\ ss[i] = SubSeq(whole, off[i - 1] + 1, off[i])

\* A set of numbers has a first one.
LEMMA Least ==
    ASSUME NEW S, S \subseteq Nat, S # {}
    PROVE  \E x \in S : \A y \in S : x <= y
<1>1. IsWellFoundedOn(OpToRel(<, Nat), Nat)
  BY NatLessThanWellFounded
<1>2. PICK x \in S : \A y \in S : ~(<<y, x>> \in OpToRel(<, Nat))
  BY <1>1, WFMin, Zenon
<1>3. ASSUME NEW y \in S PROVE x <= y
  <2>1. y < x => <<y, x>> \in OpToRel(<, Nat)
    <3>1. <<y, x>>[1] = y /\ <<y, x>>[2] = x /\ <<y, x>> \in Nat \X Nat
      OBVIOUS
    <3>. QED BY <3>1, Zenon DEF OpToRel
  <2>2. ~(y < x)
    BY <1>2, <2>1, Zenon
  <2>. QED BY <2>2
<1>. QED BY <1>3

\* Pieces of a whole are put together again.
LEMMA FlattenedSome ==
    ASSUME NEW T, NEW ss, NEW n \in Nat \ {0}, Len(ss) = n, NEW whole \in Seq(T), NEW off, Cuts(ss, whole, off)
    PROVE  FlattenSeq(ss) = whole
<1>. DEFINE Step(f, i) == IF i = 1 THEN ss[i] ELSE f[i - 1] \o ss[i]
            Good(f) == f = [i \in 1..n |-> Step(f, i)]
            goal == [i \in 1..n |-> SubSeq(whole, 1, off[i])]
            flat == CHOOSE f : Good(f)
<1>1. FlattenSeq(ss) = flat[n]
  BY Zenon DEF FlattenSeq
<1>2. /\ \A i \in 1..n : i - 1 \in 0..n /\ i \in 0..n
      /\ \A i \in 0..n : off[i] \in Nat
  BY DEF Cuts
<1>3. off[0] = 0 /\ off[n] = Len(whole)
  BY DEF Cuts
<1>4. ASSUME NEW i \in 1..n
      PROVE  /\ off[i - 1] <= off[i] /\ off[i] <= Len(whole)
             /\ ss[i] = SubSeq(whole, off[i - 1] + 1, off[i])
  BY <1>4 DEF Cuts
<1>5. ss[1] = SubSeq(whole, 1, off[1])
  <2>1. 1 \in 1..n /\ 1 - 1 = 0 /\ 0 + 1 = 1
    OBVIOUS
  <2>. QED BY <1>3, <1>4, <2>1
<1>6. ASSUME NEW i \in 1..n, i # 1
      PROVE  SubSeq(whole, 1, off[i - 1]) \o ss[i] = SubSeq(whole, 1, off[i])
  <2>1. /\ 1 \in 1..Len(whole) + 1 /\ off[i - 1] \in (1 - 1)..Len(whole)
        /\ off[i] \in off[i - 1]..Len(whole) /\ Len(whole) \in Nat
    BY <1>2, <1>4, LenProperties
  <2>. QED BY <1>4, <2>1, ConcatAdjacentSubSeq, Zenon
<1>7. Good(goal)
  <2>. SUFFICES ASSUME NEW i \in 1..n PROVE SubSeq(whole, 1, off[i]) = Step(goal, i)
    OBVIOUS
  <2>1. CASE i = 1
    BY <1>5, <2>1
  <2>2. CASE i # 1
    <3>1. i - 1 \in 1..n
      BY <2>2
    <3>. QED BY <1>6, <2>2, <3>1
  <2>. QED BY <2>1, <2>2
<1>8. Good(flat)
  BY <1>7, Zenon
<1>9. \A i \in 1..n : flat[i] = SubSeq(whole, 1, off[i])
  <2>. HIDE DEF flat
  <2>. DEFINE bad == {i \in 1..n : flat[i] # SubSeq(whole, 1, off[i])}
  <2>. SUFFICES ASSUME bad # {} PROVE FALSE
    OBVIOUS
  <2>1. PICK i \in bad : \A j \in bad : i <= j
    <3>. bad \subseteq Nat
      OBVIOUS
    <3>. HIDE DEF bad
    <3>. QED BY Least
  <2>2. CASE i = 1
    BY <1>5, <1>8, <2>1, <2>2
  <2>3. CASE i # 1
    <3>1. i - 1 \in 1..n /\ ~(i - 1 \in bad)
      BY <2>1, <2>3
    <3>2. flat[i] = flat[i - 1] \o ss[i]
      BY <1>8, <2>1, <2>3
    <3>. QED BY <1>6, <2>1, <2>3, <3>1, <3>2
  <2>. QED BY <2>2, <2>3
<1>10. n \in 1..n
  OBVIOUS
<1>. QED BY <1>1, <1>3, <1>9, <1>10, SubSeqFull

\* Pieces of a whole are put together again, however few they are.
LEMMA Flattened ==
    ASSUME NEW T, NEW ss \in Seq(Seq(T)), NEW whole \in Seq(T), NEW off, Cuts(ss, whole, off)
    PROVE  FlattenSeq(ss) = whole
<1>1. CASE ss = <<>>
  <2>1. Len(ss) = 0 /\ off[0] = 0 /\ off[Len(ss)] = Len(whole)
    BY <1>1 DEF Cuts
  <2>2. whole = <<>>
    BY <2>1
  <2>. QED BY <1>1, <2>1, <2>2, Zenon DEF FlattenSeq
<1>2. CASE Len(ss) \in Nat \ {0}
  BY <1>2, FlattenedSome
<1>. QED BY <1>1, <1>2, EmptySeq
-----------------------------------------------------------------------------
(* The text of a document *)

Token == [kind : {"num", "date", "word"}, val : Int]

\* A row of the form: quantities, the holding before, and four percentages.
FormRow == [date : Int, buy : Nat, sell : Nat, start : Int, pcts : [1..4 -> 0..100]]

\* A table as the form has it, dated by its publication, and followed by text
\* without a date.
Filled(d) ==
    /\ d.rows \in Seq(FormRow)
    /\ d.tail \in Seq([kind : {"num", "word"}, val : Int])
    /\ \A k \in 1..Len(d.rows) : d.rows[k].date <= d.published
    /\ d.published \in Int

\* The cells of the rows, ten each, and the tail.
Base(d) ==
    [i \in 1..(10 * Len(d.rows) + Len(d.tail)) |->
        IF i <= 10 * Len(d.rows)
        THEN RowLines(d.rows[(i - 1) \div 10 + 1])[((i - 1) % 10) + 1]
        ELSE d.tail[i - 10 * Len(d.rows)]]

\* The text with n words put in before its i-th token.
Broken(base, i, n) ==
    [p \in 1..(Len(base) + n) |-> IF p < i THEN base[p] ELSE IF p < i + n THEN Word ELSE base[p - n]]

\* The ten cells of a row, one by one.
LEMMA RowCells ==
    ASSUME NEW r \in FormRow
    PROVE  /\ RowLines(r) \in [1..10 -> Token] /\ RowLines(r) \in Seq(Token) /\ Len(RowLines(r)) = 10
           /\ RowLines(r)[1] = Date(r.date)
           /\ RowLines(r)[2] = Num(r.buy) /\ RowLines(r)[3] = Num(r.sell)
           /\ RowLines(r)[4] = Num(Abs(Net(r))) /\ RowLines(r)[5] = Num(r.start)
           /\ RowLines(r)[6] = Num(r.start + Net(r))
           /\ \A j \in 1..4 : RowLines(r)[6 + j] = Num(r.pcts[j])
<1>. DEFINE front == <<Date(r.date), Num(r.buy), Num(r.sell), Num(Abs(Net(r))),
                       Num(r.start), Num(r.start + Net(r))>>
            back == [j \in 1..4 |-> Num(r.pcts[j])]
<1>1. /\ r.date \in Int /\ r.buy \in Nat /\ r.sell \in Nat /\ r.start \in Int
      /\ \A j \in 1..4 : r.pcts[j] \in Int
  BY DEF FormRow
<1>2. Net(r) \in Int /\ Abs(Net(r)) \in Int
  BY <1>1 DEF Net, Abs
<1>3. front \in Seq(Token) /\ Len(front) = 6
  BY <1>1, <1>2 DEF Token, Date, Num
<1>4. back \in Seq(Token) /\ Len(back) = 4
  BY <1>1 DEF Token, Num
<1>5. RowLines(r) = front \o back
  BY DEF RowLines
<1>6. /\ RowLines(r) \in Seq(Token) /\ Len(RowLines(r)) = 10
      /\ \A j \in 1..10 : RowLines(r)[j] = IF j <= 6 THEN front[j] ELSE back[j - 6]
  <2>. HIDE DEF front, back
  <2>1. Len(front) + Len(back) = 10
    BY <1>3, <1>4
  <2>2. /\ front \o back \in Seq(Token) /\ Len(front \o back) = Len(front) + Len(back)
        /\ \A j \in 1..(Len(front) + Len(back)) :
              (front \o back)[j] = IF j <= Len(front) THEN front[j] ELSE back[j - Len(front)]
    BY <1>3, <1>4, ConcatProperties
  <2>. QED BY <1>3, <1>5, <2>1, <2>2, Zenon
<1>7. RowLines(r) \in [1..10 -> Token]
  BY <1>6, LenProperties
<1>8. \A j \in 1..4 : RowLines(r)[6 + j] = back[j]
  <2>. HIDE DEF front, back
  <2>. QED BY <1>6
<1>. QED BY <1>6, <1>7, <1>8

\* The text of a table holds the j-th cell of its k-th row at 10(k - 1) + j, and
\* the tail behind them.
LEMMA BaseFacts ==
    ASSUME NEW d, Filled(d)
    PROVE  /\ Base(d) \in Seq(Token) /\ Len(Base(d)) = 10 * Len(d.rows) + Len(d.tail)
           /\ Len(d.rows) \in Nat /\ Len(d.tail) \in Nat
           /\ \A k \in 1..Len(d.rows), j \in 1..10 : Base(d)[10 * (k - 1) + j] = RowLines(d.rows[k])[j]
           /\ \A i \in 1..Len(d.tail) : Base(d)[10 * Len(d.rows) + i] = d.tail[i]
<1>. DEFINE K == Len(d.rows)
            M == Len(d.tail)
<1>1. K \in Nat /\ M \in Nat /\ 10 * K + M \in Nat
  <2>1. K \in Nat /\ M \in Nat
    BY LenProperties DEF Filled
  <2>. HIDE DEF K, M
  <2>. QED BY <2>1
<1>2. \A k \in 1..K : d.rows[k] \in FormRow
  BY ElementOfSeq DEF Filled
<1>3. \A i \in 1..M : d.tail[i] \in Token
  <2>1. \A i \in 1..M : d.tail[i] \in [kind : {"num", "word"}, val : Int]
    BY ElementOfSeq DEF Filled
  <2>2. \A t \in [kind : {"num", "word"}, val : Int] : t \in Token
    BY DEF Token
  <2>. QED BY <2>1, <2>2
<1>. HIDE DEF K, M
<1>4. ASSUME NEW i \in 1..(10 * K + M), i <= 10 * K
      PROVE  (i - 1) \div 10 + 1 \in 1..K /\ ((i - 1) % 10) + 1 \in 1..10
  BY <1>1, <1>4
<1>5. \A i \in 1..(10 * K + M) : Base(d)[i] =
        IF i <= 10 * K THEN RowLines(d.rows[(i - 1) \div 10 + 1])[((i - 1) % 10) + 1] ELSE d.tail[i - 10 * K]
  BY DEF Base, K, M
<1>6. ASSUME NEW i \in 1..(10 * K + M) PROVE Base(d)[i] \in Token
  <2>1. CASE i <= 10 * K
    <3>. DEFINE k == (i - 1) \div 10 + 1
                j == ((i - 1) % 10) + 1
    <3>1. k \in 1..K /\ j \in 1..10 /\ Base(d)[i] = RowLines(d.rows[k])[j]
      BY <1>4, <1>5, <2>1
    <3>. HIDE DEF k, j
    <3>2. RowLines(d.rows[k]) \in [1..10 -> Token]
      BY <1>2, <3>1, RowCells
    <3>. QED BY <3>1, <3>2
  <2>2. CASE ~(i <= 10 * K)
    <3>1. i - 10 * K \in 1..M
      BY <1>1, <2>2
    <3>. QED BY <1>3, <1>5, <2>2, <3>1
  <2>. QED BY <2>1, <2>2
<1>7. Base(d) \in [1..(10 * K + M) -> Token]
  <2>1. DOMAIN Base(d) = 1..(10 * K + M) /\ Base(d) = [i \in DOMAIN Base(d) |-> Base(d)[i]]
    BY DEF Base, K, M
  <2>. QED BY <1>6, <2>1
<1>8. Base(d) \in Seq(Token) /\ Len(Base(d)) = 10 * K + M
  BY <1>1, <1>7
<1>9. ASSUME NEW k \in 1..K, NEW j \in 1..10
      PROVE  Base(d)[10 * (k - 1) + j] = RowLines(d.rows[k])[j]
  <2>. DEFINE i == 10 * (k - 1) + j
  <2>1. i \in 1..(10 * K + M) /\ i <= 10 * K /\ (i - 1) \div 10 + 1 = k /\ ((i - 1) % 10) + 1 = j
    BY <1>1
  <2>. HIDE DEF i
  <2>2. Base(d)[i] = RowLines(d.rows[k])[j]
    BY <1>5, <2>1
  <2>. QED BY <2>2 DEF i
<1>10. ASSUME NEW i \in 1..M PROVE Base(d)[10 * K + i] = d.tail[i]
  <2>. DEFINE p == 10 * K + i
  <2>1. p \in 1..(10 * K + M) /\ ~(p <= 10 * K) /\ p - 10 * K = i
    BY <1>1
  <2>. HIDE DEF p
  <2>2. Base(d)[p] = d.tail[i]
    BY <1>5, <2>1
  <2>. QED BY <2>2 DEF p
<1>. QED BY <1>1, <1>8, <1>9, <1>10 DEF K, M

-----------------------------------------------------------------------------
(* What is read of it *)

\* A broken text is a text, with the words where they were put.
LEMMA BrokenFacts ==
    ASSUME NEW base \in Seq(Token), NEW i \in 1..Len(base) + 1, NEW n \in Nat
    PROVE  /\ Broken(base, i, n) \in Seq(Token) /\ Len(Broken(base, i, n)) = Len(base) + n
           /\ \A p \in 1..(Len(base) + n) : Broken(base, i, n)[p] =
                IF p < i THEN base[p] ELSE IF p < i + n THEN Word ELSE base[p - n]
<1>. DEFINE L == Len(base)
            t == Broken(base, i, n)
<1>1. L \in Nat /\ \A p \in 1..L : base[p] \in Token
  BY LenProperties, ElementOfSeq
<1>2. Word \in Token
  BY DEF Token, Word
<1>3. \A p \in 1..(L + n) : t[p] = IF p < i THEN base[p] ELSE IF p < i + n THEN Word ELSE base[p - n]
  BY DEF Broken
<1>4. t = [p \in 1..(L + n) |-> t[p]]
  BY DEF Broken
<1>5. i \in 1..L + 1
  OBVIOUS
<1>. HIDE DEF L, t
<1>6. ASSUME NEW p \in 1..(L + n) PROVE t[p] \in Token
  <2>1. CASE p < i
    BY <1>1, <1>3, <1>5, <2>1
  <2>2. CASE ~(p < i) /\ p < i + n
    BY <1>2, <1>3, <2>2
  <2>3. CASE ~(p < i) /\ ~(p < i + n)
    <3>1. p - n \in 1..L
      BY <1>1, <1>5, <2>3
    <3>. QED BY <1>1, <1>3, <2>3, <3>1
  <2>. QED BY <2>1, <2>2, <2>3
<1>7. t \in [1..(L + n) -> Token] /\ L + n \in Nat
  BY <1>1, <1>4, <1>6
<1>8. t \in Seq(Token) /\ Len(t) = L + n
  BY <1>7
<1>. QED BY <1>3, <1>8 DEF L, t

\* Lines of one token each are read as these tokens.
LEMMA Singles ==
    ASSUME NEW s \in Seq(Token)
    PROVE  Tokens([p \in 1..Len(s) |-> <<s[p]>>]) = s
<1>. DEFINE n == Len(s)
            lines == [p \in 1..n |-> <<s[p]>>]
            pieces == [p \in DOMAIN lines |-> TokensOf(lines[p])]
            off == [p \in 0..n |-> p]
<1>1. n \in Nat /\ \A p \in 1..n : s[p] \in Token
  BY LenProperties, ElementOfSeq
<1>2. DOMAIN lines = 1..n /\ \A p \in 1..n : lines[p] = <<s[p]>> /\ Len(lines[p]) = 1
  OBVIOUS
<1>. HIDE DEF n
<1>3. \A p \in 1..n : TokensOf(lines[p]) = <<s[p]>>
  BY <1>2 DEF TokensOf
<1>4. pieces = [p \in 1..n |-> <<s[p]>>]
  BY <1>2, <1>3
<1>5. pieces \in Seq(Seq(Token)) /\ Len(pieces) = n
  <2>1. \A p \in 1..n : <<s[p]>> \in Seq(Token)
    BY <1>1
  <2>2. pieces \in [1..n -> Seq(Token)]
    BY <1>4, <2>1
  <2>. QED BY <1>1, <2>2
<1>6. Cuts(pieces, s, off)
  <2>1. ASSUME NEW p \in 1..n PROVE <<s[p]>> = SubSeq(s, p, p)
    BY <1>1 DEF n
  <2>2. off \in [0..n -> Nat] /\ off[0] = 0 /\ off[n] = n
    BY <1>1
  <2>3. ASSUME NEW p \in 1..n
        PROVE  off[p - 1] <= off[p] /\ off[p] <= n /\ off[p - 1] + 1 = p /\ off[p] = p
    BY <1>1
  <2>. HIDE DEF off
  <2>4. \A p \in 1..n : pieces[p] = SubSeq(s, off[p - 1] + 1, off[p])
    BY <1>4, <2>1, <2>3
  <2>. HIDE DEF pieces
  <2>. QED BY <1>5, <2>2, <2>3, <2>4 DEF Cuts, n
<1>7. Tokens(lines) = FlattenSeq(pieces)
  BY DEF Tokens
<1>. HIDE DEF pieces, off
<1>8. FlattenSeq(pieces) = s
  BY <1>5, <1>6, Flattened
<1>. QED BY <1>7, <1>8 DEF n

\* A line that two numbers share is read as the two.
LEMMA Shared ==
    ASSUME NEW s \in Seq(Token), NEW m \in 1..(Len(s) - 1), s[m].kind = "num", s[m + 1].kind = "num",
           NEW lines \in Seq(Seq(Token)), Len(lines) = Len(s) - 1,
           \A p \in 1..(Len(s) - 1) :
                lines[p] = IF p < m THEN <<s[p]>> ELSE IF p = m THEN <<s[m], s[m + 1]>> ELSE <<s[p + 1]>>
    PROVE  Tokens(lines) = s
<1>. DEFINE n == Len(s)
            pieces == [p \in DOMAIN lines |-> TokensOf(lines[p])]
            off == [p \in 0..(n - 1) |-> IF p < m THEN p ELSE p + 1]
<1>1. n \in Nat /\ \A p \in 1..n : s[p] \in Token
  BY LenProperties, ElementOfSeq
<1>2. DOMAIN lines = 1..(n - 1)
  BY LenProperties
<1>. HIDE DEF n
<1>3. n - 1 \in Nat
  <2>1. m \in 1..(n - 1)
    BY DEF n
  <2>. QED BY <1>1, <2>1
<1>4. m \in Nat /\ 1 <= m /\ m <= n - 1 /\ m \in 1..(n - 1) /\ m \in 1..n /\ m + 1 \in 1..n
  <2>1. m \in 1..(n - 1)
    BY DEF n
  <2>. QED BY <1>1, <2>1
<1>5. \A p \in 1..(n - 1) : p < m => lines[p] = <<s[p]>>
  BY DEF n
<1>6. lines[m] = <<s[m], s[m + 1]>>
  <2>1. ~(m < m)
    BY <1>4
  <2>. QED BY <1>4, <2>1 DEF n
<1>7. \A p \in 1..(n - 1) : p > m => lines[p] = <<s[p + 1]>>
  <2>1. \A p \in 1..(n - 1) : p > m => ~(p < m) /\ p # m
    BY <1>4
  <2>. QED BY <2>1 DEF n
<1>8. ASSUME NEW p \in 1..(n - 1) PROVE TokensOf(lines[p]) = lines[p]
  <2>1. CASE p = m
    <3>1. lines[p] = <<s[m], s[m + 1]>>
      BY <1>6, <2>1
    <3>2. \A j \in DOMAIN <<s[m], s[m + 1]>> : <<s[m], s[m + 1]>>[j].kind = "num"
      OBVIOUS
    <3>. QED BY <3>1, <3>2 DEF TokensOf
  <2>2. CASE p # m
    <3>1. Len(lines[p]) = 1
      <4>1. p < m \/ p > m
        BY <1>4, <2>2
      <4>2. CASE p < m
        <5>1. lines[p] = <<s[p]>>
          BY <1>5, <4>2
        <5>. QED BY <5>1
      <4>3. CASE p > m
        <5>1. lines[p] = <<s[p + 1]>>
          BY <1>7, <4>3
        <5>. QED BY <5>1
      <4>. QED BY <4>1, <4>2, <4>3
    <3>. QED BY <3>1 DEF TokensOf
  <2>. QED BY <2>1, <2>2
<1>9. pieces = lines
  BY <1>2, <1>8
<1>10. Cuts(lines, s, off)
  <2>1. ASSUME NEW p \in 1..n PROVE <<s[p]>> = SubSeq(s, p, p)
    BY <1>1 DEF n
  <2>2. <<s[m], s[m + 1]>> = SubSeq(s, m, m + 1)
    <3>1. m \in Int /\ m + 1 \in Int /\ m <= m + 1 /\ (m + 1) - m + 1 = 2
          /\ \A p \in m..(m + 1) : s[p] \in Token
      BY <1>1, <1>4
    <3>2. /\ SubSeq(s, m, m + 1) \in Seq(Token) /\ Len(SubSeq(s, m, m + 1)) = 2
          /\ \A p \in 1..2 : SubSeq(s, m, m + 1)[p] = s[m + p - 1]
      BY <3>1, SubSeqProperties
    <3>3. SubSeq(s, m, m + 1)[1] = s[m] /\ SubSeq(s, m, m + 1)[2] = s[m + 1]
      BY <1>4, <3>2
    <3>. QED BY <3>2, <3>3
  <2>3. off \in [0..(n - 1) -> Nat] /\ off[0] = 0 /\ off[n - 1] = n
    <3>1. 0 \in 0..(n - 1) /\ n - 1 \in 0..(n - 1) /\ 0 < m /\ ~(n - 1 < m) /\ n - 1 + 1 = n
      BY <1>1, <1>3, <1>4
    <3>2. \A p \in 0..(n - 1) : p \in Nat /\ p + 1 \in Nat
      BY <1>3
    <3>. QED BY <3>1, <3>2
  <2>4. ASSUME NEW p \in 1..(n - 1)
        PROVE  off[p - 1] <= off[p] /\ off[p] <= n /\ lines[p] = SubSeq(s, off[p - 1] + 1, off[p])
    <3>1. /\ p \in Nat /\ 1 <= p /\ p <= n - 1 /\ p - 1 \in 0..(n - 1) /\ p \in 0..(n - 1)
          /\ p \in 1..n /\ p + 1 \in 1..n /\ p - 1 + 1 = p
      BY <1>1, <1>3
    <3>2. CASE p < m
      <4>1. off[p - 1] = p - 1 /\ off[p] = p /\ lines[p] = <<s[p]>> /\ p \in 1..n
        BY <1>4, <1>5, <3>1, <3>2
      <4>. HIDE DEF off
      <4>2. <<s[p]>> = SubSeq(s, p, p)
        BY <2>1, <3>1
      <4>. QED BY <1>1, <3>1, <4>1, <4>2
    <3>3. CASE p = m
      <4>1. off[p - 1] = m - 1 /\ off[p] = m + 1 /\ lines[p] = <<s[m], s[m + 1]>>
        BY <1>4, <1>6, <3>1, <3>3
      <4>. HIDE DEF off
      <4>2. m - 1 + 1 = m /\ m - 1 <= m + 1 /\ m + 1 <= n
        BY <1>1, <1>4
      <4>3. SubSeq(s, off[p - 1] + 1, off[p]) = SubSeq(s, m, m + 1)
        BY <4>1, <4>2
      <4>4. lines[p] = SubSeq(s, off[p - 1] + 1, off[p])
        BY <2>2, <4>1, <4>3, Zenon
      <4>5. off[p - 1] <= off[p] /\ off[p] <= n
        BY <4>1, <4>2
      <4>. QED BY <4>4, <4>5
    <3>4. CASE p > m
      <4>1. off[p - 1] = p /\ off[p] = p + 1 /\ lines[p] = <<s[p + 1]>> /\ p + 1 \in 1..n
        BY <1>4, <1>7, <3>1, <3>4
      <4>. HIDE DEF off
      <4>2. <<s[p + 1]>> = SubSeq(s, p + 1, p + 1)
        BY <2>1, <3>1
      <4>3. lines[p] = SubSeq(s, off[p - 1] + 1, off[p])
        BY <4>1, <4>2, Zenon
      <4>4. off[p - 1] <= off[p] /\ off[p] <= n
        BY <1>1, <3>1, <4>1
      <4>. QED BY <4>3, <4>4
    <3>5. p < m \/ p = m \/ p > m
      BY <1>4, <3>1
    <3>. QED BY <3>2, <3>3, <3>4, <3>5
  <2>. HIDE DEF off
  <2>5. Len(lines) = n - 1 /\ Len(s) = n
    BY DEF n
  <2>. QED BY <2>3, <2>4, <2>5 DEF Cuts
<1>11. Tokens(lines) = FlattenSeq(pieces)
  BY DEF Tokens
<1>. HIDE DEF pieces, off
<1>. QED BY <1>9, <1>10, <1>11, Flattened

\* A row's ten cells behind one another are the lines of a table.
LEMMA LinesRead ==
    ASSUME NEW d, Filled(d)
    PROVE  Lines(d) = [i \in 1..Len(Base(d)) |-> <<Base(d)[i]>>]
<1>. DEFINE K == Len(d.rows)
            head == SubSeq(Base(d), 1, 10 * K)
            pieces == [k \in DOMAIN d.rows |-> RowLines(d.rows[k])]
            off == [k \in 0..K |-> 10 * k]
<1>1. /\ Base(d) \in Seq(Token) /\ Len(Base(d)) = 10 * K + Len(d.tail)
      /\ K \in Nat /\ Len(d.tail) \in Nat
  BY BaseFacts
<1>2. ASSUME NEW k \in 1..K PROVE d.rows[k] \in FormRow
  BY ElementOfSeq DEF Filled
<1>3. DOMAIN d.rows = 1..K
  BY LenProperties DEF Filled
<1>4. \A k \in 1..K, j \in 1..10 : Base(d)[10 * (k - 1) + j] = RowLines(d.rows[k])[j]
  BY BaseFacts
<1>. HIDE DEF K
<1>5. 10 * K \in Nat /\ \A p \in 1..(10 * K) : Base(d)[p] \in Token
  <2>1. 10 * K \in Nat
    BY <1>1
  <2>2. \A p \in 1..(10 * K) : p \in 1..Len(Base(d))
    <3>. DEFINE T == 10 * K
                L == Len(Base(d))
                M == Len(d.tail)
    <3>1. T \in Nat /\ M \in Nat /\ L = T + M
      BY <1>1, <2>1
    <3>. HIDE DEF T, L, M
    <3>2. \A p \in 1..T : p \in 1..L
      BY <3>1
    <3>. QED BY <3>2 DEF T, L
  <2>. QED BY <1>1, <2>1, <2>2, ElementOfSeq
<1>6. head \in Seq(Token) /\ Len(head) = 10 * K /\ \A p \in 1..(10 * K) : head[p] = Base(d)[p]
  <2>1. 1 \in Int /\ 10 * K \in Int /\ 10 * K - 1 + 1 = 10 * K
    BY <1>5
  <2>2. /\ head \in Seq(Token) /\ Len(head) = IF 1 <= 10 * K THEN 10 * K - 1 + 1 ELSE 0
        /\ \A p \in 1..(10 * K - 1 + 1) : head[p] = Base(d)[1 + p - 1]
    BY <1>5, <2>1, SubSeqProperties
  <2>3. Len(head) = 10 * K
    BY <1>1, <2>1, <2>2
  <2>4. \A p \in 1..(10 * K) : 1 + p - 1 = p
    OBVIOUS
  <2>. HIDE DEF head
  <2>. QED BY <2>1, <2>2, <2>3, <2>4
<1>7. pieces \in Seq(Seq(Token)) /\ Len(pieces) = K
  <2>1. \A k \in 1..K : RowLines(d.rows[k]) \in Seq(Token)
    BY <1>2, RowCells
  <2>2. pieces \in [1..K -> Seq(Token)]
    BY <1>3, <2>1
  <2>. HIDE DEF pieces
  <2>. QED BY <1>1, <2>2
<1>8. Cuts(pieces, head, off)
  <2>1. off \in [0..K -> Nat] /\ off[0] = 0 /\ off[K] = 10 * K
    BY <1>1
  <2>2. ASSUME NEW k \in 1..K
        PROVE  off[k - 1] = 10 * (k - 1) /\ off[k] = 10 * k /\ off[k - 1] <= off[k] /\ off[k] <= 10 * K
    BY <1>1
  <2>3. ASSUME NEW k \in 1..K
        PROVE  pieces[k] = SubSeq(head, 10 * (k - 1) + 1, 10 * k)
    <3>. DEFINE a == 10 * (k - 1) + 1
                b == 10 * k
                part == SubSeq(head, a, b)
    <3>1. a \in Int /\ b \in Int /\ a <= b /\ b - a + 1 = 10 /\ 1 <= a /\ b <= 10 * K
      BY <1>1
    <3>2. \A p \in a..b : head[p] \in Token
      <4>. HIDE DEF a, b, head
      <4>1. \A p \in a..b : p \in 1..(10 * K)
        BY <1>5, <3>1
      <4>. QED BY <1>5, <1>6, <4>1
    <3>. HIDE DEF a, b
    <3>3. /\ part \in Seq(Token) /\ Len(part) = 10 /\ \A p \in 1..10 : part[p] = head[a + p - 1]
      <4>. HIDE DEF head
      <4>1. /\ part \in Seq(Token) /\ Len(part) = IF a <= b THEN b - a + 1 ELSE 0
            /\ \A p \in 1..(b - a + 1) : part[p] = head[a + p - 1]
        BY <3>1, <3>2, SubSeqProperties
      <4>. HIDE DEF part
      <4>. QED BY <3>1, <4>1
    <3>. HIDE DEF part
    <3>4. ASSUME NEW p \in 1..10 PROVE part[p] = RowLines(d.rows[k])[p]
      <4>1. a + p - 1 \in 1..(10 * K) /\ a + p - 1 = 10 * (k - 1) + p
        BY <1>1, <3>1 DEF a
      <4>. HIDE DEF head
      <4>2. part[p] = head[a + p - 1] /\ head[a + p - 1] = Base(d)[a + p - 1]
        BY <1>6, <3>3, <4>1
      <4>3. Base(d)[10 * (k - 1) + p] = RowLines(d.rows[k])[p]
        BY <1>4
      <4>. QED BY <4>1, <4>2, <4>3, Zenon
    <3>5. RowLines(d.rows[k]) \in Seq(Token) /\ Len(RowLines(d.rows[k])) = 10
      BY <1>2, RowCells
    <3>6. RowLines(d.rows[k]) = part
      BY <3>3, <3>4, <3>5, SeqEqual
    <3>. QED BY <1>3, <3>6 DEF part, a, b
  <2>4. \A k \in 1..K : pieces[k] = SubSeq(head, off[k - 1] + 1, off[k])
    BY <2>2, <2>3
  <2>. HIDE DEF off, pieces, head
  <2>. QED BY <1>6, <1>7, <2>1, <2>2, <2>4 DEF Cuts
<1>9. FlattenSeq(pieces) = head
  <2>. HIDE DEF pieces, head, off
  <2>. QED BY <1>6, <1>7, <1>8, Flattened
<1>10. head \o d.tail = Base(d)
  <2>1. d.tail \in Seq(Token)
    <3>1. [kind : {"num", "word"}, val : Int] \subseteq Token
      BY DEF Token
    <3>. QED BY <3>1, SeqMonotonic DEF Filled
  <2>. DEFINE both == head \o d.tail
  <2>2. /\ both \in Seq(Token) /\ Len(both) = 10 * K + Len(d.tail)
        /\ \A p \in 1..(10 * K + Len(d.tail)) : both[p] = IF p <= 10 * K THEN head[p] ELSE d.tail[p - 10 * K]
    <3>. HIDE DEF head
    <3>1. /\ both \in Seq(Token) /\ Len(both) = Len(head) + Len(d.tail)
          /\ \A p \in 1..(Len(head) + Len(d.tail)) :
                both[p] = IF p <= Len(head) THEN head[p] ELSE d.tail[p - Len(head)]
      BY <1>6, <2>1, ConcatProperties
    <3>. HIDE DEF both
    <3>. QED BY <1>6, <3>1, Zenon
  <2>3. ASSUME NEW p \in 1..(10 * K + Len(d.tail)) PROVE both[p] = Base(d)[p]
    <3>. HIDE DEF head, both
    <3>1. CASE p <= 10 * K
      BY <1>5, <1>6, <2>2, <3>1
    <3>2. CASE ~(p <= 10 * K)
      <4>1. PICK q \in 1..Len(d.tail) : p = 10 * K + q
        <5>1. p - 10 * K \in 1..Len(d.tail) /\ p = 10 * K + (p - 10 * K)
          <6>. DEFINE T == 10 * K
                      M == Len(d.tail)
          <6>1. T \in Nat /\ M \in Nat /\ p \in 1..(T + M) /\ ~(p <= T)
            BY <1>1, <1>5, <3>2
          <6>. HIDE DEF T, M
          <6>2. p - T \in 1..M /\ p = T + (p - T)
            BY <6>1
          <6>. QED BY <6>2 DEF T, M
        <5>. QED BY <5>1
      <4>2. Base(d)[10 * K + q] = d.tail[q]
        BY BaseFacts DEF K
      <4>3. p - 10 * K = q
        BY <1>1, <4>1
      <4>. QED BY <2>2, <3>2, <4>1, <4>2, <4>3
    <3>. QED BY <3>1, <3>2
  <2>. HIDE DEF both, head
  <2>4. both = Base(d)
    BY <1>1, <2>2, <2>3, SeqEqual
  <2>. QED BY <2>4 DEF both
<1>11. DOMAIN Base(d) = 1..Len(Base(d))
  BY <1>1, LenProperties
<1>. HIDE DEF head, off
<1>. QED BY <1>9, <1>10, <1>11 DEF Lines

\* A sequence with its elements from i on and before j replaced by others.
Splice(s, w, i, j) == SubSeq(s, 1, i - 1) \o w \o SubSeq(s, j, Len(s))

\* What a spliced sequence holds at each place.
LEMMA Spliced ==
    ASSUME NEW T, NEW s \in Seq(T), NEW w \in Seq(T), NEW i \in 1..Len(s) + 1, NEW j \in i..Len(s) + 1
    PROVE  /\ Splice(s, w, i, j) \in Seq(T)
           /\ Len(Splice(s, w, i, j)) = (i - 1) + Len(w) + (Len(s) - j + 1)
           /\ \A p \in 1..Len(Splice(s, w, i, j)) : Splice(s, w, i, j)[p] =
                IF p < i THEN s[p] ELSE IF p < i + Len(w) THEN w[p - i + 1] ELSE s[p - i - Len(w) + j]
<1>. DEFINE r == Splice(s, w, i, j)
            n == (i - 1) + Len(w) + (Len(s) - j + 1)
            L == Len(s)
            W == Len(w)
            a == SubSeq(s, 1, i - 1)
            c == SubSeq(s, j, L)
<1>1. L \in Nat /\ W \in Nat /\ \A p \in 1..L : s[p] \in T
  BY LenProperties, ElementOfSeq
<1>2. /\ i \in Nat /\ j \in Nat /\ 1 <= i /\ i <= j /\ j <= L + 1
      /\ n = (i - 1) + W + (L - j + 1) /\ r = (a \o w) \o c
  BY <1>1 DEF Splice
<1>3. a \in Seq(T) /\ Len(a) = i - 1 /\ \A p \in 1..(i - 1) : a[p] = s[p]
  <2>. HIDE DEF L, W
  <2>1. \A p \in 1..(i - 1) : s[p] \in T /\ 1 + p - 1 = p
    BY <1>1, <1>2
  <2>2. 1 \in Int /\ i - 1 \in Int /\ i - 1 - 1 + 1 = i - 1
    BY <1>2
  <2>3. /\ a \in Seq(T) /\ Len(a) = IF 1 <= i - 1 THEN i - 1 - 1 + 1 ELSE 0
        /\ \A p \in 1..(i - 1 - 1 + 1) : a[p] = s[1 + p - 1]
    BY <2>1, <2>2, SubSeqProperties
  <2>. HIDE DEF a
  <2>4. Len(a) = i - 1
    BY <1>2, <2>2, <2>3
  <2>. QED BY <2>1, <2>2, <2>3, <2>4
<1>4. c \in Seq(T) /\ Len(c) = L - j + 1 /\ \A p \in 1..(L - j + 1) : c[p] = s[j + p - 1]
  <2>. HIDE DEF L, W
  <2>1. \A p \in j..L : s[p] \in T
    BY <1>1, <1>2
  <2>2. j \in Int /\ L \in Int
    BY <1>1, <1>2
  <2>3. /\ c \in Seq(T) /\ Len(c) = IF j <= L THEN L - j + 1 ELSE 0
        /\ \A p \in 1..(L - j + 1) : c[p] = s[j + p - 1]
    BY <2>1, <2>2, SubSeqProperties
  <2>. HIDE DEF c
  <2>4. Len(c) = L - j + 1
    BY <1>1, <1>2, <2>3
  <2>. QED BY <2>3, <2>4
<1>. HIDE DEF a, c, r, n
<1>. DEFINE b == a \o w
<1>5. /\ b \in Seq(T) /\ Len(b) = (i - 1) + W
      /\ \A p \in 1..((i - 1) + W) : b[p] = IF p <= i - 1 THEN a[p] ELSE w[p - (i - 1)]
  <2>1. /\ b \in Seq(T) /\ Len(b) = Len(a) + Len(w)
        /\ \A p \in 1..(Len(a) + Len(w)) : b[p] = IF p <= Len(a) THEN a[p] ELSE w[p - Len(a)]
    BY <1>3, ConcatProperties
  <2>. HIDE DEF b
  <2>. QED BY <1>3, <2>1, Zenon
<1>6. /\ r \in Seq(T) /\ Len(r) = n
      /\ \A p \in 1..n : r[p] = IF p <= (i - 1) + W THEN b[p] ELSE c[p - ((i - 1) + W)]
  <2>. HIDE DEF b
  <2>1. /\ b \o c \in Seq(T) /\ Len(b \o c) = Len(b) + Len(c)
        /\ \A p \in 1..(Len(b) + Len(c)) : (b \o c)[p] = IF p <= Len(b) THEN b[p] ELSE c[p - Len(b)]
    BY <1>4, <1>5, ConcatProperties
  <2>2. r = b \o c
    BY <1>2 DEF b
  <2>3. Len(b) = (i - 1) + W /\ Len(b) + Len(c) = n
    BY <1>1, <1>2, <1>4, <1>5
  <2>. QED BY <2>1, <2>2, <2>3, Zenon
<1>. HIDE DEF b, L, W
<1>7. ASSUME NEW p \in 1..n
      PROVE  r[p] = IF p < i THEN s[p] ELSE IF p < i + W THEN w[p - i + 1] ELSE s[p - i - W + j]
  <2>1. n \in Int
    BY <1>1, <1>2
  <2>2. CASE p < i
    <3>1. p \in 1..(i - 1) /\ p <= i - 1 /\ p <= (i - 1) + W /\ p \in 1..((i - 1) + W)
      BY <1>1, <1>2, <2>1, <2>2
    <3>2. r[p] = s[p]
      BY <1>3, <1>5, <1>6, <3>1
    <3>. QED BY <2>2, <3>2
  <2>3. CASE ~(p < i) /\ p < i + W
    <3>1. ~(p <= i - 1) /\ p <= (i - 1) + W /\ p \in 1..((i - 1) + W) /\ p - (i - 1) = p - i + 1
      BY <1>1, <1>2, <2>1, <2>3
    <3>2. r[p] = w[p - (i - 1)]
      BY <1>5, <1>6, <3>1
    <3>. QED BY <2>3, <3>1, <3>2
  <2>4. CASE ~(p < i) /\ ~(p < i + W)
    <3>. DEFINE q == p - ((i - 1) + W)
    <3>1. q \in 1..(L - j + 1) /\ ~(p <= (i - 1) + W) /\ j + q - 1 = p - i - W + j
      BY <1>1, <1>2, <2>1, <2>4
    <3>2. r[p] = c[q]
      BY <1>6, <3>1
    <3>. HIDE DEF q
    <3>3. c[q] = s[j + q - 1]
      BY <1>4, <3>1
    <3>. QED BY <2>4, <3>1, <3>2, <3>3
  <2>. QED BY <2>2, <2>3, <2>4
<1>. QED BY <1>6, <1>7 DEF W, r, n

\* The lines of a table are its cells, one each.
LEMMA LineFacts ==
    ASSUME NEW d, Filled(d)
    PROVE  /\ Lines(d) \in Seq(Seq(Token)) /\ Len(Lines(d)) = Len(Base(d))
           /\ \A p \in 1..Len(Base(d)) : Lines(d)[p] = <<Base(d)[p]>>
<1>. DEFINE b == Base(d)
            lines == Lines(d)
<1>1. lines = [p \in 1..Len(b) |-> <<b[p]>>]
  BY LinesRead
<1>2. b \in Seq(Token)
  BY BaseFacts
<1>. HIDE DEF b, lines
<1>3. \A p \in 1..Len(b) : <<b[p]>> \in Seq(Token)
  BY <1>2, ElementOfSeq
<1>4. lines \in [1..Len(b) -> Seq(Token)] /\ Len(b) \in Nat
  BY <1>1, <1>2, <1>3, LenProperties
<1>. QED BY <1>1, <1>4 DEF b, lines

\* Two cells put on one line.
LEMMA Pair ==
    ASSUME NEW T, NEW x \in T, NEW y \in T
    PROVE  <<x>> \o <<y>> = <<x, y>>
<1>. DEFINE u == <<x>>
            v == <<y>>
            w == u \o v
<1>1. u \in Seq(T) /\ v \in Seq(T) /\ Len(u) = 1 /\ Len(v) = 1 /\ u[1] = x /\ v[1] = y
  OBVIOUS
<1>. HIDE DEF u, v
<1>2. /\ w \in Seq(T) /\ Len(w) = Len(u) + Len(v)
      /\ \A p \in 1..(Len(u) + Len(v)) : w[p] = IF p <= Len(u) THEN u[p] ELSE v[p - Len(u)]
  BY <1>1, ConcatProperties
<1>. HIDE DEF w
<1>3. w \in Seq(T) /\ Len(w) = 2 /\ w[1] = x /\ w[2] = y
  BY <1>1, <1>2
<1>4. w = <<x, y>>
  BY <1>3
<1>. QED BY <1>4 DEF w, u, v

\* A page break is read as the words it puts into the text.
LEMMA BreakRead ==
    ASSUME NEW d, Filled(d), NEW i \in 1..Len(Base(d)), NEW n \in Nat
    PROVE  Tokens(Before(Lines(d), i) \o Words(n) \o From(Lines(d), i)) = Broken(Base(d), i, n)
<1>. DEFINE b == Base(d)
            L == Len(b)
            lines == Lines(d)
            w == Words(n)
            r == Before(lines, i) \o w \o From(lines, i)
            t == Broken(b, i, n)
<1>1. /\ lines \in Seq(Seq(Token)) /\ Len(lines) = L
      /\ \A p \in 1..L : lines[p] = <<b[p]>>
  BY LineFacts
<1>2. b \in Seq(Token) /\ L \in Nat /\ i \in 1..L /\ i \in 1..L + 1
  <2>1. b \in Seq(Token) /\ i \in 1..L
    BY BaseFacts
  <2>. HIDE DEF b
  <2>2. L \in Nat
    BY <2>1, LenProperties
  <2>. HIDE DEF L
  <2>. QED BY <2>1, <2>2
<1>3. w \in Seq(Seq(Token)) /\ Len(w) = n /\ \A p \in 1..n : w[p] = <<Word>>
  <2>1. Word \in Token
    BY DEF Token, Word
  <2>2. <<Word>> \in Seq(Token)
    BY <2>1
  <2>3. w = [p \in 1..n |-> <<Word>>]
    BY DEF Words
  <2>. HIDE DEF w
  <2>4. w \in [1..n -> Seq(Token)]
    BY <2>2, <2>3
  <2>. QED BY <2>3, <2>4
<1>4. r = SubSeq(lines, 1, i - 1) \o w \o SubSeq(lines, i, Len(lines))
  BY DEF Before, From
<1>5. t \in Seq(Token) /\ Len(t) = L + n
      /\ \A p \in 1..(L + n) : t[p] = IF p < i THEN b[p] ELSE IF p < i + n THEN Word ELSE b[p - n]
  BY <1>2, BrokenFacts
<1>. HIDE DEF b, L, lines, w, r, t
<1>6. i \in 1..Len(lines) + 1 /\ i \in i..Len(lines) + 1 /\ L + n = (i - 1) + Len(w) + (Len(lines) - i + 1)
  BY <1>1, <1>2, <1>3
<1>7. /\ r \in Seq(Seq(Token)) /\ Len(r) = L + n
      /\ \A p \in 1..(L + n) : r[p] = IF p < i THEN lines[p]
                                      ELSE IF p < i + Len(w) THEN w[p - i + 1] ELSE lines[p - i - Len(w) + i]
  <2>. DEFINE T == Seq(Token)
              q == Splice(lines, w, i, i)
  <2>1. r = q
    BY <1>4, Zenon DEF Splice
  <2>2. lines \in Seq(T) /\ w \in Seq(T)
    BY <1>1, <1>3
  <2>. HIDE DEF T
  <2>3. /\ q \in Seq(T) /\ Len(q) = (i - 1) + Len(w) + (Len(lines) - i + 1)
        /\ \A p \in 1..Len(q) : q[p] = IF p < i THEN lines[p]
                                        ELSE IF p < i + Len(w) THEN w[p - i + 1] ELSE lines[p - i - Len(w) + i]
    BY <1>6, <2>2, Spliced
  <2>. HIDE DEF q
  <2>. QED BY <1>6, <2>1, <2>3 DEF T
<1>8. ASSUME NEW p \in 1..(L + n) PROVE r[p] = <<t[p]>>
  <2>1. CASE p < i
    <3>1. p \in 1..L
      BY <1>2, <2>1
    <3>. QED BY <1>1, <1>5, <1>7, <2>1, <3>1
  <2>2. CASE ~(p < i) /\ p < i + n
    <3>1. p - i + 1 \in 1..n
      BY <1>2, <2>2
    <3>2. r[p] = w[p - i + 1] /\ t[p] = Word
      BY <1>3, <1>5, <1>7, <2>2
    <3>. QED BY <1>3, <3>1, <3>2
  <2>3. CASE ~(p < i) /\ ~(p < i + n)
    <3>1. p - n \in 1..L /\ p - i - n + i = p - n
      BY <1>2, <2>3
    <3>2. r[p] = lines[p - n] /\ t[p] = b[p - n]
      BY <1>3, <1>5, <1>7, <2>3, <3>1
    <3>. QED BY <1>1, <3>1, <3>2
  <2>. QED BY <2>1, <2>2, <2>3
<1>9. r = [p \in 1..Len(t) |-> <<t[p]>>]
  <2>1. DOMAIN r = 1..Len(t) /\ r = [p \in DOMAIN r |-> r[p]]
    BY <1>5, <1>7, LenProperties
  <2>. QED BY <1>5, <1>8, <2>1
<1>10. Tokens(r) = t
  BY <1>5, <1>9, Singles
<1>. QED BY <1>10 DEF r, t, w, lines, b

\* The words a reading was broken by.
ReadAs(d, s, i, n) == i \in 1..Len(Base(d)) + 1 /\ n \in Nat /\ s = Broken(Base(d), i, n)

\* Without a break the cells are read as they stand.
LEMMA Unbroken ==
    ASSUME NEW d, Filled(d)
    PROVE  Broken(Base(d), 1, 0) = Base(d) /\ 1 \in 1..Len(Base(d)) + 1
<1>. DEFINE b == Base(d)
            t == Broken(b, 1, 0)
<1>1. b \in Seq(Token) /\ Len(b) \in Nat
  BY BaseFacts, LenProperties
<1>. HIDE DEF b
<1>2. 1 \in 1..Len(b) + 1
  BY <1>1
<1>3. t \in Seq(Token) /\ Len(t) = Len(b) + 0
      /\ \A p \in 1..(Len(b) + 0) : t[p] = IF p < 1 THEN b[p] ELSE IF p < 1 + 0 THEN Word ELSE b[p - 0]
  BY <1>1, <1>2, BrokenFacts
<1>. HIDE DEF t
<1>4. Len(t) = Len(b) /\ \A p \in 1..Len(b) : t[p] = b[p]
  BY <1>1, <1>3
<1>5. t = b
  BY <1>1, <1>3, <1>4, SeqEqual
<1>. QED BY <1>2, <1>5 DEF t, b

\* However the lines of a table arrive with their cells readable, they are read
\* as its cells, broken by at most the words the scanner tolerates.
LEMMA IntactReads ==
    ASSUME NEW d, Filled(d), NEW l \in Intact(Lines(d))
    PROVE  \E i, n \in Nat : ReadAs(d, Tokens(l), i, n) /\ n <= SkipLimit
<1>. DEFINE b == Base(d)
            L == Len(b)
            lines == Lines(d)
<1>1. /\ lines \in Seq(Seq(Token)) /\ Len(lines) = L
      /\ \A p \in 1..L : lines[p] = <<b[p]>>
  BY LineFacts
<1>2. b \in Seq(Token) /\ L \in Nat /\ Broken(b, 1, 0) = b /\ 1 \in 1..L + 1
  BY BaseFacts, Unbroken, LenProperties
<1>3. lines = [p \in 1..L |-> <<b[p]>>]
  BY LinesRead
<1>4. Tokens(l) = b => ReadAs(d, Tokens(l), 1, 0) /\ 0 <= SkipLimit
  BY <1>2, LimitAssumption DEF ReadAs
<1>5. DOMAIN lines = 1..L
  BY <1>3
<1>. DEFINE shared == {Before(lines, i) \o <<lines[i] \o lines[i + 1]>> \o From(lines, i + 2) :
                          i \in {i \in 1..(Len(lines) - 1) : {lines[i][1].kind, lines[i + 1][1].kind} = {"num"}}}
            split == {Before(lines, i) \o Words(n) \o From(lines, i) :
                          i \in DOMAIN lines, n \in {n \in Breaks : n <= SkipLimit}}
<1>6. \/ l = lines
      \/ \E m \in {m \in 1..(Len(lines) - 1) : {lines[m][1].kind, lines[m + 1][1].kind} = {"num"}} :
            l = Before(lines, m) \o <<lines[m] \o lines[m + 1]>> \o From(lines, m + 2)
      \/ \E i \in DOMAIN lines, n \in {n \in Breaks : n <= SkipLimit} :
            l = Before(lines, i) \o Words(n) \o From(lines, i)
  <2>1. l \in {lines} \cup shared \cup split
    <3>1. l \in Intact(lines)
      OBVIOUS
    <3>. HIDE DEF lines
    <3>2. Intact(lines) = {lines} \cup shared \cup split
      BY SMT DEF Intact
    <3>. HIDE DEF shared, split
    <3>. QED BY <3>1, <3>2
  <2>2. l = lines \/ l \in shared \/ l \in split
    <3>. HIDE DEF lines, shared, split
    <3>. QED BY <2>1, Zenon
  <2>3. ASSUME l \in shared
        PROVE  \E m \in {m \in 1..(Len(lines) - 1) : {lines[m][1].kind, lines[m + 1][1].kind} = {"num"}} :
                  l = Before(lines, m) \o <<lines[m] \o lines[m + 1]>> \o From(lines, m + 2)
    BY <2>3, Zenon
  <2>4. ASSUME l \in split
        PROVE  \E i \in DOMAIN lines, n \in {n \in Breaks : n <= SkipLimit} :
                  l = Before(lines, i) \o Words(n) \o From(lines, i)
    BY <2>4
  <2>. HIDE DEF shared, split
  <2>. QED BY <2>2, <2>3, <2>4
<1>7. CASE l = lines
  <2>1. Tokens(l) = b
    BY <1>2, <1>3, <1>7, Singles, Zenon
  <2>. HIDE DEF b
  <2>. QED BY <1>4, <2>1
<1>8. ASSUME NEW m \in 1..(Len(lines) - 1), {lines[m][1].kind, lines[m + 1][1].kind} = {"num"},
             l = Before(lines, m) \o <<lines[m] \o lines[m + 1]>> \o From(lines, m + 2)
      PROVE  Tokens(l) = b
  <2>. HIDE DEF b, L, lines
  <2>1. m \in 1..L /\ m + 1 \in 1..L /\ m \in 1..(L - 1)
    BY <1>1, <1>2, <1>8
  <2>2. lines[m] = <<b[m]>> /\ lines[m + 1] = <<b[m + 1]>> /\ b[m] \in Token /\ b[m + 1] \in Token
    BY <1>1, <1>2, <2>1, ElementOfSeq DEF L
  <2>3. b[m].kind = "num" /\ b[m + 1].kind = "num"
    <3>1. lines[m][1] = b[m] /\ lines[m + 1][1] = b[m + 1]
      BY <2>2
    <3>. QED BY <1>8, <3>1
  <2>. DEFINE w == <<lines[m] \o lines[m + 1]>>
  <2>4. lines[m] \o lines[m + 1] = <<b[m], b[m + 1]>>
    <3>1. <<b[m]>> \o <<b[m + 1]>> = <<b[m], b[m + 1]>>
      BY <2>2, Pair, Zenon
    <3>. QED BY <2>2, <3>1, Zenon
  <2>5. w = << <<b[m], b[m + 1]>> >>
    BY <2>4, Zenon
  <2>6. w \in Seq(Seq(Token)) /\ Len(w) = 1 /\ w[1] = <<b[m], b[m + 1]>>
    <3>1. <<b[m], b[m + 1]>> \in Seq(Token)
      BY <2>2
    <3>. HIDE DEF w
    <3>. QED BY <2>5, <3>1
  <2>7. l = SubSeq(lines, 1, m - 1) \o w \o SubSeq(lines, m + 2, Len(lines))
    BY <1>8 DEF Before, From
  <2>. HIDE DEF w
  <2>8. m \in 1..Len(lines) + 1 /\ m + 2 \in m..Len(lines) + 1
        /\ L - 1 = (m - 1) + Len(w) + (Len(lines) - (m + 2) + 1)
    BY <1>1, <1>2, <2>1, <2>6
  <2>9. /\ l \in Seq(Seq(Token)) /\ Len(l) = L - 1
        /\ \A p \in 1..(L - 1) : l[p] = IF p < m THEN lines[p]
                                        ELSE IF p < m + Len(w) THEN w[p - m + 1] ELSE lines[p - m - Len(w) + (m + 2)]
    <3>. DEFINE T == Seq(Token)
                j == m + 2
                q == Splice(lines, w, m, j)
    <3>1. l = q
      BY <2>7, Zenon DEF Splice
    <3>2. lines \in Seq(T) /\ w \in Seq(T) /\ j \in m..Len(lines) + 1
      BY <1>1, <2>6, <2>8
    <3>3. L - 1 = (m - 1) + Len(w) + (Len(lines) - j + 1)
      BY <2>8
    <3>. HIDE DEF T, j
    <3>4. /\ q \in Seq(T) /\ Len(q) = (m - 1) + Len(w) + (Len(lines) - j + 1)
          /\ \A p \in 1..Len(q) : q[p] = IF p < m THEN lines[p]
                                          ELSE IF p < m + Len(w) THEN w[p - m + 1] ELSE lines[p - m - Len(w) + j]
      BY <2>8, <3>2, Spliced
    <3>. HIDE DEF q
    <3>. QED BY <3>1, <3>3, <3>4 DEF T, j
  <2>10. ASSUME NEW p \in 1..(L - 1)
        PROVE  l[p] = IF p < m THEN <<b[p]>> ELSE IF p = m THEN <<b[m], b[m + 1]>> ELSE <<b[p + 1]>>
    <3>1. p \in 1..L /\ p + 1 \in 1..L
      BY <1>2
    <3>2. lines[p] = <<b[p]>> /\ lines[p + 1] = <<b[p + 1]>>
      BY <1>1, <3>1
    <3>3. CASE p < m
      BY <2>9, <3>2, <3>3
    <3>4. CASE p = m
      <4>1. ~(p < m) /\ p < m + Len(w) /\ p - m + 1 = 1
        BY <2>1, <2>6, <3>4
      <4>. QED BY <2>6, <2>9, <3>4, <4>1
    <3>5. CASE ~(p < m) /\ p # m
      <4>1. ~(p < m + Len(w)) /\ p - m - Len(w) + (m + 2) = p + 1
        BY <2>1, <2>6, <3>5
      <4>. QED BY <2>9, <3>2, <3>5, <4>1
    <3>. QED BY <3>3, <3>4, <3>5
  <2>11. Len(b) = L
    BY DEF L
  <2>. QED BY <1>2, <2>1, <2>3, <2>9, <2>10, <2>11, Shared
<1>9. ASSUME NEW i \in 1..L, NEW n \in Breaks, n <= SkipLimit,
             l = Before(lines, i) \o Words(n) \o From(lines, i)
      PROVE  ReadAs(d, Tokens(l), i, n)
  <2>1. n \in Nat
    BY LimitAssumption
  <2>2. Tokens(l) = Broken(b, i, n)
    BY <1>9, <2>1, BreakRead
  <2>3. i \in 1..L + 1
    <3>. HIDE DEF L
    <3>. QED BY <1>2
  <2>. HIDE DEF lines
  <2>. QED BY <2>1, <2>2, <2>3 DEF ReadAs
<1>. HIDE DEF lines, L, b, shared, split
<1>10. 0 \in Nat /\ 1 \in Nat /\ (\A i \in 1..L : i \in Nat) /\ \A n \in Breaks : n \in Nat
  BY <1>2, LimitAssumption
<1>. QED BY <1>4, <1>5, <1>6, <1>7, <1>8, <1>9, <1>10

-----------------------------------------------------------------------------
(* Where the cells of a row stand *)

\* Where the b-th cell is read when n words stand before the i-th.
CellAt(i, n, b) == IF b < i THEN b ELSE b + n

\* Where the date (m = 0) and the numbers of the k-th row are read.
ColAt(i, n, k, m) == CellAt(i, n, 10 * (k - 1) + 1 + m)

\* The cell of row k in column m.
CellOf(d, k, m) == RowLines(d.rows[k])[m + 1]

\* It is read at p.
StandsAt(d, t, k, m, p) == p \in 1..Len(t) /\ t[p] = CellOf(d, k, m)

\* The row as the scanner finds it when it finds all of it.
Whole(d, k) ==
    [date |-> d.rows[k].date, cells |-> [j \in 1..9 |-> RowLines(d.rows[k])[j + 1].val]]

\* The next column follows at once, or behind the words of the break.
LEMMA NextColumn ==
    ASSUME NEW i \in Nat, NEW n \in Nat, NEW k \in Nat \ {0}, NEW m \in 0..8
    PROVE  /\ ColAt(i, n, k, m) < ColAt(i, n, k, m + 1)
           /\ \/ ColAt(i, n, k, m + 1) = ColAt(i, n, k, m) + 1
              \/ ColAt(i, n, k, m) = i - 1 /\ ColAt(i, n, k, m + 1) = i + n
<1>. DEFINE x == 10 * (k - 1) + 1 + m
            y == 10 * (k - 1) + 1 + (m + 1)
<1>1. x \in Nat /\ y = x + 1
  OBVIOUS
<1>. HIDE DEF x, y
<1>2. /\ CellAt(i, n, x) < CellAt(i, n, y)
      /\ \/ CellAt(i, n, y) = CellAt(i, n, x) + 1
         \/ CellAt(i, n, x) = i - 1 /\ CellAt(i, n, y) = i + n
  BY <1>1 DEF CellAt
<1>. QED BY <1>2 DEF ColAt, x, y

\* The columns of a row, and the rows, follow one another.
LEMMA ColumnOrder ==
    ASSUME NEW i \in Nat, NEW n \in Nat, NEW k \in Nat \ {0}
    PROVE  /\ \A m \in 0..9 : ColAt(i, n, k, m) \in Nat /\ 1 <= ColAt(i, n, k, m)
           /\ \A m \in 0..8 : ColAt(i, n, k, m) < ColAt(i, n, k, m + 1)
           /\ \A m \in 0..9 : ColAt(i, n, k, 0) <= ColAt(i, n, k, m)
           /\ \A q \in Nat, m \in 0..9 : k < q => ColAt(i, n, k, m) < ColAt(i, n, q, 0)
<1>1. ASSUME NEW m \in 0..9 PROVE 10 * (k - 1) + 1 + m \in Nat /\ 1 <= 10 * (k - 1) + 1 + m
  OBVIOUS
<1>2. \A m \in 0..9 : ColAt(i, n, k, m) \in Nat /\ 1 <= ColAt(i, n, k, m)
  BY <1>1 DEF ColAt, CellAt
<1>3. ASSUME NEW m \in 0..8 PROVE ColAt(i, n, k, m) < ColAt(i, n, k, m + 1)
  BY NextColumn
<1>4. ASSUME NEW m \in 0..9 PROVE ColAt(i, n, k, 0) <= ColAt(i, n, k, m)
  <2>. DEFINE x == 10 * (k - 1) + 1 + 0
              y == 10 * (k - 1) + 1 + m
  <2>1. x \in Nat /\ y \in Nat /\ x <= y
    OBVIOUS
  <2>. HIDE DEF x, y
  <2>2. CellAt(i, n, x) <= CellAt(i, n, y)
    BY <2>1 DEF CellAt
  <2>. QED BY <2>2 DEF ColAt, x, y
<1>5. ASSUME NEW q \in Nat, NEW m \in 0..9, k < q PROVE ColAt(i, n, k, m) < ColAt(i, n, q, 0)
  <2>. DEFINE x == 10 * (k - 1) + 1 + m
              y == 10 * (q - 1) + 1 + 0
  <2>1. x \in Nat /\ y \in Nat /\ x < y
    BY <1>5
  <2>. HIDE DEF x, y
  <2>2. CellAt(i, n, x) < CellAt(i, n, y)
    BY <2>1 DEF CellAt
  <2>. QED BY <2>2 DEF ColAt, x, y
<1>. QED BY <1>2, <1>3, <1>4, <1>5

\* The cells of a row are numbers, behind its date.
LEMMA WholeFacts ==
    ASSUME NEW d, Filled(d), NEW k \in 1..Len(d.rows)
    PROVE  /\ d.rows[k] \in FormRow
           /\ Whole(d, k) \in [date : Int, cells : Seq(Int)] /\ Len(Whole(d, k).cells) = 9
           /\ RowLines(d.rows[k])[1] = Date(Whole(d, k).date)
           /\ \A j \in 1..9 : RowLines(d.rows[k])[j + 1] = Num(Whole(d, k).cells[j])
<1>. DEFINE r == d.rows[k]
            c == [j \in 1..9 |-> RowLines(r)[j + 1].val]
<1>1. r \in FormRow
  BY ElementOfSeq DEF Filled
<1>. HIDE DEF r
<1>2. /\ RowLines(r) \in [1..10 -> Token] /\ RowLines(r)[1] = Date(r.date)
      /\ RowLines(r)[2] = Num(r.buy) /\ RowLines(r)[3] = Num(r.sell)
      /\ RowLines(r)[4] = Num(Abs(Net(r))) /\ RowLines(r)[5] = Num(r.start)
      /\ RowLines(r)[6] = Num(r.start + Net(r))
      /\ \A j \in 1..4 : RowLines(r)[6 + j] = Num(r.pcts[j])
  BY <1>1, RowCells
<1>3. ASSUME NEW j \in 1..9 PROVE RowLines(r)[j + 1].kind = "num"
  <2>1. j + 1 \in {2, 3, 4, 5, 6} \/ \E q \in 1..4 : j + 1 = 6 + q
    <3>1. j \in {1, 2, 3, 4, 5} \/ (j - 5 \in 1..4 /\ j + 1 = 6 + (j - 5))
      OBVIOUS
    <3>. QED BY <3>1
  <2>. QED BY <1>2, <2>1 DEF Num
<1>4. ASSUME NEW j \in 1..9
      PROVE  RowLines(r)[j + 1] = Num(RowLines(r)[j + 1].val) /\ RowLines(r)[j + 1].val \in Int
  <2>1. j + 1 \in 1..10
    OBVIOUS
  <2>2. RowLines(r)[j + 1] \in Token
    BY <1>2, <2>1
  <2>. QED BY <1>3, <2>2 DEF Token, Num
<1>5. c \in [1..9 -> Int]
  BY <1>4
<1>6. c \in Seq(Int) /\ Len(c) = 9
  BY <1>5
<1>7. \A j \in 1..9 : RowLines(r)[j + 1] = Num(c[j])
  BY <1>4
<1>8. r.date \in Int
  BY <1>1 DEF FormRow
<1>9. Whole(d, k).date = r.date /\ Whole(d, k).cells = c /\ Whole(d, k) = [date |-> r.date, cells |-> c]
  BY DEF Whole, r
<1>. HIDE DEF c
<1>10. Whole(d, k) \in [date : Int, cells : Seq(Int)]
  BY <1>6, <1>8, <1>9
<1>. QED BY <1>1, <1>2, <1>6, <1>7, <1>9, <1>10 DEF r

\* The cell of row k in column m stands where ColAt says.
LEMMA CellRead ==
    ASSUME NEW d, Filled(d), NEW i \in Nat, NEW n \in Nat, NEW t, ReadAs(d, t, i, n),
           NEW k \in 1..Len(d.rows), NEW m \in 0..9
    PROVE  StandsAt(d, t, k, m, ColAt(i, n, k, m))
<1>. DEFINE K == Len(d.rows)
            M == Len(d.tail)
            b == Base(d)
            T == 10 * K
            N == T + M
<1>1. /\ b \in Seq(Token) /\ Len(b) = N /\ K \in Nat /\ M \in Nat
      /\ \A l \in 1..K, j \in 1..10 : b[10 * (l - 1) + j] = RowLines(d.rows[l])[j]
      /\ \A x \in 1..M : b[T + x] = d.tail[x]
  BY BaseFacts
<1>2. i \in 1..Len(b) + 1 /\ t = Broken(b, i, n)
  BY DEF ReadAs
<1>3. k \in 1..K
  OBVIOUS
<1>. HIDE DEF K, M, b
<1>4. T \in Nat /\ N \in Nat /\ i \in 1..N + 1 /\ 1 <= i /\ i <= N + 1 /\ N = T + M /\ T <= N
  <2>1. T \in Nat
    BY <1>1
  <2>. HIDE DEF T
  <2>2. N \in Nat /\ T <= N
    BY <1>1, <2>1
  <2>. HIDE DEF N
  <2>. QED BY <1>1, <1>2, <2>1, <2>2 DEF N
<1>5. /\ t \in Seq(Token) /\ Len(t) = N + n /\ N + n \in Nat
      /\ \A p \in 1..(N + n) : t[p] = IF p < i THEN b[p] ELSE IF p < i + n THEN Word ELSE b[p - n]
  <2>. DEFINE q == Broken(b, i, n)
  <2>1. /\ q \in Seq(Token) /\ Len(q) = Len(b) + n
        /\ \A p \in 1..(Len(b) + n) : q[p] = IF p < i THEN b[p] ELSE IF p < i + n THEN Word ELSE b[p - n]
    BY <1>1, <1>2, BrokenFacts
  <2>2. t = q
    BY <1>2
  <2>. HIDE DEF N, q
  <2>3. Len(q) = N + n /\ N + n \in Nat
    BY <1>1, <1>4, <2>1
  <2>. QED BY <1>1, <2>1, <2>2, <2>3
<1>6. ASSUME NEW x \in 1..N PROVE CellAt(i, n, x) \in 1..(N + n) /\ t[CellAt(i, n, x)] = b[x]
  <2>. HIDE DEF N
  <2>1. CASE x < i
    <3>1. x \in 1..(N + n) /\ CellAt(i, n, x) = x
      BY <1>4, <2>1 DEF CellAt
    <3>. QED BY <1>5, <2>1, <3>1
  <2>2. CASE ~(x < i)
    <3>. DEFINE y == x + n
    <3>1. y \in 1..(N + n) /\ CellAt(i, n, x) = y /\ ~(y < i) /\ ~(y < i + n) /\ y - n = x
      BY <1>4, <2>2 DEF CellAt
    <3>. HIDE DEF y
    <3>2. t[y] = b[y - n]
      BY <1>5, <3>1
    <3>. QED BY <3>1, <3>2
  <2>. QED BY <2>1, <2>2
<1>7. ColAt(i, n, k, m) \in 1..(N + n) /\ t[ColAt(i, n, k, m)] = RowLines(d.rows[k])[m + 1]
  <2>. DEFINE x == 10 * (k - 1) + 1 + m
  <2>1. x = 10 * (k - 1) + (m + 1) /\ m + 1 \in 1..10 /\ x \in Int /\ 1 <= x /\ x <= 10 * k /\ 10 * k <= 10 * K
    BY <1>1, <1>3
  <2>2. x \in 1..T
    <3>1. x <= T
      BY <1>1, <1>3, <2>1
    <3>. HIDE DEF x, T
    <3>. QED BY <1>4, <2>1, <3>1
  <2>3. b[x] = RowLines(d.rows[k])[m + 1]
    BY <1>1, <1>3, <2>1
  <2>. HIDE DEF x, T, N
  <2>4. x \in 1..N
    BY <1>4, <2>2
  <2>. QED BY <1>6, <2>3, <2>4 DEF ColAt, x
<1>. HIDE DEF T, N
<1>. QED BY <1>5, <1>7 DEF CellOf, StandsAt

\* There is its number in column m, or its date.
NumberAt(d, t, k, m, p) == t[p] = Num(Whole(d, k).cells[m])
DateAt(d, t, k, p) == t[p] = Date(Whole(d, k).date)

\* The numbers of a row stand in its columns.
LEMMA NumberRead ==
    ASSUME NEW d, Filled(d), NEW i \in Nat, NEW n \in Nat, NEW t, ReadAs(d, t, i, n),
           NEW k \in 1..Len(d.rows), NEW m \in 1..9
    PROVE  NumberAt(d, t, k, m, ColAt(i, n, k, m))
<1>1. m \in 0..9
  OBVIOUS
<1>2. t[ColAt(i, n, k, m)] = CellOf(d, k, m)
  <2>1. StandsAt(d, t, k, m, ColAt(i, n, k, m))
    BY <1>1, CellRead
  <2>. QED BY <2>1 DEF StandsAt
<1>3. CellOf(d, k, m) = Num(Whole(d, k).cells[m])
  BY WholeFacts DEF CellOf
<1>. QED BY <1>2, <1>3 DEF NumberAt

\* Its date stands before them.
LEMMA DateRead ==
    ASSUME NEW d, Filled(d), NEW i \in Nat, NEW n \in Nat, NEW t, ReadAs(d, t, i, n),
           NEW k \in 1..Len(d.rows)
    PROVE  DateAt(d, t, k, ColAt(i, n, k, 0))
<1>1. 0 \in 0..9 /\ 0 + 1 = 1
  OBVIOUS
<1>2. t[ColAt(i, n, k, 0)] = CellOf(d, k, 0)
  <2>1. StandsAt(d, t, k, 0, ColAt(i, n, k, 0))
    BY <1>1, CellRead
  <2>. QED BY <2>1 DEF StandsAt
<1>3. CellOf(d, k, 0) = Date(Whole(d, k).date)
  BY <1>1, WholeFacts DEF CellOf
<1>. QED BY <1>2, <1>3 DEF DateAt

\* Between two columns stand only the words of the break.
LEMMA WordRead ==
    ASSUME NEW d, Filled(d), NEW i \in Nat, NEW n \in Nat, NEW t, ReadAs(d, t, i, n),
           NEW k \in 1..Len(d.rows), NEW m \in 0..8, NEW p \in Nat,
           ColAt(i, n, k, m) < p, p < ColAt(i, n, k, m + 1)
    PROVE  i <= p /\ t[p] = Word
<1>. DEFINE b == Base(d)
            L == Len(b)
<1>1. b \in Seq(Token) /\ i \in 1..Len(b) + 1 /\ t = Broken(b, i, n)
  BY BaseFacts DEF ReadAs
<1>2. k \in Nat \ {0}
  BY BaseFacts
<1>. HIDE DEF b
<1>3. \A q \in 1..(L + n) : t[q] = IF q < i THEN b[q] ELSE IF q < i + n THEN Word ELSE b[q - n]
  <2>. DEFINE r == Broken(b, i, n)
  <2>1. \A q \in 1..(Len(b) + n) : r[q] = IF q < i THEN b[q] ELSE IF q < i + n THEN Word ELSE b[q - n]
    BY <1>1, BrokenFacts
  <2>2. t = r
    BY <1>1
  <2>. HIDE DEF r
  <2>. QED BY <2>1, <2>2
<1>4. L \in Nat /\ i \in 1..L + 1
  BY <1>1, LenProperties
<1>. HIDE DEF L
<1>5. ColAt(i, n, k, m) \in Nat
  <2>1. m \in 0..9
    OBVIOUS
  <2>. QED BY <1>2, <2>1, ColumnOrder
<1>6. ColAt(i, n, k, m) = i - 1 /\ ColAt(i, n, k, m + 1) = i + n
  <2>. SUFFICES ASSUME ColAt(i, n, k, m + 1) = ColAt(i, n, k, m) + 1 PROVE FALSE
    BY <1>2, NextColumn, SMTT(60)
  <2>. QED BY <1>5
<1>7. i <= p /\ ~(p < i) /\ p < i + n /\ p \in 1..(L + n)
  BY <1>4, <1>6
<1>. QED BY <1>3, <1>7

\* No date stands anywhere but at the head of a row.
LEMMA DateOf ==
    ASSUME NEW d, Filled(d), NEW i \in Nat, NEW n \in Nat, NEW t, ReadAs(d, t, i, n),
           NEW p \in 1..Len(t), t[p].kind = "date"
    PROVE  \E k \in 1..Len(d.rows) : p = ColAt(i, n, k, 0)
<1>. DEFINE K == Len(d.rows)
            M == Len(d.tail)
            b == Base(d)
            T == 10 * K
            N == T + M
<1>1. /\ b \in Seq(Token) /\ Len(b) = N /\ K \in Nat /\ M \in Nat
      /\ \A k \in 1..K, j \in 1..10 : b[10 * (k - 1) + j] = RowLines(d.rows[k])[j]
      /\ \A x \in 1..M : b[T + x] = d.tail[x]
  BY BaseFacts
<1>2. \A x \in 1..M : d.tail[x].kind # "date"
  <2>1. \A x \in 1..M : d.tail[x] \in [kind : {"num", "word"}, val : Int]
    BY ElementOfSeq DEF Filled
  <2>. QED BY <2>1
<1>3. ASSUME NEW k \in 1..K
      PROVE  /\ RowLines(d.rows[k])[1] = Date(Whole(d, k).date)
             /\ \A j \in 1..9 : RowLines(d.rows[k])[j + 1] = Num(Whole(d, k).cells[j])
  BY WholeFacts
<1>4. i \in 1..Len(b) + 1 /\ t = Broken(b, i, n)
  BY DEF ReadAs
<1>. HIDE DEF K, M, b
<1>5. T \in Nat /\ N \in Nat /\ i \in 1..N + 1 /\ 1 <= i /\ i <= N + 1 /\ N = T + M /\ T <= N
  <2>1. T \in Nat
    BY <1>1
  <2>. HIDE DEF T
  <2>2. N \in Nat /\ T <= N
    BY <1>1, <2>1
  <2>. HIDE DEF N
  <2>. QED BY <1>1, <1>4, <2>1, <2>2 DEF N
<1>6. /\ t \in Seq(Token) /\ Len(t) = N + n /\ N + n \in Nat
      /\ \A x \in 1..(N + n) : t[x] = IF x < i THEN b[x] ELSE IF x < i + n THEN Word ELSE b[x - n]
  <2>. DEFINE q == Broken(b, i, n)
  <2>1. /\ q \in Seq(Token) /\ Len(q) = Len(b) + n
        /\ \A x \in 1..(Len(b) + n) : q[x] = IF x < i THEN b[x] ELSE IF x < i + n THEN Word ELSE b[x - n]
    BY <1>1, <1>4, BrokenFacts
  <2>2. t = q
    BY <1>4
  <2>. HIDE DEF N, q
  <2>3. Len(q) = N + n /\ N + n \in Nat
    BY <1>1, <1>5, <2>1
  <2>. QED BY <1>1, <2>1, <2>2, <2>3
<1>7. ASSUME NEW x \in 1..N, b[x].kind = "date"
       PROVE  \E k \in 1..K : x = 10 * (k - 1) + 1
  <2>1. CASE x <= T
    <3>. DEFINE S == {k \in 1..K : x <= 10 * k}
    <3>1. PICK k \in S : \A q \in S : k <= q
      <4>1. K \in S /\ S \subseteq Nat
        <5>1. x \in Int /\ 1 <= x /\ x <= 10 * K /\ K \in Nat
          BY <1>1, <1>5, <2>1
        <5>2. K \in 1..K
          BY <5>1
        <5>. QED BY <5>1, <5>2
      <4>. HIDE DEF S
      <4>. QED BY <4>1, Least
    <3>. DEFINE j == x - 10 * (k - 1)
    <3>2. k \in 1..K /\ x <= 10 * k /\ x \in Int /\ 1 <= x
      BY <1>5
    <3>3. ~(x <= 10 * (k - 1))
      <4>1. CASE k = 1
        BY <3>2, <4>1
      <4>2. CASE k # 1
        <5>1. k - 1 \in 1..K /\ ~(k <= k - 1)
          <6>1. k \in Int /\ 1 <= k /\ k <= K /\ K \in Int
            BY <1>1, <3>2
          <6>. HIDE DEF S, T, N
          <6>. QED BY <4>2, <6>1
        <5>. QED BY <3>1, <5>1
      <4>. QED BY <4>1, <4>2
    <3>4. j \in 1..10 /\ x = 10 * (k - 1) + j
      BY <3>2, <3>3
    <3>. HIDE DEF j, S, T, N
    <3>5. b[x] = RowLines(d.rows[k])[j]
      BY <1>1, <3>2, <3>4
    <3>6. CASE j = 1
      BY <3>2, <3>4, <3>6
    <3>7. CASE j # 1
      <4>1. j - 1 \in 1..9 /\ j - 1 + 1 = j
        BY <3>4, <3>7
      <4>2. b[x] = Num(Whole(d, k).cells[j - 1])
        BY <1>3, <3>2, <3>5, <4>1
      <4>. QED BY <1>7, <4>2 DEF Num
    <3>. QED BY <3>6, <3>7
  <2>2. CASE ~(x <= T)
    <3>. HIDE DEF T, N
    <3>1. x - T \in 1..M /\ T + (x - T) = x
      BY <1>1, <1>5, <2>2
    <3>. QED BY <1>1, <1>2, <1>7, <3>1
  <2>. QED BY <2>1, <2>2
<1>8. p \in 1..(N + n)
  BY <1>6
<1>9. \E k \in 1..K : p = ColAt(i, n, k, 0)
  <2>1. PICK x \in 1..N : p = CellAt(i, n, x) /\ t[p] = b[x]
    <3>. HIDE DEF N, T
    <3>1. CASE p < i
      <4>1. p \in 1..N /\ CellAt(i, n, p) = p
        BY <1>5, <1>8, <3>1 DEF CellAt
      <4>. QED BY <1>6, <1>8, <3>1, <4>1
    <3>2. CASE ~(p < i) /\ p < i + n
      <4>1. t[p] = Word
        BY <1>6, <1>8, <3>2
      <4>. QED BY <4>1 DEF Word
    <3>3. CASE ~(p < i) /\ ~(p < i + n)
      <4>1. p - n \in 1..N /\ ~(p - n < i) /\ CellAt(i, n, p - n) = p
        BY <1>5, <1>8, <3>3 DEF CellAt
      <4>2. t[p] = b[p - n]
        BY <1>6, <1>8, <3>3
      <4>. QED BY <4>1, <4>2
    <3>. QED BY <3>1, <3>2, <3>3
  <2>2. PICK k \in 1..K : x = 10 * (k - 1) + 1
    BY <1>7, <2>1
  <2>3. 10 * (k - 1) + 1 = 10 * (k - 1) + 1 + 0
    BY <1>1
  <2>4. p = ColAt(i, n, k, 0)
    BY <2>1, <2>2, <2>3, Zenon DEF ColAt
  <2>. QED BY <2>4
<1>. HIDE DEF T, N
<1>. QED BY <1>9 DEF K

\* What is read are tokens.
LEMMA TokensRead ==
    ASSUME NEW d, Filled(d), NEW i \in Nat, NEW n \in Nat, NEW t, ReadAs(d, t, i, n)
    PROVE  t \in Seq(Token) /\ Len(t) \in Nat
<1>. DEFINE b == Base(d)
<1>1. b \in Seq(Token) /\ i \in 1..Len(b) + 1 /\ t = Broken(b, i, n)
  BY BaseFacts DEF ReadAs
<1>. HIDE DEF b
<1>2. t \in Seq(Token)
  BY <1>1, BrokenFacts
<1>. QED BY <1>2, LenProperties

-----------------------------------------------------------------------------
(* The scanner *)

\* Of the rows found, those with all their numbers are rows of the document.
OnlyWhole ==
    /\ rows \in Seq([date : Int, cells : Seq(Int)])
    /\ \A x \in 1..Len(rows) : Len(rows[x].cells) = 9 => \E q \in 1..Len(doc.rows) : rows[x] = Whole(doc, q)

\* So they are, and unless the break is a long one its first k rows are among them.
RowsOK(n, k) ==
    /\ OnlyWhole
    /\ n <= SkipLimit => \A q \in 1..k : \E x \in 1..Len(rows) : rows[x] = Whole(doc, q)

\* The scanner looks for the date of row k + 1.
ScanOK(i, n) ==
    \E k \in 0..Len(doc.rows) :
        /\ RowsOK(n, k)
        /\ pos \in Nat \ {0}
        /\ k > 0 => ColAt(i, n, k, 0) < pos
        /\ k < Len(doc.rows) => pos <= ColAt(i, n, k + 1, 0)

\* It has the first m numbers of row k, and of the words it may skip enough for
\* those that are left of the break.
CollectOK(i, n) ==
    \E k \in 1..Len(doc.rows), m \in 0..9 :
        /\ RowsOK(n, k - 1)
        /\ anchor = ColAt(i, n, k, 0)
        /\ cells \in Seq(Int) /\ Len(cells) = m
        /\ \A j \in 1..m : cells[j] = Whole(doc, k).cells[j]
        /\ pos \in Nat /\ ColAt(i, n, k, m) < pos
        /\ m = 9 => pos = ColAt(i, n, k, 9) + 1
        /\ m < 9 => pos <= ColAt(i, n, k, m + 1)
        /\ skips \in Nat
        /\ pos <= i => skips = SkipLimit
        /\ m < 9 /\ n <= SkipLimit => ColAt(i, n, k, m + 1) - pos <= skips

\* The trades returned are true, and unless the break is a long one all of them.
DoneOK(n) ==
    /\ txs \subseteq RealTrades
    /\ n <= SkipLimit => RealTrades \subseteq txs

\* What holds at each stage of the call, for a text broken by n words before cell i.
Reads(i, n) ==
    /\ pc = "scan" => ScanOK(i, n)
    /\ pc = "collect" => CollectOK(i, n)
    /\ pc = "done" => DoneOK(n)

\* The invariant: a text whose cells all arrive is the table's, broken by at most
\* the words the scanner tolerates, and of every broken text what Reads says is true.
DkbInv ==
    /\ doc \in Doc
    /\ pc \in {"new", "scan", "collect", "done"}
    /\ pc = "new" => pos = 1 /\ rows = <<>>
    /\ IsTable(doc) /\ pc # "new" =>
        /\ intact => \E i, n \in Nat : ReadAs(doc, tokens, i, n) /\ n <= SkipLimit
        /\ \A i, n \in Nat : ReadAs(doc, tokens, i, n) => Reads(i, n)

\* What the scanner meets at its position.
LEMMA AtFacts ==
    ASSUME tokens \in Seq(Token), pos \in Nat \ {0}
    PROVE  /\ At(pos) = "end" => pos > Len(tokens)
           /\ At(pos) # "end" => pos \in 1..Len(tokens) /\ At(pos) = tokens[pos].kind
           /\ pos \in 1..Len(tokens) => At(pos) = tokens[pos].kind /\ At(pos) # "end"
<1>1. Len(tokens) \in Nat /\ \A p \in 1..Len(tokens) : tokens[p] \in Token
  BY LenProperties, ElementOfSeq
<1>2. \A p \in 1..Len(tokens) : tokens[p].kind # "end"
  BY <1>1 DEF Token
<1>. QED BY <1>1, <1>2 DEF At

\* The date met is that of the next row, whose numbers are then to be taken.
LEMMA AnchorStep ==
    ASSUME Filled(doc), NEW i \in Nat, NEW n \in Nat, ReadAs(doc, tokens, i, n),
           ScanOK(i, n), Anchor
    PROVE  CollectOK(i, n)'
<1>. DEFINE K == Len(doc.rows)
<1>1. K \in Nat
  BY BaseFacts
<1>2. PICK k \in 0..K : /\ RowsOK(n, k)
                        /\ pos \in Nat \ {0}
                        /\ k > 0 => ColAt(i, n, k, 0) < pos
                        /\ k < K => pos <= ColAt(i, n, k + 1, 0)
  BY DEF ScanOK
<1>3. tokens \in Seq(Token)
  BY TokensRead
<1>4. /\ At(pos) = "date"
      /\ anchor' = pos /\ pos' = pos + 1 /\ cells' = <<>> /\ skips' = SkipLimit
      /\ doc' = doc /\ rows' = rows
  BY DEF Anchor
<1>5. pos \in 1..Len(tokens) /\ tokens[pos].kind = "date"
  BY <1>2, <1>3, <1>4, AtFacts
<1>6. PICK q \in 1..K : pos = ColAt(i, n, q, 0)
  BY <1>5, DateOf
<1>7. RowsOK(n, k)'
  BY <1>2, <1>4 DEF RowsOK, OnlyWhole
<1>8. K' = K
  BY <1>4
<1>. HIDE DEF K
<1>9. q \in Nat \ {0} /\ k \in Nat /\ k <= K /\ q <= K
  BY <1>1
<1>10. k < q
  <2>. SUFFICES ASSUME q <= k PROVE FALSE
    BY <1>9
  <2>1. k \in Nat \ {0} /\ k > 0
    BY <1>9
  <2>2. q < k => ColAt(i, n, q, 0) < ColAt(i, n, k, 0)
    BY <1>9, <2>1, ColumnOrder
  <2>3. CASE q = k
    BY <1>2, <1>6, <2>1, <2>3
  <2>4. CASE q < k
    <3>1. ColAt(i, n, k, 0) \in Nat
      BY <2>1, ColumnOrder
    <3>. QED BY <1>2, <1>6, <2>1, <2>2, <2>4, <3>1
  <2>. QED BY <1>9, <2>3, <2>4
<1>11. q = k + 1
  <2>. SUFFICES ASSUME k + 1 < q PROVE FALSE
    <3>1. k \in Int /\ q \in Int /\ k < q
      BY <1>9, <1>10
    <3>2. ~(k + 1 < q) => q = k + 1
      BY <3>1
    <3>. QED BY <3>2
  <2>1. k + 1 \in Nat \ {0} /\ k < K
    <3>1. q \in Int /\ k \in Nat /\ K \in Int /\ q <= K /\ k < q
      BY <1>1, <1>9, <1>10
    <3>2. k < K
      BY <3>1
    <3>3. k + 1 \in Nat \ {0}
      BY <3>1
    <3>. QED BY <3>2, <3>3
  <2>2. ColAt(i, n, k + 1, 0) < ColAt(i, n, q, 0) /\ ColAt(i, n, k + 1, 0) \in Nat
    <3>1. q \in Nat /\ k + 1 < q /\ 0 \in 0..9
      BY <1>9
    <3>. QED BY <2>1, <3>1, ColumnOrder
  <2>. QED BY <1>2, <1>6, <2>1, <2>2
<1>12. q - 1 = k
  BY <1>9, <1>11
<1>13. /\ ColAt(i, n, q, 0) \in Nat /\ ColAt(i, n, q, 1) \in Nat
       /\ ColAt(i, n, q, 0) < ColAt(i, n, q, 1)
       /\ \/ ColAt(i, n, q, 1) = ColAt(i, n, q, 0) + 1
          \/ ColAt(i, n, q, 0) = i - 1 /\ ColAt(i, n, q, 1) = i + n
  <2>1. 0 \in 0..8 /\ 0 + 1 = 1 /\ 1 \in 0..9 /\ 0 \in 0..9
    OBVIOUS
  <2>. QED BY <1>9, <2>1, ColumnOrder, NextColumn
<1>14. /\ cells' \in Seq(Int) /\ Len(cells') = 0 /\ \A j \in 1..0 : cells'[j] = Whole(doc, q).cells[j]
       /\ pos' \in Nat /\ ColAt(i, n, q, 0) < pos' /\ pos' <= ColAt(i, n, q, 1)
       /\ skips' \in Nat /\ skips' = SkipLimit /\ anchor' = ColAt(i, n, q, 0)
       /\ n <= SkipLimit => ColAt(i, n, q, 1) - pos' <= skips'
  BY <1>4, <1>6, <1>13, LimitAssumption
<1>15. q \in 1..K' /\ 0 \in 0..9 /\ 0 # 9 /\ 0 < 9 /\ 0 + 1 = 1
  BY <1>8
<1>16. RowsOK(n, q - 1)'
  BY <1>7, <1>12
<1>. QED BY <1>4, <1>14, <1>15, <1>16 DEF CollectOK, K

\* What is passed on the way to a date is not a date.
LEMMA PassStep ==
    ASSUME Filled(doc), NEW i \in Nat, NEW n \in Nat, ReadAs(doc, tokens, i, n), ScanOK(i, n), Pass
    PROVE  ScanOK(i, n)'
<1>. DEFINE K == Len(doc.rows)
<1>1. K \in Nat
  BY BaseFacts
<1>2. PICK k \in 0..K : /\ RowsOK(n, k)
                        /\ pos \in Nat \ {0}
                        /\ k > 0 => ColAt(i, n, k, 0) < pos
                        /\ k < K => pos <= ColAt(i, n, k + 1, 0)
  BY DEF ScanOK
<1>3. tokens \in Seq(Token)
  BY TokensRead
<1>4. At(pos) \in {"num", "word"} /\ pos' = pos + 1 /\ doc' = doc /\ rows' = rows
  BY DEF Pass
<1>5. At(pos) = tokens[pos].kind
  BY <1>2, <1>3, <1>4, AtFacts
<1>6. RowsOK(n, k)'
  BY <1>2, <1>4 DEF RowsOK, OnlyWhole
<1>7. K' = K
  BY <1>4
<1>. HIDE DEF K
<1>8. k > 0 => ColAt(i, n, k, 0) \in Nat
  BY <1>1, ColumnOrder
<1>9. k < K => pos # ColAt(i, n, k + 1, 0) /\ ColAt(i, n, k + 1, 0) \in Nat
  <2>. SUFFICES ASSUME k < K PROVE pos # ColAt(i, n, k + 1, 0) /\ ColAt(i, n, k + 1, 0) \in Nat
    OBVIOUS
  <2>1. k + 1 \in 1..K /\ k + 1 \in Nat \ {0} /\ 0 \in 0..9
    BY <1>1
  <2>2. tokens[ColAt(i, n, k + 1, 0)].kind = "date"
    <3>. DEFINE q == k + 1
    <3>1. q \in 1..Len(doc.rows)
      BY <2>1 DEF K
    <3>. HIDE DEF q
    <3>2. DateAt(doc, tokens, q, ColAt(i, n, q, 0))
      BY <3>1, DateRead
    <3>. QED BY <3>2 DEF DateAt, q, Date
  <2>3. ColAt(i, n, k + 1, 0) \in Nat
    BY <2>1, ColumnOrder
  <2>. QED BY <1>4, <1>5, <2>2, <2>3
<1>10. /\ pos' \in Nat \ {0}
       /\ k > 0 => ColAt(i, n, k, 0) < pos'
       /\ k < K => pos' <= ColAt(i, n, k + 1, 0)
  BY <1>2, <1>4, <1>8, <1>9
<1>11. k \in 0..K'
  BY <1>7
<1>. QED BY <1>4, <1>6, <1>10, <1>11 DEF ScanOK, K

\* A number met is that of the row's next column.
LEMMA TakeStep ==
    ASSUME Filled(doc), NEW i \in Nat, NEW n \in Nat, ReadAs(doc, tokens, i, n),
           CollectOK(i, n), TakeCell
    PROVE  CollectOK(i, n)'
<1>. DEFINE K == Len(doc.rows)
<1>1. K \in Nat
  BY BaseFacts
<1>2. PICK k \in 1..K, m \in 0..9 :
        /\ RowsOK(n, k - 1)
        /\ anchor = ColAt(i, n, k, 0)
        /\ cells \in Seq(Int) /\ Len(cells) = m
        /\ \A j \in 1..m : cells[j] = Whole(doc, k).cells[j]
        /\ pos \in Nat /\ ColAt(i, n, k, m) < pos
        /\ m = 9 => pos = ColAt(i, n, k, 9) + 1
        /\ m < 9 => pos <= ColAt(i, n, k, m + 1)
        /\ skips \in Nat
        /\ pos <= i => skips = SkipLimit
        /\ m < 9 /\ n <= SkipLimit => ColAt(i, n, k, m + 1) - pos <= skips
  BY Zenon DEF CollectOK
<1>3. tokens \in Seq(Token)
  BY TokensRead
<1>4. /\ At(pos) = "num" /\ Len(cells) < 9
      /\ cells' = Append(cells, tokens[pos].val) /\ pos' = pos + 1
      /\ doc' = doc /\ anchor' = anchor /\ skips' = skips /\ rows' = rows
  BY DEF TakeCell, Columns
<1>5. RowsOK(n, k - 1)'
  BY <1>2, <1>4 DEF RowsOK, OnlyWhole
<1>6. K' = K
  BY <1>4
<1>. HIDE DEF K
<1>7. k \in Nat \ {0} /\ m \in 0..8 /\ m + 1 \in 1..9 /\ m + 1 \in 0..9 /\ m \in Nat /\ m < 9
  BY <1>1, <1>2, <1>4
<1>8. ColAt(i, n, k, m) \in Nat /\ ColAt(i, n, k, m + 1) \in Nat
  BY <1>7, ColumnOrder
<1>9. pos \in Nat \ {0} /\ At(pos) = tokens[pos].kind
  <2>1. pos \in Nat \ {0}
    BY <1>2, <1>8
  <2>. QED BY <1>3, <1>4, <2>1, AtFacts
<1>10. pos = ColAt(i, n, k, m + 1)
  <2>. SUFFICES ASSUME pos < ColAt(i, n, k, m + 1) PROVE FALSE
    BY <1>2, <1>7, <1>8
  <2>1. ColAt(i, n, k, m) < pos /\ pos < ColAt(i, n, k, m + 1) /\ pos \in Nat /\ k \in 1..Len(doc.rows)
    BY <1>2 DEF K
  <2>2. tokens[pos] = Word
    BY <1>7, <2>1, WordRead
  <2>. QED BY <1>4, <1>9, <2>2 DEF Word
<1>11. tokens[pos].val = Whole(doc, k).cells[m + 1]
  <2>1. tokens[pos] = Num(Whole(doc, k).cells[m + 1])
    <3>1. k \in 1..Len(doc.rows)
      BY DEF K
    <3>. DEFINE q == m + 1
    <3>2. q \in 1..9 /\ pos = ColAt(i, n, k, q)
      BY <1>7, <1>10
    <3>. HIDE DEF q
    <3>3. NumberAt(doc, tokens, k, q, ColAt(i, n, k, q))
      BY <3>1, <3>2, NumberRead
    <3>. QED BY <3>2, <3>3 DEF NumberAt, q
  <2>. QED BY <2>1 DEF Num
<1>12. tokens[pos].val \in Int
  <2>1. Whole(doc, k).cells \in Seq(Int) /\ Len(Whole(doc, k).cells) = 9
    BY WholeFacts DEF K
  <2>. QED BY <1>7, <1>11, <2>1, ElementOfSeq
<1>13. /\ cells' \in Seq(Int) /\ Len(cells') = m + 1
       /\ \A j \in 1..(m + 1) : cells'[j] = Whole(doc, k).cells[j]
  <2>1. /\ cells' \in Seq(Int) /\ Len(cells') = Len(cells) + 1
        /\ \A j \in 1..Len(cells) : cells'[j] = cells[j]
        /\ cells'[Len(cells) + 1] = tokens[pos].val
    BY <1>2, <1>4, <1>12, AppendProperties
  <2>2. \A j \in 1..(m + 1) : j \in 1..m \/ j = m + 1
    BY <1>7
  <2>. QED BY <1>2, <1>11, <2>1, <2>2
<1>14. m + 1 = 9 => pos' = ColAt(i, n, k, 9) + 1
  BY <1>4, <1>10
<1>15. pos' <= i => skips' = SkipLimit
  BY <1>2, <1>4, <1>9
<1>16. ASSUME m + 1 < 9
       PROVE  /\ pos' <= ColAt(i, n, k, (m + 1) + 1)
              /\ n <= SkipLimit => ColAt(i, n, k, (m + 1) + 1) - pos' <= skips'
  <2>1. m + 1 \in 0..8 /\ (m + 1) + 1 \in 0..9
    BY <1>7, <1>16
  <2>2. /\ ColAt(i, n, k, (m + 1) + 1) \in Nat
        /\ ColAt(i, n, k, m + 1) < ColAt(i, n, k, (m + 1) + 1)
        /\ \/ ColAt(i, n, k, (m + 1) + 1) = ColAt(i, n, k, m + 1) + 1
           \/ ColAt(i, n, k, m + 1) = i - 1 /\ ColAt(i, n, k, (m + 1) + 1) = i + n
    <3>. DEFINE q == m + 1
    <3>1. q \in 0..8 /\ q + 1 \in 0..9
      BY <2>1
    <3>. HIDE DEF q
    <3>2. /\ ColAt(i, n, k, q + 1) \in Nat
          /\ ColAt(i, n, k, q) < ColAt(i, n, k, q + 1)
      BY <1>7, <3>1, ColumnOrder
    <3>3. \/ ColAt(i, n, k, q + 1) = ColAt(i, n, k, q) + 1
          \/ ColAt(i, n, k, q) = i - 1 /\ ColAt(i, n, k, q + 1) = i + n
      BY <1>7, <3>1, NextColumn, SMTT(60)
    <3>. QED BY <3>2, <3>3 DEF q
  <2>3. pos' <= ColAt(i, n, k, (m + 1) + 1)
    BY <1>4, <1>8, <1>10, <2>2
  <2>4. ASSUME n <= SkipLimit PROVE ColAt(i, n, k, (m + 1) + 1) - pos' <= skips'
    <3>1. CASE ColAt(i, n, k, (m + 1) + 1) = ColAt(i, n, k, m + 1) + 1
      BY <1>2, <1>4, <1>8, <1>10, <3>1
    <3>2. CASE ColAt(i, n, k, m + 1) = i - 1 /\ ColAt(i, n, k, (m + 1) + 1) = i + n
      <4>1. pos <= i /\ skips = SkipLimit
        BY <1>2, <1>8, <1>10, <3>2
      <4>2. ColAt(i, n, k, (m + 1) + 1) - pos' = n
        BY <1>4, <1>10, <3>2
      <4>. QED BY <1>4, <2>4, <4>1, <4>2
    <3>. QED BY <2>2, <3>1, <3>2
  <2>. QED BY <2>3, <2>4
<1>17. pos' \in Nat /\ ColAt(i, n, k, m + 1) < pos' /\ skips' \in Nat /\ anchor' = ColAt(i, n, k, 0)
  BY <1>2, <1>4, <1>8, <1>10
<1>18. k \in 1..K' /\ m + 1 \in 0..9
  BY <1>6, <1>7
<1>. QED BY <1>4, <1>5, <1>13, <1>14, <1>15, <1>16, <1>17, <1>18 DEF CollectOK, K

\* A word met is one of the break, and if the break is short one that may be skipped.
LEMMA SkipStep ==
    ASSUME Filled(doc), NEW i \in Nat, NEW n \in Nat, ReadAs(doc, tokens, i, n), CollectOK(i, n), SkipWord
    PROVE  CollectOK(i, n)'
<1>. DEFINE K == Len(doc.rows)
<1>1. K \in Nat
  BY BaseFacts
<1>2. PICK k \in 1..K, m \in 0..9 :
        /\ RowsOK(n, k - 1)
        /\ anchor = ColAt(i, n, k, 0)
        /\ cells \in Seq(Int) /\ Len(cells) = m
        /\ \A j \in 1..m : cells[j] = Whole(doc, k).cells[j]
        /\ pos \in Nat /\ ColAt(i, n, k, m) < pos
        /\ m = 9 => pos = ColAt(i, n, k, 9) + 1
        /\ m < 9 => pos <= ColAt(i, n, k, m + 1)
        /\ skips \in Nat
        /\ pos <= i => skips = SkipLimit
        /\ m < 9 /\ n <= SkipLimit => ColAt(i, n, k, m + 1) - pos <= skips
  BY Zenon DEF CollectOK
<1>3. tokens \in Seq(Token)
  BY TokensRead
<1>4. /\ At(pos) = "word" /\ Len(cells) < 9 /\ skips > 0
      /\ skips' = skips - 1 /\ pos' = pos + 1
      /\ doc' = doc /\ anchor' = anchor /\ cells' = cells /\ rows' = rows
  BY DEF SkipWord, Columns
<1>5. RowsOK(n, k - 1)'
  BY <1>2, <1>4 DEF RowsOK, OnlyWhole
<1>6. K' = K
  BY <1>4
<1>. HIDE DEF K
<1>7. k \in Nat \ {0} /\ m \in 0..8 /\ m + 1 \in 1..9 /\ m + 1 \in 0..9 /\ m \in Nat /\ m < 9 /\ m # 9
  BY <1>1, <1>2, <1>4
<1>8. ColAt(i, n, k, m) \in Nat /\ ColAt(i, n, k, m + 1) \in Nat
  BY <1>7, ColumnOrder
<1>9. pos \in Nat \ {0} /\ At(pos) = tokens[pos].kind
  <2>1. pos \in Nat \ {0}
    BY <1>2, <1>8
  <2>. QED BY <1>3, <1>4, <2>1, AtFacts
<1>10. pos # ColAt(i, n, k, m + 1)
  <2>. DEFINE q == m + 1
  <2>1. q \in 1..9 /\ k \in 1..Len(doc.rows)
    BY <1>7 DEF K
  <2>. HIDE DEF q
  <2>2. NumberAt(doc, tokens, k, q, ColAt(i, n, k, q))
    BY <2>1, NumberRead
  <2>3. tokens[ColAt(i, n, k, m + 1)].kind = "num"
    BY <2>2 DEF NumberAt, q, Num
  <2>. QED BY <1>4, <1>9, <2>3
<1>11. pos < ColAt(i, n, k, m + 1)
  BY <1>2, <1>7, <1>8, <1>10
<1>12. i <= pos
  BY <1>2, <1>7, <1>11, WordRead DEF K
<1>13. /\ pos' \in Nat /\ ColAt(i, n, k, m) < pos' /\ pos' <= ColAt(i, n, k, m + 1)
       /\ skips' \in Nat /\ ~(pos' <= i) /\ anchor' = ColAt(i, n, k, 0)
       /\ n <= SkipLimit => ColAt(i, n, k, m + 1) - pos' <= skips'
  BY <1>2, <1>4, <1>7, <1>8, <1>11, <1>12
<1>14. /\ cells' \in Seq(Int) /\ Len(cells') = m /\ \A j \in 1..m : cells'[j] = Whole(doc, k).cells[j]
       /\ k \in 1..K'
  BY <1>2, <1>4, <1>6
<1>. QED BY <1>4, <1>5, <1>7, <1>13, <1>14 DEF CollectOK, K

\* A row ends full, or the break in it is longer than the scanner tolerates.
LEMMA EndRowStep ==
    ASSUME Filled(doc), NEW i \in Nat, NEW n \in Nat, ReadAs(doc, tokens, i, n), CollectOK(i, n), EndRow
    PROVE  ScanOK(i, n)'
<1>. DEFINE K == Len(doc.rows)
            Row == [date : Int, cells : Seq(Int)]
            row == [date |-> tokens[anchor].val, cells |-> cells]
<1>1. K \in Nat
  BY BaseFacts
<1>2. PICK k \in 1..K, m \in 0..9 :
        /\ RowsOK(n, k - 1)
        /\ anchor = ColAt(i, n, k, 0)
        /\ cells \in Seq(Int) /\ Len(cells) = m
        /\ \A j \in 1..m : cells[j] = Whole(doc, k).cells[j]
        /\ pos \in Nat /\ ColAt(i, n, k, m) < pos
        /\ m = 9 => pos = ColAt(i, n, k, 9) + 1
        /\ m < 9 => pos <= ColAt(i, n, k, m + 1)
        /\ skips \in Nat
        /\ pos <= i => skips = SkipLimit
        /\ m < 9 /\ n <= SkipLimit => ColAt(i, n, k, m + 1) - pos <= skips
  BY Zenon DEF CollectOK
<1>3. tokens \in Seq(Token)
  BY TokensRead
<1>4. /\ Len(cells) = 9 \/ At(pos) \in {"date", "end"} \/ (At(pos) = "word" /\ skips = 0)
      /\ \/ Len(cells) >= 3 /\ rows' = Append(rows, row) /\ pos' = pos
         \/ ~(Len(cells) >= 3) /\ pos' = anchor + 1 /\ rows' = rows
      /\ doc' = doc
  BY DEF EndRow, RowEnds, Columns
<1>5. K' = K
  BY <1>4
<1>6. tokens[anchor] = Date(Whole(doc, k).date) /\ Whole(doc, k) \in Row /\ Len(Whole(doc, k).cells) = 9
  <2>1. tokens[anchor] = Date(Whole(doc, k).date)
    <3>1. k \in 1..Len(doc.rows) /\ anchor = ColAt(i, n, k, 0)
      BY <1>2
    <3>2. DateAt(doc, tokens, k, ColAt(i, n, k, 0))
      BY <3>1, DateRead
    <3>. QED BY <3>1, <3>2, Zenon DEF DateAt
  <2>2. Whole(doc, k) \in [date : Int, cells : Seq(Int)] /\ Len(Whole(doc, k).cells) = 9
    BY WholeFacts
  <2>. QED BY <2>1, <2>2
<1>7. tokens[anchor].val = Whole(doc, k).date
  BY <1>6 DEF Date
<1>8. row \in Row
  <2>1. tokens[anchor].val \in Int
    BY <1>6, <1>7
  <2>. QED BY <1>2, <2>1
<1>9. /\ rows \in Seq(Row)
      /\ \A x \in 1..Len(rows) : Len(rows[x].cells) = 9 => \E q \in 1..K : rows[x] = Whole(doc, q)
      /\ n <= SkipLimit => \A q \in 1..(k - 1) : \E x \in 1..Len(rows) : rows[x] = Whole(doc, q)
  BY <1>2 DEF RowsOK, OnlyWhole
<1>10. row.cells = cells
  OBVIOUS
<1>. HIDE DEF row, Row
<1>11. /\ Append(rows, row) \in Seq(Row) /\ Len(Append(rows, row)) = Len(rows) + 1
       /\ \A x \in 1..Len(rows) : Append(rows, row)[x] = rows[x]
       /\ Append(rows, row)[Len(rows) + 1] = row
       /\ Len(rows) \in Nat
  BY <1>8, <1>9, AppendProperties, LenProperties
<1>12. /\ \A x \in 1..(Len(rows) + 1) : x \in 1..Len(rows) \/ x = Len(rows) + 1
       /\ \A x \in 1..Len(rows) : x \in 1..(Len(rows) + 1)
       /\ Len(rows) + 1 \in 1..(Len(rows) + 1)
  BY <1>11
<1>13. k \in Nat \ {0} /\ k - 1 \in Nat /\ \A q \in 1..k : q \in 1..(k - 1) \/ q = k
  BY <1>1
<1>14. /\ ColAt(i, n, k, 0) \in Nat /\ ColAt(i, n, k, m) \in Nat /\ ColAt(i, n, k, 0) <= ColAt(i, n, k, m)
  <2>1. ColAt(i, n, k, 0) \in Nat /\ ColAt(i, n, k, m) \in Nat
    <3>1. \A q \in 0..9 : ColAt(i, n, k, q) \in Nat
      BY <1>13, ColumnOrder
    <3>2. 0 \in 0..9 /\ m \in 0..9
      OBVIOUS
    <3>. QED BY <3>1, <3>2, Zenon
  <2>2. \A q \in 0..9 : ColAt(i, n, k, 0) <= ColAt(i, n, k, q)
    BY <1>13, ColumnOrder
  <2>. QED BY <2>1, <2>2
<1>15. CASE m = 9
  <2>1. row = Whole(doc, k)
    <3>1. cells = Whole(doc, k).cells
      <4>. DEFINE c == Whole(doc, k).cells
      <4>1. c \in Seq(Int) /\ Len(c) = Len(cells) /\ Len(cells) = 9
        BY <1>2, <1>6, <1>15 DEF Row
      <4>2. \A j \in 1..9 : cells[j] = c[j]
        BY <1>2, <1>15
      <4>. HIDE DEF c
      <4>3. cells = c
        BY <1>2, <4>1, <4>2, SeqEqual
      <4>. QED BY <4>3 DEF c
    <3>. QED BY <1>6, <1>7, <3>1 DEF row, Row
  <2>2. rows' = Append(rows, row) /\ pos' = pos
    BY <1>2, <1>4, <1>15
  <2>3. ASSUME NEW x \in 1..Len(rows'), Len(rows'[x].cells) = 9
        PROVE  \E q \in 1..K : rows'[x] = Whole(doc, q)
    BY <1>9, <1>11, <1>12, <2>1, <2>2, <2>3
  <2>4. ASSUME n <= SkipLimit, NEW q \in 1..k
        PROVE  \E x \in 1..Len(rows') : rows'[x] = Whole(doc, q)
    <3>1. CASE q \in 1..(k - 1)
      <4>1. PICK x \in 1..Len(rows) : rows[x] = Whole(doc, q)
        BY <1>9, <2>4, <3>1
      <4>. QED BY <1>11, <1>12, <2>2, <4>1
    <3>2. CASE q = k
      BY <1>11, <1>12, <2>1, <2>2, <3>2
    <3>. QED BY <1>13, <3>1, <3>2
  <2>5. RowsOK(n, k)'
    <3>1. rows' \in Seq(Row)
      BY <1>11, <2>2
    <3>. QED BY <1>4, <1>5, <2>3, <2>4, <3>1 DEF RowsOK, OnlyWhole, Row
  <2>6. pos' = ColAt(i, n, k, 9) + 1 /\ ColAt(i, n, k, 9) \in Nat
    BY <1>2, <1>14, <1>15, <2>2
  <2>7. k < K => ColAt(i, n, k, 9) < ColAt(i, n, k + 1, 0) /\ ColAt(i, n, k + 1, 0) \in Nat
    <3>1. k + 1 \in Nat \ {0} /\ k < k + 1 /\ 9 \in 0..9 /\ 0 \in 0..9
      BY <1>13
    <3>. QED BY <1>13, <3>1, ColumnOrder
  <2>8. /\ pos' \in Nat \ {0} /\ ColAt(i, n, k, 0) < pos'
        /\ k < K => pos' <= ColAt(i, n, k + 1, 0)
    BY <1>14, <1>15, <2>6, <2>7
  <2>. QED BY <1>4, <1>5, <1>13, <2>5, <2>8 DEF ScanOK
<1>16. CASE m # 9
  <2>1. m \in 0..8 /\ m < 9 /\ m + 1 \in 1..9 /\ m + 1 \in 0..9
    BY <1>16
  <2>. DEFINE q == m + 1
  <2>2. q \in 1..9 /\ q \in 0..9 /\ pos <= ColAt(i, n, k, q)
    BY <1>2, <2>1
  <2>. HIDE DEF q
  <2>3. StandsAt(doc, tokens, k, q, ColAt(i, n, k, q))
    BY <2>2, CellRead
  <2>4. NumberAt(doc, tokens, k, q, ColAt(i, n, k, q))
    BY <2>2, NumberRead
  <2>5. ColAt(i, n, k, q) \in 1..Len(tokens) /\ Len(tokens) \in Nat
    BY <1>3, <2>3, LenProperties DEF StandsAt
  <2>6. pos \in Nat \ {0} /\ pos \in 1..Len(tokens)
    BY <1>2, <1>14, <2>2, <2>5
  <2>7. At(pos) = tokens[pos].kind /\ At(pos) # "end"
    BY <1>3, <2>6, AtFacts
  <2>8. pos # ColAt(i, n, k, q)
    <3>. SUFFICES ASSUME pos = ColAt(i, n, k, q) PROVE FALSE
      OBVIOUS
    <3>1. tokens[pos].kind = "num"
      BY <2>4 DEF NumberAt, Num
    <3>2. At(pos) = "num"
      BY <2>7, <3>1
    <3>. QED BY <1>2, <1>4, <1>16, <3>2
  <2>9. pos < ColAt(i, n, k, q)
    BY <2>2, <2>5, <2>6, <2>8
  <2>10. tokens[pos] = Word
    <3>1. pos < ColAt(i, n, k, m + 1)
      BY <2>9 DEF q
    <3>. QED BY <1>2, <2>1, <3>1, WordRead, SMTT(60)
  <2>11. skips = 0
    BY <1>2, <1>4, <1>16, <2>7, <2>10 DEF Word
  <2>12. ~(n <= SkipLimit)
    <3>1. n <= SkipLimit => ColAt(i, n, k, q) - pos <= skips
      BY <1>2, <2>1 DEF q
    <3>. QED BY <2>5, <2>6, <2>9, <2>11, <3>1
  <2>13. ASSUME NEW x \in 1..Len(rows'), Len(rows'[x].cells) = 9
         PROVE  \E p \in 1..K : rows'[x] = Whole(doc, p)
    <3>1. CASE rows' = rows
      BY <1>9, <2>13, <3>1
    <3>2. CASE rows' = Append(rows, row)
      <4>1. x # Len(rows) + 1
        BY <1>2, <1>10, <1>11, <1>16, <2>13, <3>2
      <4>. QED BY <1>9, <1>11, <1>12, <2>13, <3>2, <4>1
    <3>. QED BY <1>4, <3>1, <3>2
  <2>14. rows' \in Seq(Row)
    BY <1>4, <1>9, <1>11
  <2>15. RowsOK(n, k)'
    BY <1>4, <1>5, <2>12, <2>13, <2>14 DEF RowsOK, OnlyWhole, Row
  <2>16. pos' \in Nat \ {0} /\ ColAt(i, n, k, 0) < pos'
    BY <1>2, <1>4, <1>14, <2>6
  <2>17. ASSUME k < K PROVE pos' <= ColAt(i, n, k + 1, 0)
    <3>1. k + 1 \in Nat \ {0} /\ k < k + 1 /\ 0 \in 0..9
      BY <1>13
    <3>2. ColAt(i, n, k, q) < ColAt(i, n, k + 1, 0) /\ ColAt(i, n, k, 0) < ColAt(i, n, k + 1, 0)
          /\ ColAt(i, n, k + 1, 0) \in Nat
      <4>. DEFINE z == k + 1
      <4>1. z \in Nat \ {0} /\ k < z
        BY <3>1
      <4>. HIDE DEF z
      <4>2. ColAt(i, n, k, q) < ColAt(i, n, z, 0) /\ ColAt(i, n, k, 0) < ColAt(i, n, z, 0)
        BY <1>13, <2>2, <3>1, <4>1, ColumnOrder
      <4>3. ColAt(i, n, z, 0) \in Nat
        BY <3>1, <4>1, ColumnOrder
      <4>. QED BY <4>2, <4>3 DEF z
    <3>3. CASE pos' = pos
      BY <2>5, <2>6, <2>9, <3>2, <3>3
    <3>4. CASE pos' = anchor + 1
      BY <1>2, <1>14, <3>2, <3>4
    <3>. QED BY <1>4, <3>3, <3>4
  <2>. QED BY <1>4, <1>5, <1>13, <2>15, <2>16, <2>17 DEF ScanOK
<1>. QED BY <1>15, <1>16

\* A row found whole is accepted if it moved the position, and is then its trade.
LEMMA WholeIsReal ==
    ASSUME NEW k \in 1..Len(doc.rows), Filled(doc)
    PROVE  /\ Accepted(Whole(doc, k)) <=> Net(doc.rows[k]) # 0
           /\ TradeOf(Whole(doc, k)) = RealTrade(doc.rows[k])
<1>. DEFINE r == doc.rows[k]
            c == Whole(doc, k).cells
<1>1. r \in FormRow /\ c \in Seq(Int) /\ Len(c) = 9
  BY WholeFacts
<1>2. Whole(doc, k).date = r.date /\ r.date <= doc.published
  BY DEF Whole, Filled
<1>3. \A j \in 1..9 : RowLines(r)[j + 1] = Num(c[j])
  BY WholeFacts
<1>. HIDE DEF r, c
<1>4. /\ RowLines(r)[2] = Num(r.buy) /\ RowLines(r)[3] = Num(r.sell)
      /\ RowLines(r)[4] = Num(Abs(Net(r))) /\ RowLines(r)[5] = Num(r.start)
      /\ RowLines(r)[6] = Num(r.start + Net(r))
      /\ \A j \in 1..4 : RowLines(r)[6 + j] = Num(r.pcts[j])
  BY <1>1, RowCells
<1>5. \A x : Num(x).val = x
  BY DEF Num
<1>6. /\ c[1] = r.buy /\ c[2] = r.sell /\ c[3] = Abs(Net(r))
      /\ c[4] = r.start /\ c[5] = r.start + Net(r)
  <2>1. /\ RowLines(r)[2] = Num(c[1]) /\ RowLines(r)[3] = Num(c[2])
        /\ RowLines(r)[4] = Num(c[3]) /\ RowLines(r)[5] = Num(c[4])
        /\ RowLines(r)[6] = Num(c[5])
    <3>1. \A j \in 1..5 : j \in 1..9 /\ j + 1 \in {2, 3, 4, 5, 6}
      OBVIOUS
    <3>. QED BY <1>3, <3>1
  <2>2. /\ RowLines(r)[2].val = r.buy /\ RowLines(r)[3].val = r.sell
        /\ RowLines(r)[4].val = Abs(Net(r)) /\ RowLines(r)[5].val = r.start
        /\ RowLines(r)[6].val = r.start + Net(r)
    BY <1>4, <1>5, Zenon
  <2>3. /\ RowLines(r)[2].val = c[1] /\ RowLines(r)[3].val = c[2]
        /\ RowLines(r)[4].val = c[3] /\ RowLines(r)[5].val = c[4]
        /\ RowLines(r)[6].val = c[5]
    BY <1>5, <2>1, Zenon
  <2>. QED BY <2>2, <2>3, Zenon
<1>7. c[6] = r.pcts[1] /\ c[7] = r.pcts[2] /\ c[8] = r.pcts[3] /\ c[9] = r.pcts[4]
  <2>1. /\ RowLines(r)[7] = Num(c[6]) /\ RowLines(r)[8] = Num(c[7])
        /\ RowLines(r)[9] = Num(c[8]) /\ RowLines(r)[10] = Num(c[9])
    BY <1>3
  <2>2. /\ RowLines(r)[7] = Num(r.pcts[1]) /\ RowLines(r)[8] = Num(r.pcts[2])
        /\ RowLines(r)[9] = Num(r.pcts[3]) /\ RowLines(r)[10] = Num(r.pcts[4])
    BY <1>4
  <2>3. /\ RowLines(r)[7].val = c[6] /\ RowLines(r)[8].val = c[7]
        /\ RowLines(r)[9].val = c[8] /\ RowLines(r)[10].val = c[9]
    BY <1>5, <2>1, Zenon
  <2>4. /\ RowLines(r)[7].val = r.pcts[1] /\ RowLines(r)[8].val = r.pcts[2]
        /\ RowLines(r)[9].val = r.pcts[3] /\ RowLines(r)[10].val = r.pcts[4]
    BY <1>5, <2>2, Zenon
  <2>. QED BY <2>3, <2>4, Zenon
<1>8. /\ r.buy \in Nat /\ r.sell \in Nat /\ r.start \in Int
      /\ \A j \in 1..4 : r.pcts[j] \in 0..100
  BY <1>1 DEF FormRow
<1>9. \A j \in 6..9 : 0 <= c[j] /\ c[j] <= 100
  <2>1. \A j \in 6..9 : j = 6 \/ j = 7 \/ j = 8 \/ j = 9
    OBVIOUS
  <2>2. \A j \in 1..4 : 0 <= r.pcts[j] /\ r.pcts[j] <= 100
    <3>1. \A y \in 0..100 : 0 <= y /\ y <= 100
      OBVIOUS
    <3>. QED BY <1>8, <3>1, Zenon
  <2>3. /\ 0 <= c[6] /\ c[6] <= 100 /\ 0 <= c[7] /\ c[7] <= 100
        /\ 0 <= c[8] /\ c[8] <= 100 /\ 0 <= c[9] /\ c[9] <= 100
    BY <1>7, <2>2
  <2>. QED BY <2>1, <2>3
<1>10. Proved(c) <=> c[1] # c[2]
  <2>1. c[1] >= 0 /\ c[2] >= 0
    BY <1>6, <1>8
  <2>2. Abs(Abs(c[1] - c[2]) - Abs(c[3])) <= Tol
    BY <1>6, <1>8, LimitAssumption DEF Abs, Net
  <2>3. Abs(c[4] + c[1] - c[2] - c[5]) <= Tol
    BY <1>6, <1>8, LimitAssumption DEF Abs, Net
  <2>. QED BY <1>1, <1>9, <2>1, <2>2, <2>3 DEF Proved, Columns
<1>11. c[1] - c[2] = Net(r) /\ (c[1] # c[2] <=> Net(r) # 0)
  BY <1>6, <1>8 DEF Net
<1>12. Accepted(Whole(doc, k)) <=> Net(r) # 0
  BY <1>2, <1>10, <1>11 DEF Accepted, c
<1>13. TradeOf(Whole(doc, k)) = RealTrade(r)
  BY <1>2, <1>6, <1>7, <1>11 DEF TradeOf, RealTrade, c
<1>. QED BY <1>12, <1>13 DEF r

\* The trades of whole rows are real.
LEMMA WholeMaps ==
    ASSUME IsTable(doc), Filled(doc), OnlyWhole, Map
    PROVE  txs' \subseteq RealTrades'
<1>. DEFINE K == Len(doc.rows)
<1>1. DOMAIN doc.rows = 1..K
  BY LenProperties DEF Filled
<1>2. /\ doc' = doc
      /\ txs' = {TradeOf(r) : r \in {r \in Range(rows) : Accepted(r)}}
  BY DEF Map
<1>3. /\ rows \in Seq([date : Int, cells : Seq(Int)])
      /\ \A x \in 1..Len(rows) : Len(rows[x].cells) = 9 => \E q \in 1..K : rows[x] = Whole(doc, q)
  BY DEF OnlyWhole
<1>4. Range(rows) = {rows[x] : x \in 1..Len(rows)} /\ Range(doc.rows) = {doc.rows[q] : q \in 1..K}
  BY <1>1, <1>3, LenProperties DEF Range
<1>5. RealTrades = {RealTrade(r) : r \in {r \in Range(doc.rows) : Net(r) # 0}}
  BY DEF RealTrades, RealRows
<1>. HIDE DEF K
<1>6. ASSUME NEW q \in 1..K
      PROVE  /\ Accepted(Whole(doc, q)) <=> Net(doc.rows[q]) # 0
             /\ TradeOf(Whole(doc, q)) = RealTrade(doc.rows[q])
  BY WholeIsReal DEF K
<1>7. ASSUME NEW t \in txs' PROVE t \in RealTrades
  <2>1. PICK x \in 1..Len(rows) : Accepted(rows[x]) /\ t = TradeOf(rows[x])
    BY <1>2, <1>4
  <2>2. Len(rows[x].cells) = 9
    BY <2>1 DEF Accepted, Proved, Columns
  <2>3. PICK q \in 1..K : rows[x] = Whole(doc, q)
    BY <1>3, <2>2
  <2>4. Net(doc.rows[q]) # 0 /\ t = RealTrade(doc.rows[q])
    BY <1>6, <2>1, <2>3
  <2>. QED BY <1>4, <1>5, <2>4
<1>8. RealTrades' = RealTrades
  BY <1>2 DEF RealTrades, RealRows, IsTable
<1>. QED BY <1>7, <1>8

\* Of a text scanned to its end the trades are real, and all of them unless the
\* break is long.
LEMMA MapStep ==
    ASSUME IsTable(doc), Filled(doc), NEW i \in Nat, NEW n \in Nat, ReadAs(doc, tokens, i, n),
           ScanOK(i, n), Map
    PROVE  DoneOK(n)'
<1>. DEFINE K == Len(doc.rows)
<1>1. K \in Nat /\ DOMAIN doc.rows = 1..K
  BY BaseFacts, LenProperties DEF Filled
<1>2. PICK k \in 0..K : /\ RowsOK(n, k)
                        /\ pos \in Nat \ {0}
                        /\ k < K => pos <= ColAt(i, n, k + 1, 0)
  BY DEF ScanOK
<1>3. tokens \in Seq(Token) /\ Len(tokens) \in Nat
  BY TokensRead
<1>4. /\ At(pos) = "end" /\ doc' = doc
      /\ txs' = {TradeOf(r) : r \in {r \in Range(rows) : Accepted(r)}}
  BY DEF Map
<1>5. /\ rows \in Seq([date : Int, cells : Seq(Int)])
      /\ \A x \in 1..Len(rows) : Len(rows[x].cells) = 9 => \E q \in 1..K : rows[x] = Whole(doc, q)
      /\ n <= SkipLimit => \A q \in 1..k : \E x \in 1..Len(rows) : rows[x] = Whole(doc, q)
  BY <1>2 DEF RowsOK, OnlyWhole
<1>6. Range(rows) = {rows[x] : x \in 1..Len(rows)} /\ Range(doc.rows) = {doc.rows[q] : q \in 1..K}
  BY <1>1, <1>5, LenProperties DEF Range
<1>7. RealTrades = {RealTrade(r) : r \in {r \in Range(doc.rows) : Net(r) # 0}}
  BY DEF RealTrades, RealRows
<1>. HIDE DEF K
<1>8. ASSUME NEW q \in 1..K
      PROVE  /\ Accepted(Whole(doc, q)) <=> Net(doc.rows[q]) # 0
             /\ TradeOf(Whole(doc, q)) = RealTrade(doc.rows[q])
  BY WholeIsReal DEF K
<1>9. k = K
  <2>. SUFFICES ASSUME k < K PROVE FALSE
    BY <1>1
  <2>1. k + 1 \in 1..K /\ 0 \in 0..9
    BY <1>1
  <2>2. StandsAt(doc, tokens, k + 1, 0, ColAt(i, n, k + 1, 0))
    BY <2>1, CellRead DEF K
  <2>3. ColAt(i, n, k + 1, 0) <= Len(tokens) /\ ColAt(i, n, k + 1, 0) \in Int
    BY <1>3, <2>2 DEF StandsAt
  <2>4. pos > Len(tokens)
    BY <1>2, <1>3, <1>4, AtFacts
  <2>. QED BY <1>2, <1>3, <2>3, <2>4
<1>10. txs' \subseteq RealTrades'
  BY <1>2, WholeMaps DEF RowsOK
<1>11. ASSUME n <= SkipLimit, NEW t \in RealTrades PROVE t \in txs'
  <2>1. PICK q \in 1..K : Net(doc.rows[q]) # 0 /\ t = RealTrade(doc.rows[q])
    BY <1>6, <1>7
  <2>2. PICK x \in 1..Len(rows) : rows[x] = Whole(doc, q)
    BY <1>5, <1>9, <1>11
  <2>3. Accepted(rows[x]) /\ t = TradeOf(rows[x])
    BY <1>8, <2>1, <2>2
  <2>. QED BY <1>4, <1>6, <2>3
<1>12. RealTrades' = RealTrades
  BY <1>4 DEF RealTrades, RealRows, IsTable
<1>. QED BY <1>10, <1>11, <1>12 DEF DoneOK

\* A document that is read begins with the date of its first row ahead.
LEMMA ScanBegins ==
    ASSUME Filled(doc), NEW i \in Nat, NEW n \in Nat, pos = 1, rows = <<>>
    PROVE  ScanOK(i, n)
<1>. DEFINE K == Len(doc.rows)
<1>1. K \in Nat
  BY BaseFacts
<1>2. RowsOK(n, 0)
  <2>1. rows \in Seq([date : Int, cells : Seq(Int)]) /\ Len(rows) = 0
    OBVIOUS
  <2>. QED BY <2>1 DEF RowsOK, OnlyWhole
<1>. HIDE DEF K
<1>3. ColAt(i, n, 0 + 1, 0) \in Nat /\ 1 <= ColAt(i, n, 0 + 1, 0)
  <2>1. 0 + 1 \in Nat \ {0} /\ 0 \in 0..9
    OBVIOUS
  <2>2. \A m \in 0..9 : ColAt(i, n, 0 + 1, m) \in Nat /\ 1 <= ColAt(i, n, 0 + 1, m)
    BY <2>1, ColumnOrder
  <2>. QED BY <2>1, <2>2
<1>4. 0 \in 0..K /\ ~(0 > 0) /\ pos \in Nat \ {0} /\ pos <= ColAt(i, n, 0 + 1, 0)
  BY <1>1, <1>3
<1>. QED BY <1>2, <1>4 DEF ScanOK, K

\* The tables among the documents are filled in as the form has it.
FilledForms == \A d \in Doc : IsTable(d) => Filled(d)

\* The text extracted is a reading of the document, to be scanned from its beginning.
LEMMA ExtractStep ==
    ASSUME FilledForms, DkbInv, Extract
    PROVE  DkbInv'
<1>1. /\ pc = "new" /\ IsTable(doc) /\ pc' = "scan"
      /\ doc' = doc /\ pos' = pos /\ rows' = rows
      /\ intact' => tokens' \in Readings[doc].intact
  BY DEF Extract, scan
<1>2. doc \in Doc /\ Filled(doc) /\ pos = 1 /\ rows = <<>>
  BY <1>1 DEF DkbInv, FilledForms
<1>3. ASSUME intact' PROVE \E i, n \in Nat : ReadAs(doc, tokens', i, n) /\ n <= SkipLimit
  <2>1. Readings[doc].intact = {Tokens(l) : l \in Intact(Lines(doc))}
    BY <1>1, <1>2 DEF Readings
  <2>2. PICK l \in Intact(Lines(doc)) : tokens' = Tokens(l)
    BY <1>1, <1>3, <2>1
  <2>. QED BY <1>2, <2>2, IntactReads
<1>4. ASSUME NEW i \in Nat, NEW n \in Nat PROVE ScanOK(i, n)'
  <2>1. ScanOK(i, n)
    BY <1>2, ScanBegins
  <2>. QED BY <1>1, <2>1 DEF ScanOK, RowsOK, OnlyWhole
<1>. QED BY <1>1, <1>2, <1>3, <1>4 DEF DkbInv, Reads

\* The steps that follow keep the document and its text, and the invariant if they
\* keep what it says of each reading.
LEMMA ReadingKept ==
    ASSUME FilledForms, DkbInv, doc' = doc, tokens' = tokens, intact' = intact,
           pc # "new", pc' \in {"scan", "collect", "done"},
           ASSUME NEW i \in Nat, NEW n \in Nat, IsTable(doc), Filled(doc), ReadAs(doc, tokens, i, n), Reads(i, n)
           PROVE  Reads(i, n)'
    PROVE  DkbInv'
<1>1. doc \in Doc /\ (IsTable(doc) => Filled(doc))
  BY DEF DkbInv, FilledForms
<1>2. ASSUME IsTable(doc)
      PROVE  /\ intact => \E i, n \in Nat : ReadAs(doc, tokens, i, n) /\ n <= SkipLimit
             /\ \A i, n \in Nat : ReadAs(doc, tokens, i, n) => Reads(i, n)
  BY <1>2 DEF DkbInv
<1>3. ASSUME IsTable(doc), NEW i \in Nat, NEW n \in Nat, ReadAs(doc, tokens, i, n) PROVE Reads(i, n)'
  <2>1. Reads(i, n)
    BY <1>2, <1>3
  <2>. QED BY <1>1, <1>3, <2>1
<1>. QED BY <1>1, <1>2, <1>3 DEF DkbInv

\* Every step keeps the invariant.
LEMMA DkbInvStep ==
    ASSUME FilledForms, DkbInv, [Next]_vars
    PROVE  DkbInv'
<1>1. CASE Extract
  BY <1>1, ExtractStep
<1>2. CASE Anchor
  <2>1. pc = "scan" /\ pc' = "collect" /\ doc' = doc /\ tokens' = tokens /\ intact' = intact
    BY <1>2 DEF Anchor
  <2>2. ASSUME NEW i \in Nat, NEW n \in Nat, Filled(doc), ReadAs(doc, tokens, i, n), Reads(i, n)
        PROVE  Reads(i, n)'
    <3>1. CollectOK(i, n)'
      BY <1>2, <2>1, <2>2, AnchorStep DEF Reads
    <3>. QED BY <2>1, <3>1 DEF Reads
  <2>. QED BY <2>1, <2>2, ReadingKept
<1>3. CASE Pass
  <2>1. pc = "scan" /\ pc' = "scan" /\ doc' = doc /\ tokens' = tokens /\ intact' = intact
    BY <1>3 DEF Pass
  <2>2. ASSUME NEW i \in Nat, NEW n \in Nat, Filled(doc), ReadAs(doc, tokens, i, n), Reads(i, n)
        PROVE  Reads(i, n)'
    <3>1. ScanOK(i, n)'
      BY <1>3, <2>1, <2>2, PassStep DEF Reads
    <3>. QED BY <2>1, <3>1 DEF Reads
  <2>. QED BY <2>1, <2>2, ReadingKept
<1>4. CASE TakeCell
  <2>1. pc = "collect" /\ pc' = "collect" /\ doc' = doc /\ tokens' = tokens /\ intact' = intact
    BY <1>4 DEF TakeCell
  <2>2. ASSUME NEW i \in Nat, NEW n \in Nat, Filled(doc), ReadAs(doc, tokens, i, n), Reads(i, n)
        PROVE  Reads(i, n)'
    <3>1. CollectOK(i, n)'
      BY <1>4, <2>1, <2>2, TakeStep DEF Reads
    <3>. QED BY <2>1, <3>1 DEF Reads
  <2>. QED BY <2>1, <2>2, ReadingKept
<1>5. CASE SkipWord
  <2>1. pc = "collect" /\ pc' = "collect" /\ doc' = doc /\ tokens' = tokens /\ intact' = intact
    BY <1>5 DEF SkipWord
  <2>2. ASSUME NEW i \in Nat, NEW n \in Nat, Filled(doc), ReadAs(doc, tokens, i, n), Reads(i, n)
        PROVE  Reads(i, n)'
    <3>1. CollectOK(i, n)'
      BY <1>5, <2>1, <2>2, SkipStep DEF Reads
    <3>. QED BY <2>1, <3>1 DEF Reads
  <2>. QED BY <2>1, <2>2, ReadingKept
<1>6. CASE EndRow
  <2>1. pc = "collect" /\ pc' = "scan" /\ doc' = doc /\ tokens' = tokens /\ intact' = intact
    BY <1>6 DEF EndRow
  <2>2. ASSUME NEW i \in Nat, NEW n \in Nat, Filled(doc), ReadAs(doc, tokens, i, n), Reads(i, n)
        PROVE  Reads(i, n)'
    <3>1. ScanOK(i, n)'
      BY <1>6, <2>1, <2>2, EndRowStep DEF Reads
    <3>. QED BY <2>1, <3>1 DEF Reads
  <2>. QED BY <2>1, <2>2, ReadingKept
<1>7. CASE Map
  <2>1. pc = "scan" /\ pc' = "done" /\ doc' = doc /\ tokens' = tokens /\ intact' = intact
    BY <1>7 DEF Map
  <2>2. ASSUME NEW i \in Nat, NEW n \in Nat, IsTable(doc), Filled(doc), ReadAs(doc, tokens, i, n), Reads(i, n)
        PROVE  Reads(i, n)'
    <3>1. DoneOK(n)'
      BY <1>7, <2>1, <2>2, MapStep DEF Reads
    <3>. QED BY <2>1, <3>1 DEF Reads
  <2>. QED BY <2>1, <2>2, ReadingKept
<1>8. CASE ReadTotals
  BY <1>8 DEF ReadTotals, DkbInv
<1>9. CASE UNCHANGED vars
  <2>1. /\ doc' = doc /\ intact' = intact /\ tokens' = tokens /\ pos' = pos /\ anchor' = anchor
        /\ cells' = cells /\ skips' = skips /\ rows' = rows /\ txs' = txs /\ pc' = pc
    BY <1>9 DEF vars, scan
  <2>2. CASE pc = "new"
    BY <2>1, <2>2 DEF DkbInv
  <2>3. CASE pc # "new"
    <3>1. ASSUME NEW i \in Nat, NEW n \in Nat, Reads(i, n) PROVE Reads(i, n)'
      <4>1. ScanOK(i, n) => ScanOK(i, n)'
        BY <2>1 DEF ScanOK, RowsOK, OnlyWhole
      <4>2. CollectOK(i, n) => CollectOK(i, n)'
        BY <2>1, ZenonT(60) DEF CollectOK, RowsOK, OnlyWhole
      <4>3. DoneOK(n) => DoneOK(n)'
        BY <2>1 DEF DoneOK, RealTrades, RealRows, IsTable
      <4>. QED BY <2>1, <3>1, <4>1, <4>2, <4>3 DEF Reads
    <3>2. pc' \in {"scan", "collect", "done"}
      BY <2>1, <2>3 DEF DkbInv
    <3>. QED BY <2>1, <2>3, <3>1, <3>2, ReadingKept
  <2>. QED BY <2>2, <2>3
<1>. QED BY <1>1, <1>2, <1>3, <1>4, <1>5, <1>6, <1>7, <1>8, <1>9 DEF Next

\* So the invariant holds throughout.
LEMMA DkbInvHolds ==
    ASSUME FilledForms
    PROVE  Spec => []DkbInv
<1>1. Init => DkbInv
  BY DEF Init, DkbInv
<1>2. DkbInv /\ [Next]_vars => DkbInv'
  BY DkbInvStep
<1>. QED BY <1>1, <1>2, PTL DEF Spec

\* IntactIsRead: of a filing on the form of a table, whose cells all arrive, whatever
\* numbers share a line and wherever a page break of a few words stands, exactly the
\* trades it reports are returned.
THEOREM IntactRead ==
    ASSUME FilledForms
    PROVE  Spec => []IntactIsRead
<1>1. DkbInv => IntactIsRead
  <2>. SUFFICES ASSUME DkbInv, pc = "done", intact, IsTable(doc) PROVE txs = RealTrades
    BY DEF IntactIsRead
  <2>1. PICK i \in Nat, n \in Nat : ReadAs(doc, tokens, i, n) /\ n <= SkipLimit
    BY DEF DkbInv
  <2>2. DoneOK(n)
    BY <2>1 DEF DkbInv, Reads
  <2>. QED BY <2>1, <2>2 DEF DoneOK
<1>2. Spec => []DkbInv
  BY DkbInvHolds
<1>. QED BY <1>1, <1>2, PTL

\* The text of a table with a page break of any length in it: its rows may be lost,
\* but no trade is invented.
BreaksInventNothing ==
    pc = "done" /\ IsTable(doc) /\ (\E i, n \in Nat : ReadAs(doc, tokens, i, n)) =>
        txs \subseteq RealTrades

\* However many words a page break puts between the cells of a table, and even if
\* more than the scanner tolerates, every trade returned is one the filing reports.
THEOREM BreaksOnlyLose ==
    ASSUME FilledForms
    PROVE  Spec => []BreaksInventNothing
<1>1. DkbInv => BreaksInventNothing
  <2>. SUFFICES ASSUME DkbInv, pc = "done", IsTable(doc),
                       NEW i \in Nat, NEW n \in Nat, ReadAs(doc, tokens, i, n)
                PROVE  txs \subseteq RealTrades
    BY DEF BreaksInventNothing
  <2>1. DoneOK(n)
    BY DEF DkbInv, Reads
  <2>. QED BY <2>1 DEF DoneOK
<1>2. Spec => []DkbInv
  BY DkbInvHolds
<1>. QED BY <1>1, <1>2, PTL

-----------------------------------------------------------------------------
(* Cells that do not arrive *)

\* The text t is what is left of b: a cell of t that is no word stands for one of
\* b, at g, and these follow one another as in b.
Embeds(t, b, g) ==
    /\ \A p \in 1..Len(t) : t[p].kind # "word" => g[p] \in 1..Len(b) /\ t[p] = b[g[p]]
    /\ \A p, q \in 1..Len(t) : p < q /\ t[p].kind # "word" /\ t[q].kind # "word" => g[p] < g[q]

Thinned(t, b) == t \in Seq(Token) /\ \E g \in [1..Len(t) -> Int] : Embeds(t, b, g)

\* A text with words in the place of its cells from i on and before j is left of it.
LEMMA GapThins ==
    ASSUME NEW b \in Seq(Token), NEW t \in Seq(Token), NEW n \in Nat,
           NEW i \in 1..Len(b) + 1, NEW j \in i..Len(b) + 1,
           Len(t) = (i - 1) + n + (Len(b) - j + 1),
           \A p \in 1..Len(t) : t[p] = IF p < i THEN b[p] ELSE IF p < i + n THEN Word ELSE b[p - i - n + j]
    PROVE  Thinned(t, b)
<1>. DEFINE L == Len(b)
            N == Len(t)
            g == [p \in 1..N |-> IF p < i THEN p ELSE p - i - n + j]
<1>1. L \in Nat /\ N \in Nat
  BY LenProperties
<1>2. /\ N = (i - 1) + n + (L - j + 1) /\ i \in Nat /\ j \in Nat /\ 1 <= i /\ i <= j /\ j <= L + 1
      /\ \A p \in 1..N : t[p] = IF p < i THEN b[p] ELSE IF p < i + n THEN Word ELSE b[p - i - n + j]
  BY <1>1
<1>. HIDE DEF L, N
<1>3. g \in [1..N -> Int]
  BY <1>2
<1>4. \A p \in 1..N : t[p].kind # "word" => ~(~(p < i) /\ p < i + n)
  BY <1>2 DEF Word
<1>5. \A p \in 1..N : g[p] = IF p < i THEN p ELSE p - i - n + j
  OBVIOUS
<1>. HIDE DEF g
<1>6. ASSUME NEW p \in 1..N, t[p].kind # "word" PROVE g[p] \in 1..L /\ t[p] = b[g[p]]
  <2>1. CASE p < i
    <3>1. p \in 1..L /\ g[p] = p
      BY <1>1, <1>2, <1>5, <2>1
    <3>. QED BY <1>2, <2>1, <3>1
  <2>2. CASE ~(p < i)
    <3>1. ~(p < i + n)
      BY <1>4, <1>6, <2>2
    <3>2. g[p] = p - i - n + j
      BY <1>5, <2>2
    <3>3. p - i - n + j \in 1..L
      BY <1>1, <1>2, <2>2, <3>1
    <3>. QED BY <1>2, <2>2, <3>1, <3>2, <3>3
  <2>. QED BY <2>1, <2>2
<1>7. ASSUME NEW p \in 1..N, NEW q \in 1..N, p < q, t[p].kind # "word", t[q].kind # "word"
      PROVE  g[p] < g[q]
  <2>1. ~(~(q < i) /\ q < i + n)
    BY <1>4, <1>7
  <2>. QED BY <1>1, <1>2, <1>5, <1>7, <2>1
<1>8. Embeds(t, b, g)
  BY <1>6, <1>7 DEF Embeds, L, N
<1>. QED BY <1>3, <1>8 DEF Thinned, N

\* What page breaks leave readable is left of the text.
LEMMA ReadThins ==
    ASSUME NEW d, Filled(d), NEW i \in Nat, NEW n \in Nat, NEW t, ReadAs(d, t, i, n)
    PROVE  Thinned(t, Base(d))
<1>. DEFINE b == Base(d)
<1>1. b \in Seq(Token) /\ i \in 1..Len(b) + 1 /\ t = Broken(b, i, n)
  BY BaseFacts DEF ReadAs
<1>. HIDE DEF b
<1>. DEFINE r == Broken(b, i, n)
<1>2. /\ r \in Seq(Token) /\ Len(r) = Len(b) + n
      /\ \A p \in 1..(Len(b) + n) : r[p] = IF p < i THEN b[p] ELSE IF p < i + n THEN Word ELSE b[p - n]
  BY <1>1, BrokenFacts
<1>. HIDE DEF r
<1>3. /\ Len(r) = (i - 1) + n + (Len(b) - i + 1) /\ i \in i..Len(b) + 1
      /\ \A p \in 1..Len(r) : p - i - n + i = p - n
  BY <1>1, <1>2, LenProperties
<1>4. \A p \in 1..Len(r) : r[p] = IF p < i THEN b[p] ELSE IF p < i + n THEN Word ELSE b[p - i - n + i]
  BY <1>2, <1>3
<1>5. Thinned(r, b)
  BY <1>1, <1>2, <1>3, <1>4, GapThins
<1>. QED BY <1>1, <1>5 DEF r, b

\* Words in the place of lines leave the other cells of the text.
LEMMA SplicedThins ==
    ASSUME NEW d, Filled(d), NEW n \in Nat, NEW i \in 1..Len(Base(d)) + 1, NEW j \in i..Len(Base(d)) + 1
    PROVE  Thinned(Tokens(Splice(Lines(d), Words(n), i, j)), Base(d))
<1>. DEFINE b == Base(d)
            L == Len(b)
            lines == Lines(d)
            w == Words(n)
            r == Splice(lines, w, i, j)
            N == (i - 1) + n + (L - j + 1)
            t == [p \in 1..N |-> IF p < i THEN b[p] ELSE IF p < i + n THEN Word ELSE b[p - i - n + j]]
<1>1. /\ lines \in Seq(Seq(Token)) /\ Len(lines) = L
      /\ \A p \in 1..L : lines[p] = <<b[p]>>
  BY LineFacts
<1>2. b \in Seq(Token) /\ L \in Nat /\ i \in 1..L + 1 /\ j \in i..L + 1 /\ \A p \in 1..L : b[p] \in Token
  <2>1. b \in Seq(Token) /\ i \in 1..L + 1 /\ j \in i..L + 1
    BY BaseFacts
  <2>. HIDE DEF b
  <2>. QED BY <2>1, LenProperties, ElementOfSeq
<1>3. w \in Seq(Seq(Token)) /\ Len(w) = n /\ \A p \in 1..n : w[p] = <<Word>>
  <2>1. Word \in Token
    BY DEF Token, Word
  <2>2. <<Word>> \in Seq(Token)
    BY <2>1
  <2>3. w = [p \in 1..n |-> <<Word>>]
    BY DEF Words
  <2>. HIDE DEF w
  <2>4. w \in [1..n -> Seq(Token)]
    BY <2>2, <2>3
  <2>. QED BY <2>3, <2>4
<1>. HIDE DEF b, L, lines, w
<1>4. /\ N \in Nat /\ i \in Nat /\ j \in Nat /\ 1 <= i /\ i <= j /\ j <= L + 1 /\ N = (i - 1) + n + (L - j + 1)
  BY <1>2
<1>. HIDE DEF N
<1>5. \A p \in 1..N : t[p] = IF p < i THEN b[p] ELSE IF p < i + n THEN Word ELSE b[p - i - n + j]
  OBVIOUS
<1>6. t \in [1..N -> Token]
  <2>. SUFFICES ASSUME NEW p \in 1..N PROVE t[p] \in Token
    OBVIOUS
  <2>. HIDE DEF t
  <2>1. CASE p < i
    <3>1. p \in 1..L
      BY <1>2, <1>4, <2>1
    <3>. QED BY <1>2, <1>5, <2>1, <3>1
  <2>2. CASE ~(p < i) /\ p < i + n
    BY <1>5, <2>2 DEF Token, Word
  <2>3. CASE ~(p < i) /\ ~(p < i + n)
    <3>1. p - i - n + j \in 1..L
      BY <1>2, <1>4, <2>3
    <3>. QED BY <1>2, <1>5, <2>3, <3>1
  <2>. QED BY <2>1, <2>2, <2>3
<1>. HIDE DEF t
<1>7. t \in Seq(Token) /\ Len(t) = N
  BY <1>4, <1>6
<1>8. /\ r \in Seq(Seq(Token)) /\ Len(r) = N
      /\ \A p \in 1..N : r[p] = IF p < i THEN lines[p] ELSE IF p < i + n THEN w[p - i + 1] ELSE lines[p - i - n + j]
  <2>. DEFINE T == Seq(Token)
  <2>1. lines \in Seq(T) /\ w \in Seq(T) /\ i \in 1..Len(lines) + 1 /\ j \in i..Len(lines) + 1
    BY <1>1, <1>2, <1>3
  <2>. HIDE DEF T
  <2>2. /\ r \in Seq(T) /\ Len(r) = (i - 1) + Len(w) + (Len(lines) - j + 1)
        /\ \A p \in 1..Len(r) : r[p] = IF p < i THEN lines[p]
                                        ELSE IF p < i + Len(w) THEN w[p - i + 1] ELSE lines[p - i - Len(w) + j]
    BY <2>1, Spliced, SMTT(60)
  <2>. HIDE DEF r
  <2>3. Len(r) = N
    BY <1>1, <1>3, <1>4, <2>2
  <2>. QED BY <1>3, <2>2, <2>3 DEF T
<1>. HIDE DEF r
<1>9. ASSUME NEW p \in 1..N PROVE r[p] = <<t[p]>>
  <2>1. CASE p < i
    <3>1. p \in 1..L
      BY <1>2, <1>4, <2>1
    <3>. QED BY <1>1, <1>5, <1>8, <2>1, <3>1
  <2>2. CASE ~(p < i) /\ p < i + n
    <3>1. p - i + 1 \in 1..n
      BY <1>4, <2>2
    <3>2. r[p] = w[p - i + 1] /\ t[p] = Word
      BY <1>5, <1>8, <2>2
    <3>. QED BY <1>3, <3>1, <3>2
  <2>3. CASE ~(p < i) /\ ~(p < i + n)
    <3>. DEFINE y == p - i - n + j
    <3>1. y \in 1..L
      BY <1>2, <1>4, <2>3
    <3>2. r[p] = lines[y] /\ t[p] = b[y]
      BY <1>5, <1>8, <2>3
    <3>. HIDE DEF y
    <3>. QED BY <1>1, <3>1, <3>2
  <2>. QED BY <2>1, <2>2, <2>3
<1>10. r = [p \in 1..Len(t) |-> <<t[p]>>]
  <2>1. DOMAIN r = 1..Len(t) /\ r = [p \in DOMAIN r |-> r[p]]
    BY <1>7, <1>8, LenProperties
  <2>. QED BY <1>7, <1>9, <2>1
<1>11. Tokens(r) = t
  BY <1>7, <1>10, Singles
<1>12. Thinned(t, b)
  <2>1. i \in 1..Len(b) + 1 /\ j \in i..Len(b) + 1 /\ Len(t) = (i - 1) + n + (Len(b) - j + 1)
    BY <1>2, <1>4, <1>7 DEF L
  <2>2. \A p \in 1..Len(t) : t[p] = IF p < i THEN b[p] ELSE IF p < i + n THEN Word ELSE b[p - i - n + j]
    BY <1>5, <1>7
  <2>. QED BY <1>2, <1>7, <2>1, <2>2, GapThins
<1>. QED BY <1>11, <1>12 DEF r, lines, w, b

\* Whatever becomes of a table's lines, what is read of them is left of its text.
LEMMA DamagedThins ==
    ASSUME NEW d, Filled(d), NEW l \in Damaged(Lines(d))
    PROVE  Thinned(Tokens(l), Base(d))
<1>. DEFINE b == Base(d)
            L == Len(b)
            lines == Lines(d)
<1>1. /\ lines \in Seq(Seq(Token)) /\ Len(lines) = L
      /\ \A p \in 1..L : lines[p] = <<b[p]>>
  BY LineFacts
<1>2. b \in Seq(Token) /\ L \in Nat
  BY BaseFacts, LenProperties
<1>3. DOMAIN lines = 1..L
  <2>1. lines = [p \in 1..L |-> <<b[p]>>]
    BY LinesRead
  <2>. QED BY <2>1
<1>. DEFINE F(i, j) == [k \in DOMAIN lines |-> IF k \in {i, j} THEN <<Word>> ELSE lines[k]]
            broken == {Before(lines, i) \o Words(n) \o From(lines, i) :
                          i \in DOMAIN lines, n \in {n \in Breaks : n > SkipLimit}}
            buried == {Before(lines, i) \o Words(1) \o From(lines, i + 2) : i \in DOMAIN lines}
            lost == {F(i, j) : i \in DOMAIN lines, j \in DOMAIN lines}
<1>4. \/ \E i \in DOMAIN lines, n \in {n \in Breaks : n > SkipLimit} :
            l = Before(lines, i) \o Words(n) \o From(lines, i)
      \/ \E i \in DOMAIN lines : l = Before(lines, i) \o Words(1) \o From(lines, i + 2)
      \/ \E i \in DOMAIN lines, j \in DOMAIN lines : l = F(i, j)
  <2>1. l \in broken \cup buried \cup lost
    <3>1. l \in Damaged(lines)
      OBVIOUS
    <3>. HIDE DEF lines
    <3>2. Damaged(lines) = broken \cup buried \cup lost
      BY SMT DEF Damaged
    <3>. HIDE DEF broken, buried, lost
    <3>. QED BY <3>1, <3>2
  <2>. HIDE DEF lines, L
  <2>2. l \in broken \/ l \in buried \/ l \in lost
    <3>. HIDE DEF broken, buried, lost
    <3>. QED BY <2>1, Zenon
  <2>3. ASSUME l \in broken
        PROVE  \E i \in DOMAIN lines, n \in {n \in Breaks : n > SkipLimit} :
                  l = Before(lines, i) \o Words(n) \o From(lines, i)
    BY <2>3
  <2>4. ASSUME l \in buried
        PROVE  \E i \in DOMAIN lines : l = Before(lines, i) \o Words(1) \o From(lines, i + 2)
    BY <2>4, Zenon
  <2>5. ASSUME l \in lost
        PROVE  \E i \in DOMAIN lines, j \in DOMAIN lines : l = F(i, j)
    <3>. HIDE DEF F
    <3>. QED BY <2>5
  <2>. HIDE DEF broken, buried, lost
  <2>. QED BY <2>2, <2>3, <2>4, <2>5, Zenon
<1>. HIDE DEF broken, buried, lost
<1>5. ASSUME NEW i \in 1..L, NEW n \in Breaks,
             l = Before(lines, i) \o Words(n) \o From(lines, i)
      PROVE  Thinned(Tokens(l), b)
  <2>. DEFINE m == n
  <2>1. m \in Nat
    BY LimitAssumption
  <2>2. i \in 1..L + 1 /\ i \in i..L + 1
    <3>. HIDE DEF L
    <3>. QED BY <1>2
  <2>3. l = Splice(lines, Words(m), i, i)
    BY <1>5, Zenon DEF Splice, Before, From
  <2>. HIDE DEF m
  <2>4. Thinned(Tokens(Splice(lines, Words(m), i, i)), b)
    BY <2>1, <2>2, SplicedThins
  <2>. HIDE DEF lines, b, L
  <2>. QED BY <2>3, <2>4
<1>6. ASSUME NEW i \in 1..L,
             l = Before(lines, i) \o Words(1) \o From(lines, i + 2)
      PROVE  Thinned(Tokens(l), b)
  <2>. DEFINE j == IF i = L THEN L + 1 ELSE i + 2
  <2>1. i \in 1..L + 1 /\ j \in i..L + 1
    <3>. HIDE DEF L
    <3>. QED BY <1>2
  <2>2. SubSeq(lines, i + 2, Len(lines)) = SubSeq(lines, j, Len(lines))
    <3>. HIDE DEF lines, L
    <3>1. CASE i = L
      <4>. DEFINE T == Seq(Token)
                  x == L + 2
                  y == L + 1
      <4>1. lines \in Seq(T) /\ Len(lines) = L
        BY <1>1
      <4>. HIDE DEF T
      <4>2. x \in Nat /\ y \in Nat /\ L \in Nat /\ x > L /\ y > L
        BY <1>2
      <4>3. i + 2 = x /\ j = y
        BY <3>1
      <4>. HIDE DEF x, y, j
      <4>4. SubSeq(lines, x, L) = <<>> /\ SubSeq(lines, y, L) = <<>>
        BY <4>1, <4>2
      <4>. QED BY <4>1, <4>3, <4>4, Zenon
    <3>2. CASE i # L
      BY <3>2
    <3>. QED BY <3>1, <3>2
  <2>. HIDE DEF j
  <2>3. l = Splice(lines, Words(1), i, j)
    BY <1>6, <2>2, Zenon DEF Splice, Before, From
  <2>4. Thinned(Tokens(Splice(lines, Words(1), i, j)), b)
    BY <2>1, SplicedThins
  <2>. HIDE DEF lines, b, L
  <2>. QED BY <2>3, <2>4
<1>7. ASSUME NEW i \in 1..L, NEW j \in 1..L,
             l = F(i, j)
      PROVE  Thinned(Tokens(l), b)
  <2>. DEFINE t == [p \in 1..L |-> IF p \in {i, j} THEN Word ELSE b[p]]
              g == [p \in 1..L |-> p]
  <2>. HIDE DEF b, lines
  <2>1. \A p \in 1..L : b[p] \in Token
    BY <1>2, ElementOfSeq
  <2>2. Len(b) = L
    OBVIOUS
  <2>. HIDE DEF L
  <2>3. t \in [1..L -> Token]
    BY <2>1 DEF Word, Token
  <2>4. \A p \in 1..L : t[p] = IF p \in {i, j} THEN Word ELSE b[p]
    OBVIOUS
  <2>. HIDE DEF t
  <2>5. t \in Seq(Token) /\ Len(t) = L
    BY <1>2, <2>3
  <2>6. l = [k \in 1..L |-> IF k \in {i, j} THEN <<Word>> ELSE lines[k]]
    BY <1>3, <1>7, Zenon DEF L
  <2>7. \A p \in 1..L : l[p] = <<t[p]>>
    BY <1>1, <2>4, <2>6
  <2>8. l = [p \in 1..Len(t) |-> <<t[p]>>]
    BY <2>5, <2>6, <2>7
  <2>9. Tokens(l) = t
    BY <2>5, <2>8, Singles
  <2>10. Embeds(t, b, g)
    BY <1>2, <2>2, <2>4, <2>5 DEF Embeds, Word
  <2>11. g \in [1..L -> Int]
    BY <1>2
  <2>. QED BY <2>5, <2>9, <2>10, <2>11 DEF Thinned
<1>. HIDE DEF lines, L, b, F
<1>8. \A n \in {n \in Breaks : n > SkipLimit} : n \in Breaks
  OBVIOUS
<1>9. Thinned(Tokens(l), b)
  BY <1>3, <1>4, <1>5, <1>6, <1>7, <1>8
<1>. QED BY <1>9 DEF b

\* The dates tell the rows apart and all arrive, and behind the table stand only words.
Dated(d, t) ==
    /\ \A j \in 1..Len(d.tail) : d.tail[j].kind = "word"
    /\ \A k, q \in 1..Len(d.rows) : d.rows[k].date = d.rows[q].date => k = q
    /\ \A k \in 1..Len(d.rows) : \E e \in 1..Len(t) : t[e] = Date(d.rows[k].date)

\* Where the date (m = 0) and the numbers of the k-th row stand in the text.
PlaceOf(k, m) == 10 * (k - 1) + 1 + m

\* There is its number in column m.
IsCell(d, k, m, x) == x = PlaceOf(k, m) /\ Base(d)[x] = Num(Whole(d, k).cells[m])

\* The columns of a row, and the rows, follow one another.
LEMMA PlaceOrder ==
    ASSUME NEW k \in Nat \ {0}, NEW q \in Nat \ {0}, NEW m \in 0..9, NEW y \in 0..9
    PROVE  /\ PlaceOf(k, m) \in Nat
           /\ k < q => PlaceOf(k, m) < PlaceOf(q, y)
           /\ PlaceOf(k, m) < PlaceOf(k, y) <=> m < y
           /\ PlaceOf(k, m) = PlaceOf(q, y) => k = q /\ m = y
  BY DEF PlaceOf

\* A date in the text of a table is the date of a row.
LEMMA DatePlace ==
    ASSUME NEW d, Filled(d), NEW x \in 1..Len(Base(d)), Base(d)[x].kind = "date"
    PROVE  \E k \in 1..Len(d.rows) : x = PlaceOf(k, 0) /\ Base(d)[x] = Date(d.rows[k].date)
<1>. DEFINE b == Base(d)
<1>1. ReadAs(d, b, 1, 0)
  <2>1. Broken(Base(d), 1, 0) = Base(d) /\ 1 \in 1..Len(Base(d)) + 1
    BY Unbroken
  <2>. QED BY <2>1 DEF ReadAs
<1>2. x \in 1..Len(b) /\ b[x].kind = "date"
  OBVIOUS
<1>. HIDE DEF b
<1>3. PICK k \in 1..Len(d.rows) : x = ColAt(1, 0, k, 0)
  BY <1>1, <1>2, DateOf
<1>4. DateAt(d, b, k, ColAt(1, 0, k, 0))
  BY <1>1, DateRead
<1>5. b[x] = Date(d.rows[k].date)
  BY <1>3, <1>4 DEF DateAt, Whole
<1>6. x = PlaceOf(k, 0)
  <2>1. k \in Nat \ {0}
    BY BaseFacts
  <2>. QED BY <1>3, <2>1 DEF ColAt, CellAt, PlaceOf
<1>. QED BY <1>5, <1>6 DEF b

\* Where only words follow the table, a number in its text is one of a row's.
LEMMA NumberPlace ==
    ASSUME NEW d, Filled(d), \A j \in 1..Len(d.tail) : d.tail[j].kind = "word",
           NEW x \in 1..Len(Base(d)), Base(d)[x].kind = "num"
    PROVE  \E k \in 1..Len(d.rows), m \in 1..9 : IsCell(d, k, m, x)
<1>. DEFINE K == Len(d.rows)
            M == Len(d.tail)
            b == Base(d)
            T == 10 * K
<1>1. /\ b \in Seq(Token) /\ Len(b) = T + M /\ K \in Nat /\ M \in Nat
      /\ \A k \in 1..K, j \in 1..10 : b[10 * (k - 1) + j] = RowLines(d.rows[k])[j]
      /\ \A e \in 1..M : b[T + e] = d.tail[e]
  BY BaseFacts
<1>2. ASSUME NEW k \in 1..K
      PROVE  /\ RowLines(d.rows[k])[1] = Date(Whole(d, k).date)
             /\ \A j \in 1..9 : RowLines(d.rows[k])[j + 1] = Num(Whole(d, k).cells[j])
  BY WholeFacts
<1>3. x \in 1..Len(b) /\ b[x].kind = "num" /\ \A j \in 1..M : d.tail[j].kind = "word"
  OBVIOUS
<1>. HIDE DEF K, M, b
<1>4. T \in Nat /\ x \in 1..(T + M) /\ x \in Int
  BY <1>1, <1>3
<1>5. x <= T
  <2>. SUFFICES ASSUME ~(x <= T) PROVE FALSE
    OBVIOUS
  <2>. HIDE DEF T
  <2>1. x - T \in 1..M /\ T + (x - T) = x
    BY <1>1, <1>4
  <2>. QED BY <1>1, <1>3, <2>1
<1>. DEFINE S == {k \in 1..K : x <= 10 * k}
<1>6. PICK k \in S : \A q \in S : k <= q
  <2>1. K \in S /\ S \subseteq Nat
    <3>1. x \in Int /\ 1 <= x /\ x <= 10 * K /\ K \in Nat
      BY <1>1, <1>4, <1>5
    <3>2. K \in 1..K
      BY <3>1
    <3>. QED BY <3>1, <3>2
  <2>. HIDE DEF S
  <2>. QED BY <2>1, Least
<1>. DEFINE j == x - 10 * (k - 1)
<1>7. k \in 1..K /\ x <= 10 * k /\ x \in Int /\ 1 <= x
  BY <1>4
<1>8. ~(x <= 10 * (k - 1))
  <2>1. CASE k = 1
    BY <1>7, <2>1
  <2>2. CASE k # 1
    <3>1. k - 1 \in 1..K /\ ~(k <= k - 1)
      <4>1. k \in Int /\ 1 <= k /\ k <= K /\ K \in Int
        BY <1>1, <1>7
      <4>. HIDE DEF S, T
      <4>. QED BY <2>2, <4>1
    <3>. QED BY <1>6, <3>1
  <2>. QED BY <2>1, <2>2
<1>9. j \in 1..10 /\ x = 10 * (k - 1) + j
  BY <1>7, <1>8
<1>. HIDE DEF j, S, T
<1>10. b[x] = RowLines(d.rows[k])[j]
  BY <1>1, <1>7, <1>9
<1>11. j # 1
  <2>. SUFFICES ASSUME j = 1 PROVE FALSE
    OBVIOUS
  <2>1. b[x] = Date(Whole(d, k).date)
    BY <1>2, <1>7, <1>10
  <2>. QED BY <1>3, <2>1 DEF Date
<1>. DEFINE m == j - 1
<1>12. m \in 1..9 /\ m + 1 = j
  BY <1>9, <1>11
<1>13. x = PlaceOf(k, m)
  BY <1>7, <1>9 DEF PlaceOf
<1>. HIDE DEF m
<1>14. b[x] = Num(Whole(d, k).cells[m])
  BY <1>2, <1>7, <1>10, <1>12
<1>15. IsCell(d, k, m, x)
  BY <1>13, <1>14 DEF IsCell, b
<1>. QED BY <1>7, <1>12, <1>15 DEF K

\* The text read is left of the document's, at g, and all dates have arrived.
Kept(g) ==
    /\ tokens \in Seq(Token) /\ g \in [1..Len(tokens) -> Int]
    /\ Embeds(tokens, Base(doc), g)
    /\ Dated(doc, tokens)

\* The date of each row is read, at its place.
LEMMA DateArrives ==
    ASSUME Filled(doc), NEW g, Kept(g), NEW k \in 1..Len(doc.rows)
    PROVE  \E e \in 1..Len(tokens) : tokens[e].kind = "date" /\ g[e] = PlaceOf(k, 0)
<1>. DEFINE b == Base(doc)
<1>1. PICK e \in 1..Len(tokens) : tokens[e] = Date(doc.rows[k].date)
  BY DEF Kept, Dated
<1>2. tokens[e].kind = "date"
  BY <1>1 DEF Date
<1>3. g[e] \in 1..Len(b) /\ tokens[e] = b[g[e]]
  BY <1>2 DEF Kept, Embeds
<1>4. PICK q \in 1..Len(doc.rows) : g[e] = PlaceOf(q, 0) /\ b[g[e]] = Date(doc.rows[q].date)
  <2>. DEFINE x == g[e]
  <2>1. x \in 1..Len(Base(doc)) /\ Base(doc)[x].kind = "date"
    BY <1>2, <1>3
  <2>. HIDE DEF x
  <2>2. \E q \in 1..Len(doc.rows) : x = PlaceOf(q, 0) /\ Base(doc)[x] = Date(doc.rows[q].date)
    BY <2>1, DatePlace
  <2>. QED BY <2>2 DEF x
<1>5. doc.rows[q].date = doc.rows[k].date
  BY <1>1, <1>3, <1>4 DEF Date
<1>6. q = k
  BY <1>5 DEF Kept, Dated
<1>. QED BY <1>2, <1>4, <1>6

\* A date read is that of a row, at its place.
LEMMA DateMet ==
    ASSUME Filled(doc), NEW g, Kept(g), NEW p \in 1..Len(tokens), tokens[p].kind = "date"
    PROVE  \E k \in 1..Len(doc.rows) : g[p] = PlaceOf(k, 0) /\ tokens[p] = Date(doc.rows[k].date)
<1>. DEFINE x == g[p]
<1>1. x \in 1..Len(Base(doc)) /\ tokens[p] = Base(doc)[x]
  BY DEF Kept, Embeds
<1>. HIDE DEF x
<1>2. \E k \in 1..Len(doc.rows) : x = PlaceOf(k, 0) /\ Base(doc)[x] = Date(doc.rows[k].date)
  BY <1>1, DatePlace
<1>. QED BY <1>1, <1>2 DEF x

\* A number behind a row's date and before the next is one of the row's.
LEMMA NumberMet ==
    ASSUME Filled(doc), NEW g, Kept(g), NEW k \in 1..Len(doc.rows),
           NEW a \in 1..Len(tokens), tokens[a].kind = "date", g[a] = PlaceOf(k, 0),
           NEW p \in 1..Len(tokens), a < p, tokens[p].kind = "num",
           \A e \in 1..Len(tokens) : a < e /\ e < p => tokens[e].kind # "date"
    PROVE  \E m \in 1..9 : g[p] = PlaceOf(k, m) /\ tokens[p] = Num(Whole(doc, k).cells[m])
<1>. DEFINE x == g[p]
<1>1. x \in 1..Len(Base(doc)) /\ tokens[p] = Base(doc)[x]
  BY DEF Kept, Embeds
<1>2. \A j \in 1..Len(doc.tail) : doc.tail[j].kind = "word"
  BY DEF Kept, Dated
<1>3. PICK q \in 1..Len(doc.rows), m \in 1..9 : IsCell(doc, q, m, x)
  <2>. HIDE DEF x
  <2>. QED BY <1>1, <1>2, NumberPlace
<1>4. x = PlaceOf(q, m) /\ tokens[p] = Num(Whole(doc, q).cells[m])
  BY <1>1, <1>3 DEF IsCell
<1>5. g[a] < g[p]
  BY DEF Kept, Embeds
<1>6. k \in Nat \ {0} /\ q \in Nat \ {0} /\ m \in 0..9 /\ 0 \in 0..9 /\ 0 < m
  BY BaseFacts
<1>7. /\ PlaceOf(k, 0) \in Nat /\ PlaceOf(q, m) \in Nat /\ PlaceOf(q, 0) \in Nat
      /\ q < k => PlaceOf(q, m) < PlaceOf(k, 0)
      /\ k < q => PlaceOf(k, 0) < PlaceOf(q, 0)
      /\ PlaceOf(q, 0) < PlaceOf(q, m)
  BY <1>6, PlaceOrder
<1>8. ~(q < k)
  BY <1>4, <1>5, <1>7
<1>9. ~(k < q)
  <2>. SUFFICES ASSUME k < q PROVE FALSE
    OBVIOUS
  <2>1. PICK e \in 1..Len(tokens) : tokens[e].kind = "date" /\ g[e] = PlaceOf(q, 0)
    BY DateArrives
  <2>2. g[a] < g[e] /\ g[e] < g[p]
    BY <1>4, <1>7, <2>1
  <2>3. e \in Int /\ a \in Int /\ p \in Int
    OBVIOUS
  <2>4. a < e
    <3>. SUFFICES ASSUME ~(a < e) PROVE FALSE
      OBVIOUS
    <3>1. CASE e = a
      BY <1>7, <2>1, <2>2, <3>1
    <3>2. CASE e < a
      <4>1. g[e] < g[a]
        BY <2>1, <3>2 DEF Kept, Embeds
      <4>. QED BY <1>7, <2>1, <2>2, <4>1
    <3>. QED BY <2>3, <3>1, <3>2
  <2>5. e < p
    <3>. SUFFICES ASSUME ~(e < p) PROVE FALSE
      OBVIOUS
    <3>1. CASE e = p
      BY <2>1, <3>1
    <3>2. CASE p < e
      <4>1. g[p] < g[e]
        BY <2>1, <3>2 DEF Kept, Embeds
      <4>. QED BY <1>4, <1>7, <2>1, <2>2, <4>1
    <3>. QED BY <2>3, <3>1, <3>2
  <2>. QED BY <2>1, <2>4, <2>5
<1>10. q = k
  BY <1>6, <1>8, <1>9
<1>. QED BY <1>4, <1>10

\* The scanner has left the date of row k, and of its numbers none behind column y;
\* if it has as many as that, they are the row's.
InRow(g, k, y) ==
    /\ anchor \in 1..Len(tokens) /\ anchor < pos
    /\ tokens[anchor] = Date(doc.rows[k].date) /\ g[anchor] = PlaceOf(k, 0)
    /\ \A p \in 1..Len(tokens) : anchor < p /\ p < pos => tokens[p].kind # "date"
    /\ \A p \in 1..Len(tokens) : pos <= p /\ tokens[p].kind # "word" => PlaceOf(k, y) < g[p]
    /\ Len(cells) <= y
    /\ Len(cells) = y => \A j \in 1..y : cells[j] = Whole(doc, k).cells[j]

\* What holds at each stage of the call.
Follows(g) ==
    /\ pc \in {"scan", "collect"} => OnlyWhole /\ pos \in Nat \ {0}
    /\ pc = "collect" => cells \in Seq(Int) /\ \E k \in 1..Len(doc.rows), y \in 0..9 : InRow(g, k, y)
    /\ pc = "done" => txs \subseteq RealTrades

\* A date met begins a row of which no number is behind yet.
LEMMA AnchorFollows ==
    ASSUME Filled(doc), NEW g, Kept(g), Follows(g), Anchor
    PROVE  Follows(g)'
<1>1. /\ pc = "scan" /\ At(pos) = "date" /\ pc' = "collect"
      /\ anchor' = pos /\ pos' = pos + 1 /\ cells' = <<>>
      /\ doc' = doc /\ tokens' = tokens /\ rows' = rows
  BY DEF Anchor
<1>2. tokens \in Seq(Token) /\ OnlyWhole /\ pos \in Nat \ {0}
  BY <1>1 DEF Kept, Follows
<1>3. pos \in 1..Len(tokens) /\ tokens[pos].kind = "date"
  BY <1>1, <1>2, AtFacts
<1>4. PICK k \in 1..Len(doc.rows) : g[pos] = PlaceOf(k, 0) /\ tokens[pos] = Date(doc.rows[k].date)
  BY <1>3, DateMet
<1>5. OnlyWhole'
  BY <1>1, <1>2 DEF OnlyWhole
<1>6. ASSUME NEW p \in 1..Len(tokens), pos + 1 <= p, tokens[p].kind # "word" PROVE PlaceOf(k, 0) < g[p]
  <2>1. pos < p
    BY <1>3, <1>6
  <2>2. g[pos] < g[p]
    BY <1>3, <1>6, <2>1 DEF Kept, Embeds
  <2>. QED BY <1>4, <2>2
<1>7. \A p \in 1..Len(tokens) : ~(pos < p /\ p < pos + 1)
  BY <1>2
<1>8. pos < pos + 1 /\ pos + 1 \in Nat \ {0}
  BY <1>2
<1>9. cells' \in Seq(Int) /\ Len(cells') = 0 /\ \A j \in 1..0 : cells'[j] = Whole(doc, k).cells[j]
  BY <1>1
<1>10. InRow(g, k, 0)'
  BY <1>1, <1>3, <1>4, <1>6, <1>7, <1>8, <1>9 DEF InRow
<1>11. k \in 1..Len(doc'.rows) /\ 0 \in 0..9
  BY <1>1
<1>. QED BY <1>1, <1>5, <1>8, <1>9, <1>10, <1>11 DEF Follows

\* What is passed changes nothing.
LEMMA PassFollows ==
    ASSUME NEW g, Kept(g), Follows(g), Pass
    PROVE  Follows(g)'
<1>1. pc = "scan" /\ pc' = "scan" /\ pos' = pos + 1 /\ doc' = doc /\ rows' = rows
  BY DEF Pass
<1>2. OnlyWhole /\ pos \in Nat \ {0}
  BY <1>1 DEF Follows
<1>3. OnlyWhole'
  BY <1>1, <1>2 DEF OnlyWhole
<1>4. pos' \in Nat \ {0}
  BY <1>1, <1>2
<1>. QED BY <1>1, <1>3, <1>4 DEF Follows

\* A number met is one of the row's behind column y, and the next if none is missing.
LEMMA TakeFollows ==
    ASSUME Filled(doc), NEW g, Kept(g), Follows(g), TakeCell
    PROVE  Follows(g)'
<1>1. /\ pc = "collect" /\ At(pos) = "num" /\ pc' = "collect"
      /\ cells' = Append(cells, tokens[pos].val) /\ pos' = pos + 1
      /\ doc' = doc /\ tokens' = tokens /\ anchor' = anchor /\ rows' = rows
  BY DEF TakeCell
<1>2. tokens \in Seq(Token) /\ OnlyWhole /\ pos \in Nat \ {0} /\ cells \in Seq(Int)
  BY <1>1 DEF Kept, Follows
<1>3. PICK k \in 1..Len(doc.rows), y \in 0..9 : InRow(g, k, y)
  BY <1>1 DEF Follows
<1>4. pos \in 1..Len(tokens) /\ tokens[pos].kind = "num"
  BY <1>1, <1>2, AtFacts
<1>5. /\ anchor \in 1..Len(tokens) /\ anchor < pos
      /\ tokens[anchor] = Date(doc.rows[k].date) /\ g[anchor] = PlaceOf(k, 0)
      /\ \A p \in 1..Len(tokens) : anchor < p /\ p < pos => tokens[p].kind # "date"
      /\ PlaceOf(k, y) < g[pos]
      /\ Len(cells) <= y
      /\ Len(cells) = y => \A j \in 1..y : cells[j] = Whole(doc, k).cells[j]
  <2>1. pos <= pos /\ tokens[pos].kind # "word"
    BY <1>2, <1>4
  <2>. QED BY <1>3, <1>4, <2>1 DEF InRow
<1>6. tokens[anchor].kind = "date"
  BY <1>5 DEF Date
<1>7. PICK m \in 1..9 : g[pos] = PlaceOf(k, m) /\ tokens[pos] = Num(Whole(doc, k).cells[m])
  <2>. DEFINE a == anchor
              p == pos
  <2>1. /\ a \in 1..Len(tokens) /\ tokens[a].kind = "date" /\ g[a] = PlaceOf(k, 0)
        /\ p \in 1..Len(tokens) /\ a < p /\ tokens[p].kind = "num"
        /\ \A e \in 1..Len(tokens) : a < e /\ e < p => tokens[e].kind # "date"
    BY <1>4, <1>5, <1>6
  <2>. HIDE DEF a, p
  <2>2. \E m \in 1..9 : g[p] = PlaceOf(k, m) /\ tokens[p] = Num(Whole(doc, k).cells[m])
    BY <2>1, NumberMet
  <2>. QED BY <2>2 DEF p
<1>8. y < m
  <2>1. k \in Nat \ {0} /\ m \in 0..9
    BY BaseFacts
  <2>2. PlaceOf(k, y) < PlaceOf(k, m) <=> y < m
    BY <2>1, PlaceOrder
  <2>. QED BY <1>5, <1>7, <2>2
<1>9. tokens[pos].val \in Int /\ tokens[pos].val = Whole(doc, k).cells[m]
  <2>1. tokens[pos] \in Token
    BY <1>2, <1>4, ElementOfSeq
  <2>. QED BY <1>7, <2>1 DEF Token, Num
<1>10. /\ cells' \in Seq(Int) /\ Len(cells') = Len(cells) + 1 /\ Len(cells) \in Nat
       /\ \A j \in 1..Len(cells) : cells'[j] = cells[j]
       /\ cells'[Len(cells) + 1] = tokens[pos].val
  BY <1>1, <1>2, <1>9, AppendProperties, LenProperties
<1>11. Len(cells') <= m
  BY <1>5, <1>8, <1>10
<1>12. ASSUME Len(cells') = m, NEW j \in 1..m PROVE cells'[j] = Whole(doc, k).cells[j]
  <2>1. Len(cells) = y /\ m = Len(cells) + 1
    BY <1>5, <1>8, <1>10, <1>12
  <2>2. j \in 1..Len(cells) \/ j = Len(cells) + 1
    BY <1>10, <2>1
  <2>3. CASE j \in 1..Len(cells)
    BY <1>5, <1>10, <2>1, <2>3
  <2>4. CASE j = Len(cells) + 1
    BY <1>9, <1>10, <2>1, <2>4
  <2>. QED BY <2>2, <2>3, <2>4
<1>13. ASSUME NEW p \in 1..Len(tokens), anchor < p, p < pos + 1 PROVE tokens[p].kind # "date"
  <2>1. p < pos \/ p = pos
    BY <1>2, <1>13
  <2>. QED BY <1>4, <1>5, <1>13, <2>1
<1>14. ASSUME NEW p \in 1..Len(tokens), pos + 1 <= p, tokens[p].kind # "word" PROVE PlaceOf(k, m) < g[p]
  <2>1. pos < p
    BY <1>2, <1>14
  <2>2. g[pos] < g[p]
    BY <1>4, <1>14, <2>1 DEF Kept, Embeds
  <2>. QED BY <1>7, <2>2
<1>15. anchor < pos + 1 /\ pos + 1 \in Nat \ {0}
  BY <1>2, <1>5
<1>16. InRow(g, k, m)'
  BY <1>1, <1>5, <1>11, <1>12, <1>13, <1>14, <1>15 DEF InRow
<1>17. OnlyWhole'
  BY <1>1, <1>2 DEF OnlyWhole
<1>18. k \in 1..Len(doc'.rows) /\ m \in 0..9
  BY <1>1
<1>. QED BY <1>1, <1>10, <1>15, <1>16, <1>17, <1>18 DEF Follows

\* A word met is no number and no date.
LEMMA SkipFollows ==
    ASSUME NEW g, Kept(g), Follows(g), SkipWord
    PROVE  Follows(g)'
<1>1. /\ pc = "collect" /\ At(pos) = "word" /\ pc' = "collect" /\ pos' = pos + 1
      /\ doc' = doc /\ tokens' = tokens /\ anchor' = anchor /\ cells' = cells /\ rows' = rows
  BY DEF SkipWord
<1>2. tokens \in Seq(Token) /\ OnlyWhole /\ pos \in Nat \ {0} /\ cells \in Seq(Int)
  BY <1>1 DEF Kept, Follows
<1>3. PICK k \in 1..Len(doc.rows), y \in 0..9 : InRow(g, k, y)
  BY <1>1 DEF Follows
<1>4. pos \in 1..Len(tokens) /\ tokens[pos].kind = "word"
  BY <1>1, <1>2, AtFacts
<1>5. ASSUME NEW p \in 1..Len(tokens), anchor < p, p < pos + 1 PROVE tokens[p].kind # "date"
  <2>1. p < pos \/ p = pos
    BY <1>2, <1>5
  <2>. QED BY <1>3, <1>4, <1>5, <2>1 DEF InRow
<1>6. ASSUME NEW p \in 1..Len(tokens), pos + 1 <= p, tokens[p].kind # "word" PROVE PlaceOf(k, y) < g[p]
  <2>1. pos <= p
    BY <1>2, <1>6
  <2>. QED BY <1>3, <1>6, <2>1 DEF InRow
<1>7. anchor < pos + 1 /\ pos + 1 \in Nat \ {0}
  BY <1>2, <1>3 DEF InRow
<1>8. InRow(g, k, y)'
  BY <1>1, <1>3, <1>5, <1>6, <1>7 DEF InRow
<1>9. OnlyWhole'
  BY <1>1, <1>2 DEF OnlyWhole
<1>10. k \in 1..Len(doc'.rows)
  BY <1>1
<1>. QED BY <1>1, <1>2, <1>7, <1>8, <1>9, <1>10 DEF Follows

\* A row of nine numbers has lost none of them.
LEMMA EndFollows ==
    ASSUME Filled(doc), NEW g, Kept(g), Follows(g), EndRow
    PROVE  Follows(g)'
<1>. DEFINE Row == [date : Int, cells : Seq(Int)]
            row == [date |-> tokens[anchor].val, cells |-> cells]
<1>1. /\ pc = "collect" /\ pc' = "scan"
      /\ \/ rows' = Append(rows, row) /\ pos' = pos
         \/ pos' = anchor + 1 /\ rows' = rows
      /\ doc' = doc
  BY DEF EndRow
<1>2. tokens \in Seq(Token) /\ OnlyWhole /\ pos \in Nat \ {0} /\ cells \in Seq(Int)
  BY <1>1 DEF Kept, Follows
<1>3. PICK k \in 1..Len(doc.rows), y \in 0..9 : InRow(g, k, y)
  BY <1>1 DEF Follows
<1>4. pos' \in Nat \ {0}
  BY <1>1, <1>2, <1>3 DEF InRow
<1>5. Whole(doc, k) \in Row /\ Len(Whole(doc, k).cells) = 9
  BY WholeFacts
<1>6. tokens[anchor].val = Whole(doc, k).date
  BY <1>3 DEF InRow, Date, Whole
<1>7. row \in Row /\ row.cells = cells
  <2>1. tokens[anchor].val \in Int
    BY <1>5, <1>6
  <2>. QED BY <1>2, <2>1
<1>8. Len(cells) = 9 => row = Whole(doc, k)
  <2>. SUFFICES ASSUME Len(cells) = 9 PROVE row = Whole(doc, k)
    OBVIOUS
  <2>1. y = 9
    BY <1>3 DEF InRow
  <2>2. cells = Whole(doc, k).cells
    <3>. DEFINE c == Whole(doc, k).cells
    <3>1. c \in Seq(Int) /\ Len(c) = Len(cells) /\ Len(cells) = 9
      BY <1>5
    <3>2. \A j \in 1..9 : cells[j] = c[j]
      BY <1>3, <2>1 DEF InRow
    <3>. HIDE DEF c
    <3>3. cells = c
      BY <1>2, <3>1, <3>2, SeqEqual
    <3>. QED BY <3>3 DEF c
  <2>. QED BY <1>5, <1>6, <2>2
<1>9. /\ rows \in Seq(Row)
      /\ \A x \in 1..Len(rows) : Len(rows[x].cells) = 9 => \E q \in 1..Len(doc.rows) : rows[x] = Whole(doc, q)
  BY <1>2 DEF OnlyWhole
<1>. HIDE DEF row, Row
<1>10. OnlyWhole'
  <2>1. CASE rows' = rows
    BY <1>1, <1>2, <2>1 DEF OnlyWhole
  <2>2. CASE rows' = Append(rows, row)
    <3>1. /\ Append(rows, row) \in Seq(Row) /\ Len(Append(rows, row)) = Len(rows) + 1
          /\ \A x \in 1..Len(rows) : Append(rows, row)[x] = rows[x]
          /\ Append(rows, row)[Len(rows) + 1] = row
          /\ Len(rows) \in Nat
      BY <1>7, <1>9, AppendProperties, LenProperties
    <3>2. ASSUME NEW x \in 1..Len(rows'), Len(rows'[x].cells) = 9
          PROVE  \E q \in 1..Len(doc.rows) : rows'[x] = Whole(doc, q)
      <4>1. x \in 1..Len(rows) \/ x = Len(rows) + 1
        BY <2>2, <3>1
      <4>2. CASE x \in 1..Len(rows)
        BY <1>9, <2>2, <3>1, <3>2, <4>2
      <4>3. CASE x = Len(rows) + 1
        BY <1>7, <1>8, <2>2, <3>1, <3>2, <4>3
      <4>. QED BY <4>1, <4>2, <4>3
    <3>. QED BY <1>1, <2>2, <3>1, <3>2 DEF OnlyWhole, Row
  <2>. QED BY <1>1, <2>1, <2>2
<1>. QED BY <1>1, <1>4, <1>10 DEF Follows

\* The trades of the rows found are real.
LEMMA MapFollows ==
    ASSUME IsTable(doc), Filled(doc), NEW g, Kept(g), Follows(g), Map
    PROVE  Follows(g)'
<1>1. pc = "scan" /\ pc' = "done"
  BY DEF Map
<1>2. txs' \subseteq RealTrades'
  BY <1>1, WholeMaps DEF Follows
<1>. QED BY <1>1, <1>2 DEF Follows

\* The invariant: what is read of a table is left of its text, and if its dates all
\* arrive, the scanner's position, row and rows are as Follows says.
ThinInv ==
    IsTable(doc) /\ pc # "new" =>
        /\ Thinned(tokens, Base(doc))
        /\ \A g \in [1..Len(tokens) -> Int] : Kept(g) => Follows(g)

\* What is extracted, with all its cells or not, is left of the text.
LEMMA ExtractThins ==
    ASSUME FilledForms, DkbInv, Extract
    PROVE  ThinInv'
<1>1. /\ pc = "new" /\ IsTable(doc) /\ pc' = "scan"
      /\ doc' = doc /\ pos' = pos /\ rows' = rows
      /\ tokens' \in Readings[doc].intact \/ tokens' \in Readings[doc].damaged
  BY DEF Extract, scan
<1>2. doc \in Doc /\ Filled(doc) /\ pos = 1 /\ rows = <<>>
  BY <1>1 DEF DkbInv, FilledForms
<1>3. /\ Readings[doc].intact = {Tokens(l) : l \in Intact(Lines(doc))}
      /\ Readings[doc].damaged = {Tokens(l) : l \in Damaged(Lines(doc))}
  BY <1>1, <1>2 DEF Readings
<1>4. Thinned(tokens', Base(doc))
  <2>1. CASE tokens' \in Readings[doc].intact
    <3>1. PICK l \in Intact(Lines(doc)) : tokens' = Tokens(l)
      BY <1>3, <2>1
    <3>2. PICK i \in Nat, n \in Nat : ReadAs(doc, Tokens(l), i, n)
      BY <1>2, IntactReads
    <3>. QED BY <1>2, <3>1, <3>2, ReadThins
  <2>2. CASE tokens' \in Readings[doc].damaged
    <3>1. PICK l \in Damaged(Lines(doc)) : tokens' = Tokens(l)
      BY <1>3, <2>2
    <3>. QED BY <1>2, <3>1, DamagedThins
  <2>. QED BY <1>1, <2>1, <2>2
<1>5. OnlyWhole' /\ pos' \in Nat \ {0}
  <2>1. rows' \in Seq([date : Int, cells : Seq(Int)]) /\ Len(rows') = 0
    BY <1>1, <1>2
  <2>. QED BY <1>1, <1>2, <2>1 DEF OnlyWhole
<1>6. ASSUME NEW g PROVE Follows(g)'
  BY <1>1, <1>5 DEF Follows
<1>. QED BY <1>1, <1>4, <1>6 DEF ThinInv

\* The steps that follow keep the document and its text, and the invariant if they
\* keep what it says of the rows.
LEMMA ThinKept ==
    ASSUME FilledForms, DkbInv, ThinInv, doc' = doc, tokens' = tokens, pc # "new",
           ASSUME NEW g, IsTable(doc), Filled(doc), Kept(g), Follows(g) PROVE Follows(g)'
    PROVE  ThinInv'
<1>1. IsTable(doc) => Filled(doc)
  BY DEF DkbInv, FilledForms
<1>2. ASSUME IsTable(doc)
      PROVE  Thinned(tokens, Base(doc)) /\ \A g \in [1..Len(tokens) -> Int] : Kept(g) => Follows(g)
  BY <1>2 DEF ThinInv
<1>3. ASSUME IsTable(doc), NEW g \in [1..Len(tokens) -> Int], Kept(g)' PROVE Follows(g)'
  <2>1. Kept(g)
    BY <1>3 DEF Kept
  <2>2. Follows(g)
    BY <1>2, <1>3, <2>1
  <2>. QED BY <1>1, <1>3, <2>1, <2>2
<1>4. IsTable(doc) => Thinned(tokens, Base(doc))'
  BY <1>2
<1>. QED BY <1>3, <1>4 DEF ThinInv

\* Every step keeps the invariant.
LEMMA ThinInvStep ==
    ASSUME FilledForms, DkbInv, ThinInv, [Next]_vars
    PROVE  ThinInv'
<1>1. CASE Extract
  BY <1>1, ExtractThins
<1>2. CASE Anchor
  <2>1. pc # "new" /\ doc' = doc /\ tokens' = tokens
    BY <1>2 DEF Anchor
  <2>. QED BY <1>2, <2>1, AnchorFollows, ThinKept
<1>3. CASE Pass
  <2>1. pc # "new" /\ doc' = doc /\ tokens' = tokens
    BY <1>3 DEF Pass
  <2>. QED BY <1>3, <2>1, PassFollows, ThinKept
<1>4. CASE TakeCell
  <2>1. pc # "new" /\ doc' = doc /\ tokens' = tokens
    BY <1>4 DEF TakeCell
  <2>. QED BY <1>4, <2>1, TakeFollows, ThinKept
<1>5. CASE SkipWord
  <2>1. pc # "new" /\ doc' = doc /\ tokens' = tokens
    BY <1>5 DEF SkipWord
  <2>. QED BY <1>5, <2>1, SkipFollows, ThinKept
<1>6. CASE EndRow
  <2>1. pc # "new" /\ doc' = doc /\ tokens' = tokens
    BY <1>6 DEF EndRow
  <2>. QED BY <1>6, <2>1, EndFollows, ThinKept
<1>7. CASE Map
  <2>1. pc # "new" /\ doc' = doc /\ tokens' = tokens
    BY <1>7 DEF Map
  <2>. QED BY <1>7, <2>1, MapFollows, ThinKept
<1>8. CASE ReadTotals
  BY <1>8 DEF ReadTotals, ThinInv
<1>9. CASE UNCHANGED vars
  <2>1. /\ doc' = doc /\ tokens' = tokens /\ pos' = pos /\ anchor' = anchor
        /\ cells' = cells /\ rows' = rows /\ txs' = txs /\ pc' = pc
    BY <1>9 DEF vars, scan
  <2>2. CASE pc = "new"
    BY <2>1, <2>2 DEF ThinInv
  <2>3. CASE pc # "new"
    <3>1. ASSUME NEW g, Follows(g) PROVE Follows(g)'
      <4>1. OnlyWhole => OnlyWhole'
        BY <2>1 DEF OnlyWhole
      <4>2. ASSUME NEW k, NEW y, InRow(g, k, y) PROVE InRow(g, k, y)'
        BY <2>1, <4>2 DEF InRow
      <4>3. txs \subseteq RealTrades => txs' \subseteq RealTrades'
        BY <2>1 DEF RealTrades, RealRows, IsTable
      <4>. QED BY <2>1, <3>1, <4>1, <4>2, <4>3 DEF Follows
    <3>. QED BY <2>1, <2>3, <3>1, ThinKept
  <2>. QED BY <2>2, <2>3
<1>. QED BY <1>1, <1>2, <1>3, <1>4, <1>5, <1>6, <1>7, <1>8, <1>9 DEF Next

\* A table whose dates all arrive and tell its rows apart, with words behind it:
\* whatever else is lost of it or put into it, no trade is invented.
LossesInventNothing ==
    pc = "done" /\ IsTable(doc) /\ Dated(doc, tokens) => txs \subseteq RealTrades

\* Whichever numbers of a table are buried in text or pushed too far apart, every
\* trade returned is one the filing reports, as long as each row's date is read: the
\* numbers that are left of a row are never taken for the nine of a whole one.
THEOREM LossesOnlyLose ==
    ASSUME FilledForms
    PROVE  Spec => []LossesInventNothing
<1>1. Init => ThinInv
  BY DEF Init, ThinInv
<1>2. DkbInv /\ ThinInv /\ [Next]_vars => ThinInv'
  BY ThinInvStep
<1>3. ThinInv => LossesInventNothing
  <2>. SUFFICES ASSUME ThinInv, pc = "done", IsTable(doc), Dated(doc, tokens) PROVE txs \subseteq RealTrades
    BY DEF LossesInventNothing
  <2>1. Thinned(tokens, Base(doc)) /\ \A g \in [1..Len(tokens) -> Int] : Kept(g) => Follows(g)
    BY DEF ThinInv
  <2>2. PICK g \in [1..Len(tokens) -> Int] : Embeds(tokens, Base(doc), g)
    BY <2>1 DEF Thinned
  <2>3. Kept(g)
    BY <2>1, <2>2 DEF Kept, Thinned
  <2>4. Follows(g)
    BY <2>1, <2>3
  <2>. QED BY <2>4 DEF Follows
<1>4. Spec => []DkbInv
  BY DkbInvHolds
<1>. QED BY <1>1, <1>2, <1>3, <1>4, PTL DEF Spec
=============================================================================
