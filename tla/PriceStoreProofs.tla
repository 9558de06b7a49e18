-------------------------- MODULE PriceStoreProofs ---------------------------
(***************************************************************************)
(* For any tickers, days, prices, faults and overlap of the two loads:     *)
(* what the exchange's bulletin wrote is never handed back to yfinance;    *)
(* between two rows of one source without a seam the difference is the     *)
(* return; and a load heals what its batch dropped, but for what a refused *)
(* price undid.                                                            *)
(***************************************************************************)
EXTENDS PriceStore, FiniteSetTheorems, WellFoundedInduction, TLAPS

\* The loader stores rows of the bulletin and no others.
BatchOfficial == \A k \in DOMAIN loader.batch : loader.batch[k].official

LEMMA InitBatch == Init => BatchOfficial
BY DEF Init, BatchOfficial, NoRows

\* Only LoaderRead fills the batch.
LEMMA StepBatch == BatchOfficial /\ [Next]_vars => BatchOfficial'
<1> SUFFICES ASSUME BatchOfficial, [Next]_vars PROVE BatchOfficial'
    OBVIOUS
<1>1. ASSUME NEW from \in Starts, LoaderRead(from) PROVE BatchOfficial'
    BY <1>1 DEF LoaderRead, BatchOfficial
<1>2. CASE LoaderStore
    BY <1>2 DEF LoaderStore, BatchOfficial, NoRows
<1>3. CASE LoaderDies
    BY <1>3 DEF LoaderDies, BatchOfficial, NoRows
<1>4. CASE NextDay \/ (\E m \in Bulletin : Download(m))
    BY <1>4 DEF NextDay, Download, BatchOfficial
<1>5. CASE FetchStep \/ FetchDies
    BY <1>5 DEF FetchStep, FetchStart, FetchDownload, FetchUpsert, FetchCommit, FetchDies,
                BatchOfficial
<1>6. CASE UNCHANGED vars
    BY <1>6 DEF vars, BatchOfficial
<1> QED
    BY <1>1, <1>2, <1>3, <1>4, <1>5, <1>6 DEF Next, LoaderStep

-----------------------------------------------------------------------------

\* What holds of the rows an upsert brings and of those it leaves in place
\* holds of the table after it.
LEMMA OverwriteOfficial ==
    ASSUME NEW batch, NEW k \in DOMAIN rows, rows[k].official,
           k \in DOMAIN batch => batch[k].official
    PROVE  k \in DOMAIN Overwrite(batch) /\ Overwrite(batch)[k].official
BY DEF Overwrite

\* The WHERE of the yfinance upsert keeps it off the bulletin's rows.
LEMMA FetchedElsewhere ==
    ASSUME NEW k \in DOMAIN rows, rows[k].official
    PROVE  k \notin DOMAIN FetchedRows
BY DEF FetchedRows, MayReplace

\* A step leaves every official row in place, and official.
LEMMA StepOfficial ==
    ASSUME BatchOfficial, [Next]_vars, NEW k \in DOMAIN rows, rows[k].official
    PROVE  k \in DOMAIN rows' /\ rows'[k].official
<1>1. CASE LoaderStore
    <2>1. k \in DOMAIN loader.batch => loader.batch[k].official
        BY DEF BatchOfficial
    <2> QED
        BY <1>1, <2>1, OverwriteOfficial DEF LoaderStore
<1>2. CASE FetchCommit
    <2>1. k \notin DOMAIN FetchedRows
        BY FetchedElsewhere
    <2>2. rows' = rows \/ rows' = Overwrite(FetchedRows)
        BY <1>2 DEF FetchCommit
    <2> QED
        BY <2>1, <2>2, OverwriteOfficial
<1>3. CASE rows' = rows
    BY <1>3
<1> QED
    BY <1>1, <1>2, <1>3
    DEF Next, NextDay, Download, LoaderStep, LoaderRead, LoaderDies, FetchStep, FetchStart,
        FetchDownload, FetchUpsert, FetchDies, vars

\* A bulletin's row is never replaced by yfinance's or removed
\* (the WHERE of _fetch_batch's upsert, and the loader's own).
THEOREM BulletinIsAuthoritative == Spec => OfficialStays
<1>1. BatchOfficial /\ [Next]_vars
        => [\A k \in DOMAIN rows : rows[k].official => k \in DOMAIN rows' /\ rows'[k].official]_rows
    BY StepOfficial
<1> QED
    BY InitBatch, StepBatch, <1>1, PTL DEF Spec, OfficialStays

-----------------------------------------------------------------------------
(* Sums of returns *)

Gains(r, S) == [d \in S |-> r[d]]
Losses(r, S) == [d \in S |-> -r[d]]

LEMMA UnitsCount ==
    ASSUME NEW S, IsFiniteSet(S), NEW f, DOMAIN f = S, \A d \in S : f[d] \in Int
    PROVE  IsFiniteSet(Units(f)) /\ SumOf(f) \in Nat
<1>. DEFINE M == {{d} \X (1..f[d]) : d \in S}
<1>1. \A T \in M : IsFiniteSet(T)
  <2>1. SUFFICES ASSUME NEW d \in S PROVE IsFiniteSet({d} \X (1..f[d]))
    OBVIOUS
  <2>2. PICK n \in Int : n = f[d]
    OBVIOUS
  <2>3. IsFiniteSet(1..n)
    BY FS_Interval
  <2>4. IsFiniteSet({d})
    BY FS_Singleton
  <2>. QED BY <2>2, <2>3, <2>4, FS_Product
<1>2. IsFiniteSet(M)
  <2>1. M = {[d \in S |-> {d} \X (1..f[d])][x] : x \in S}
    OBVIOUS
  <2>. DEFINE g == [d \in S |-> {d} \X (1..f[d])]
  <2>2. g \in Surjection(S, M)
    BY DEF Surjection
  <2>. HIDE DEF g, M
  <2>. QED BY <2>2, FS_Surjection
<1>3. Units(f) = UNION M
  BY DEF Units
<1>. HIDE DEF M
<1>4. IsFiniteSet(UNION M)
  BY <1>1, <1>2, FS_UNION
<1>. QED BY <1>3, <1>4, FS_CardinalityType DEF SumOf

\* Counters over two sets apart are added up one set after the other.
LEMMA UnitsAdd ==
    ASSUME NEW A, IsFiniteSet(A), NEW B, IsFiniteSet(B), A \cap B = {},
           NEW C, C = A \cup B, NEW f \in [C -> Int], NEW g \in [A -> Int], NEW h \in [B -> Int],
           \A d \in A : g[d] = f[d], \A d \in B : h[d] = f[d]
    PROVE  SumOf(f) = SumOf(g) + SumOf(h) /\ SumOf(g) \in Nat /\ SumOf(h) \in Nat
<1>1. \A d \in A : {d} \X (1..f[d]) = {d} \X (1..g[d])
  OBVIOUS
<1>2. \A d \in B : {d} \X (1..f[d]) = {d} \X (1..h[d])
  OBVIOUS
<1>3. Units(f) = Units(g) \cup Units(h)
  BY <1>1, <1>2 DEF Units
<1>4. Units(g) \cap Units(h) = {}
  <2>1. SUFFICES ASSUME NEW u \in Units(g), u \in Units(h) PROVE FALSE
    OBVIOUS
  <2>2. u[1] \in A /\ u[1] \in B
    BY <2>1 DEF Units
  <2>. QED BY <2>2
<1>5. IsFiniteSet(Units(g)) /\ SumOf(g) \in Nat /\ IsFiniteSet(Units(h)) /\ SumOf(h) \in Nat
  <2>1. (\A d \in A : g[d] \in Int) /\ (\A d \in B : h[d] \in Int)
    OBVIOUS
  <2>. QED BY <2>1, UnitsCount
<1>6. Cardinality(Units(g) \cup Units(h)) = Cardinality(Units(g)) + Cardinality(Units(h)) - Cardinality({})
  BY <1>4, <1>5, FS_Union
<1>7. Cardinality({}) = 0
  BY FS_EmptySet
<1>. QED BY <1>3, <1>5, <1>6, <1>7 DEF SumOf

LEMMA TotalSplits ==
    ASSUME NEW A, IsFiniteSet(A), NEW B, IsFiniteSet(B), A \cap B = {},
           NEW r, \A d \in A \cup B : r[d] \in Int
    PROVE  /\ Total(r, A \cup B) = Total(r, A) + Total(r, B)
           /\ Total(r, A) \in Int /\ Total(r, B) \in Int
<1>1. /\ SumOf(Gains(r, A \cup B)) = SumOf(Gains(r, A)) + SumOf(Gains(r, B))
      /\ SumOf(Gains(r, A)) \in Nat /\ SumOf(Gains(r, B)) \in Nat
  <2>. DEFINE C == A \cup B
              f == Gains(r, C)
              g == Gains(r, A)
              h == Gains(r, B)
  <2>1. /\ C = A \cup B /\ f \in [C -> Int] /\ g \in [A -> Int] /\ h \in [B -> Int]
        /\ \A d \in A : g[d] = f[d]
        /\ \A d \in B : h[d] = f[d]
    BY DEF Gains
  <2>. HIDE DEF C, f, g, h
  <2>2. SumOf(f) = SumOf(g) + SumOf(h) /\ SumOf(g) \in Nat /\ SumOf(h) \in Nat
    BY <2>1, UnitsAdd
  <2>. QED BY <2>2 DEF C, f, g, h
<1>2. /\ SumOf(Losses(r, A \cup B)) = SumOf(Losses(r, A)) + SumOf(Losses(r, B))
      /\ SumOf(Losses(r, A)) \in Nat /\ SumOf(Losses(r, B)) \in Nat
  <2>. DEFINE C == A \cup B
              f == Losses(r, C)
              g == Losses(r, A)
              h == Losses(r, B)
  <2>1. /\ C = A \cup B /\ f \in [C -> Int] /\ g \in [A -> Int] /\ h \in [B -> Int]
        /\ \A d \in A : g[d] = f[d]
        /\ \A d \in B : h[d] = f[d]
    BY DEF Losses
  <2>. HIDE DEF C, f, g, h
  <2>2. SumOf(f) = SumOf(g) + SumOf(h) /\ SumOf(g) \in Nat /\ SumOf(h) \in Nat
    BY <2>1, UnitsAdd
  <2>. QED BY <2>2 DEF C, f, g, h
<1>3. \A S : Total(r, S) = SumOf(Gains(r, S)) - SumOf(Losses(r, S))
  BY DEF Total, Gains, Losses
<1>. QED BY <1>1, <1>2, <1>3

\* Returns that agree have one total.
LEMMA TotalAgrees ==
    ASSUME NEW S, NEW r, NEW q, \A d \in S : r[d] = q[d]
    PROVE  Total(r, S) = Total(q, S)
<1>1. [d \in S |-> r[d]] = [d \in S |-> q[d]] /\ [d \in S |-> -r[d]] = [d \in S |-> -q[d]]
  OBVIOUS
<1>. QED BY <1>1, Zenon DEF Total

\* Day after day.
LEMMA TotalOfDays ==
    ASSUME NEW a \in Nat, NEW b \in Nat, NEW c \in Nat, a <= b, b <= c,
           NEW r, \A d \in (a + 1)..c : r[d] \in Int
    PROVE  /\ Total(r, (a + 1)..c) = Total(r, (a + 1)..b) + Total(r, (b + 1)..c)
           /\ Total(r, (a + 1)..b) \in Int /\ Total(r, (b + 1)..c) \in Int
<1>. DEFINE A == (a + 1)..b
            B == (b + 1)..c
<1>1. IsFiniteSet(A) /\ IsFiniteSet(B)
  <2>1. PICK x \in Int, y \in Int : x = a + 1 /\ y = b + 1
    OBVIOUS
  <2>2. IsFiniteSet(x..b) /\ IsFiniteSet(y..c)
    BY FS_Interval
  <2>. QED BY <2>1, <2>2
<1>2. A \cap B = {} /\ A \cup B = (a + 1)..c
  OBVIOUS
<1>3. \A d \in A \cup B : r[d] \in Int
  BY <1>2
<1>. HIDE DEF A, B
<1>4. /\ Total(r, A \cup B) = Total(r, A) + Total(r, B)
      /\ Total(r, A) \in Int /\ Total(r, B) \in Int
  BY <1>1, <1>2, <1>3, TotalSplits
<1>. QED BY <1>2, <1>4 DEF A, B

-----------------------------------------------------------------------------
(* The first and the last of some days *)

LEMMA DaysAreNumbers ==
    /\ LastDay \in Nat /\ 1 \in Day /\ \A d \in Day : d \in Nat /\ 1 <= d /\ d <= LastDay
    /\ \A d \in Nat : 1 <= d /\ d <= LastDay => d \in Day
BY DaysAssumption DEF DaysAssumption, Day

LEMMA FirstDay ==
    ASSUME NEW S, S \subseteq Day, S # {}
    PROVE  Min(S) \in S /\ \A d \in S : Min(S) <= d
<1>1. IsWellFoundedOn(OpToRel(<, Nat), Nat) /\ S \subseteq Nat
  BY NatLessThanWellFounded, DaysAreNumbers
<1>2. PICK x \in S : \A y \in S : ~(<<y, x>> \in OpToRel(<, Nat))
  BY <1>1, WFMin, Zenon
<1>3. ASSUME NEW y \in S PROVE x <= y
  <2>1. y < x => <<y, x>> \in OpToRel(<, Nat)
    <3>1. <<y, x>>[1] = y /\ <<y, x>>[2] = x /\ <<y, x>> \in Nat \X Nat
      BY <1>1
    <3>. QED BY <3>1, Zenon DEF OpToRel
  <2>2. ~(y < x)
    BY <1>2, <2>1, Zenon
  <2>3. x \in Nat /\ y \in Nat
    BY <1>1
  <2>. QED BY <2>2, <2>3
<1>. QED BY <1>3 DEF Min

\* The last is the first, counted backwards.
LEMMA LatestDay ==
    ASSUME NEW S, S \subseteq Day, S # {}
    PROVE  Max(S) \in S /\ \A d \in S : d <= Max(S)
<1>. DEFINE T == {LastDay + 1 - d : d \in S}
<1>1. T \subseteq Day /\ T # {}
  BY DaysAreNumbers
<1>2. Min(T) \in T /\ \A t \in T : Min(T) <= t
  <2>. HIDE DEF T
  <2>. QED BY <1>1, FirstDay
<1>3. PICK m \in S : Min(T) = LastDay + 1 - m
  BY <1>2
<1>4. ASSUME NEW d \in S PROVE d <= m
  <2>1. LastDay + 1 - d \in T
    OBVIOUS
  <2>2. LastDay + 1 - m <= LastDay + 1 - d
    <3>. HIDE DEF T
    <3>. QED BY <1>2, <1>3, <2>1
  <2>. QED BY <2>2, DaysAreNumbers
<1>. QED BY <1>4 DEF Max

-----------------------------------------------------------------------------
(* Two rows without a seam between them are on one scale *)

\* The exchange's limits keep every return inside the loader's guard.
GuardIsWide == \A t \in Ticker : \A d \in Day : -MaxRatio <= Ret[t][d] /\ Ret[t][d] <= MaxRatio

RowOf(official, t, d) == <<t, d>> \in DOMAIN rows /\ rows[<<t, d>>].official = official

\* A day's row on the scale of a chain that starts on day x, or of x's close.
Chained(t, x, d) == rows[<<t, d>>].close = Level(t, x, d)
Backward(t, x, d) == rows[<<t, d>>].close = Adjusted(t, d, x)

OfficialPairs ==
    \A t \in Ticker, d, e \in Day :
        d < e /\ RowOf(TRUE, t, d) /\ RowOf(TRUE, t, e) /\ ~Seam(TRUE, t, d, e)
            => \E x \in Day : x <= d /\ Chained(t, x, d) /\ Chained(t, x, e)

FetchedPairs ==
    \A t \in Ticker, d, e \in Day :
        d < e /\ RowOf(FALSE, t, d) /\ RowOf(FALSE, t, e) /\ ~Seam(FALSE, t, d, e)
            => \E x \in Day : e <= x /\ Backward(t, x, d) /\ Backward(t, x, e)

\* Rows are of days, the bulletin's of bulletins there are.
RowsShaped ==
    \A k \in DOMAIN rows :
        /\ k \in Key /\ rows[k].official \in BOOLEAN
        /\ rows[k].official => k[1] \in Listed /\ Month[k[2]] \in archive
        /\ ~rows[k].official => k[2] <= today

\* What the loader has read starts on one day and takes all official rows from there on.
LoaderShaped ==
    DOMAIN loader.batch = {} \/
        \E days \in SUBSET Day : \E m \in days :
            /\ \A d \in days : m <= d /\ Month[d] \in archive
            /\ loader.batch = [k \in Listed \X days |->
                                  [close |-> Level(k[1], m, k[2]), official |-> TRUE]]
            /\ \A k \in DOMAIN rows : rows[k].official /\ m <= k[2] => k[2] \in days

\* What a download asks for is a range that ends no earlier than what is stored.
FetchShaped ==
    /\ DOMAIN fetch = DOMAIN NoFetch
    /\ fetch.data \subseteq Ticker /\ fetch.held \subseteq Ticker
    /\ fetch.pc # "idle" =>
        \E low \in Int, high \in Nat :
            /\ high <= today /\ fetch.days = Day \cap low..high
            /\ \A k \in DOMAIN rows : ~rows[k].official => k[2] <= high

SeamsShaped == seams \subseteq [official : BOOLEAN, ticker : Ticker, day : Day]

ScaleInv ==
    /\ today \in Nat
    /\ RowsShaped /\ LoaderShaped /\ FetchShaped /\ SeamsShaped
    /\ OfficialPairs /\ FetchedPairs

LEMMA ScaleStart == Init => ScaleInv
<1>. SUFFICES ASSUME Init PROVE ScaleInv
  OBVIOUS
<1>1. DOMAIN rows = {} /\ DOMAIN loader.batch = {} /\ seams = {} /\ today \in Nat
  BY DEF Init, NoRows
<1>2. FetchShaped
  BY DEF Init, FetchShaped, NoFetch
<1>3. RowsShaped /\ LoaderShaped /\ SeamsShaped
  BY <1>1 DEF RowsShaped, LoaderShaped, SeamsShaped
<1>4. OfficialPairs /\ FetchedPairs
  BY <1>1 DEF OfficialPairs, FetchedPairs, RowOf
<1>. QED BY <1>1, <1>2, <1>3, <1>4 DEF ScaleInv

\* Pairs of rows that stay, with the seams that were between them.
LEMMA PairsStay ==
    ASSUME DOMAIN rows' = DOMAIN rows, \A k \in DOMAIN rows : rows'[k] = rows[k], seams' = seams,
           OfficialPairs, FetchedPairs
    PROVE  OfficialPairs' /\ FetchedPairs'
<1>1. \A o, t, d : RowOf(o, t, d)' => RowOf(o, t, d) /\ rows'[<<t, d>>] = rows[<<t, d>>]
  BY DEF RowOf
<1>2. \A o, t, d, e : Seam(o, t, d, e)' <=> Seam(o, t, d, e)
  BY DEF Seam
<1>3. OfficialPairs'
  <2>1. SUFFICES ASSUME NEW t \in Ticker, NEW d \in Day, NEW e \in Day, d < e,
                        RowOf(TRUE, t, d)', RowOf(TRUE, t, e)', ~Seam(TRUE, t, d, e)'
                 PROVE  \E x \in Day : x <= d /\ Chained(t, x, d)' /\ Chained(t, x, e)'
    BY DEF OfficialPairs
  <2>2. PICK x \in Day : x <= d /\ Chained(t, x, d) /\ Chained(t, x, e)
    BY <1>1, <1>2, <2>1 DEF OfficialPairs
  <2>. QED BY <1>1, <2>1, <2>2 DEF Chained
<1>4. FetchedPairs'
  <2>1. SUFFICES ASSUME NEW t \in Ticker, NEW d \in Day, NEW e \in Day, d < e,
                        RowOf(FALSE, t, d)', RowOf(FALSE, t, e)', ~Seam(FALSE, t, d, e)'
                 PROVE  \E x \in Day : e <= x /\ Backward(t, x, d)' /\ Backward(t, x, e)'
    BY DEF FetchedPairs
  <2>2. PICK x \in Day : e <= x /\ Backward(t, x, d) /\ Backward(t, x, e)
    BY <1>1, <1>2, <2>1 DEF FetchedPairs
  <2>. QED BY <1>1, <2>1, <2>2 DEF Backward
<1>. QED BY <1>3, <1>4

\* Seams a load's rows do not reach back to stay.
LEMMA SeamsStay ==
    ASSUME SeamsShaped, NEW keys, keys \subseteq Key, NEW official, NEW o, NEW t, NEW d, NEW e \in Day,
           Seam(o, t, d, e), seams' = SeamsAfter(keys, official),
           o # official \/ \A k \in keys : k[1] = t => e < k[2]
    PROVE  Seam(o, t, d, e)'
<1>1. PICK s \in seams : s.official = o /\ s.ticker = t /\ s.day \in (d + 1)..e
  BY DEF Seam
<1>. DEFINE first == {k \in keys : \A l \in keys : l[1] = k[1] => k[2] <= l[2]}
<1>2. \A k \in first : ~(s.official = official /\ s.ticker = k[1] /\ k[2] <= s.day)
  <2>1. s.day \in Day /\ s.day <= e
    BY <1>1 DEF SeamsShaped
  <2>. QED BY <1>1, <2>1, DaysAreNumbers DEF Key
<1>3. s \in seams'
  BY <1>2 DEF SeamsAfter
<1>. QED BY <1>1, <1>3 DEF Seam

\* And its first row makes one.
LEMMA SeamMade ==
    ASSUME NEW keys, keys \subseteq Key, NEW official, NEW t, NEW m \in Day, NEW d \in Day, NEW e \in Day,
           <<t, m>> \in keys, \A k \in keys : k[1] = t => m <= k[2], d < m, m <= e,
           seams' = SeamsAfter(keys, official)
    PROVE  Seam(official, t, d, e)'
<1>1. [official |-> official, ticker |-> t, day |-> m] \in seams'
  <2>. DEFINE first == {k \in keys : \A l \in keys : l[1] = k[1] => k[2] <= l[2]}
  <2>1. <<t, m>> \in first
    OBVIOUS
  <2>2. [official |-> official, ticker |-> <<t, m>>[1], day |-> <<t, m>>[2]]
            \in {[official |-> official, ticker |-> k[1], day |-> k[2]] : k \in first}
    BY <2>1
  <2>. QED BY <2>2 DEF SeamsAfter
<1>2. m \in (d + 1)..e
  BY DaysAreNumbers
<1>. QED BY <1>1, <1>2 DEF Seam

LEMMA SeamsTyped ==
    ASSUME SeamsShaped, NEW keys, keys \subseteq Key, NEW official \in BOOLEAN,
           seams' = SeamsAfter(keys, official)
    PROVE  SeamsShaped'
BY DEF SeamsShaped, SeamsAfter, Key

\* The loader reads from one day on all there is.
LEMMA ReadScale ==
    ASSUME ScaleInv, NEW from \in Starts, LoaderRead(from)
    PROVE  ScaleInv'
<1>. DEFINE days == {d \in Day : Month[d] \in archive /\ Month[d] >= from}
<1>1. /\ days # {} /\ UNCHANGED <<today, archive, rows, fetch, seams>>
      /\ loader' = [pc |-> "store",
                     batch |-> [k \in Listed \X days |-> [close |-> Level(k[1], Min(days), k[2]), official |-> TRUE]]]
  BY DEF LoaderRead
<1>2. Min(days) \in days /\ \A d \in days : Min(days) <= d
  <2>. HIDE DEF days
  <2>1. days \subseteq Day
    BY DEF days
  <2>. QED BY <1>1, <2>1, FirstDay
<1>3. ASSUME NEW k \in DOMAIN rows, rows[k].official, Min(days) <= k[2] PROVE k[2] \in days
  <2>1. k[2] \in Day /\ Month[k[2]] \in archive
    BY <1>3 DEF ScaleInv, RowsShaped, Key
  <2>2. PICK m \in Day : m = Min(days) /\ Month[m] >= from
    BY <1>2
  <2>3. Month[m] <= Month[k[2]] /\ Month[m] \in Nat /\ Month[k[2]] \in Nat /\ from \in Nat
    BY <1>3, <2>1, <2>2, MonthAssumption, LoadAssumption DEF MonthAssumption, LoadAssumption
  <2>. QED BY <2>1, <2>2, <2>3
<1>4. LoaderShaped'
  <2>1. loader'.batch = [k \in Listed \X days |-> [close |-> Level(k[1], Min(days), k[2]), official |-> TRUE]]
    BY <1>1
  <2>2. days \in SUBSET Day /\ \A d \in days : Month[d] \in archive
    OBVIOUS
  <2>. DEFINE m == Min(days)
  <2>3. m \in days /\ \A d \in days : m <= d
    BY <1>2
  <2>4. \A k \in DOMAIN rows : rows[k].official /\ m <= k[2] => k[2] \in days
    BY <1>3
  <2>5. loader'.batch = [k \in Listed \X days |-> [close |-> Level(k[1], m, k[2]), official |-> TRUE]]
    BY <2>1
  <2>. HIDE DEF days, m
  <2>. QED BY <1>1, <2>2, <2>3, <2>4, <2>5 DEF LoaderShaped
<1>. HIDE DEF days
<1>. QED BY <1>1, <1>4, PairsStay DEF ScaleInv, RowsShaped, FetchShaped, SeamsShaped

\* Storing it puts the bulletin's rows from there on on one scale, and gives
\* yfinance none.
LEMMA StoreScale == ASSUME ScaleInv, LoaderStore PROVE ScaleInv'
<1>. DEFINE batch == loader.batch
<1>1. /\ UNCHANGED <<today, archive, fetch>> /\ DOMAIN loader'.batch = {}
      /\ seams' = SeamsAfter(DOMAIN batch, TRUE)
      /\ DOMAIN rows' = DOMAIN batch \cup DOMAIN rows
      /\ \A k \in DOMAIN rows' : rows'[k] = IF k \in DOMAIN batch THEN batch[k] ELSE rows[k]
  BY DEF LoaderStore, NoRows, Overwrite
<1>2. CASE DOMAIN batch = {}
  <2>1. /\ DOMAIN rows' = DOMAIN rows /\ \A k \in DOMAIN rows : rows'[k] = rows[k]
    BY <1>1, <1>2
  <2>2. seams' = seams
    BY <1>1, <1>2 DEF SeamsAfter
  <2>3. OfficialPairs' /\ FetchedPairs'
    BY <2>1, <2>2, PairsStay DEF ScaleInv
  <2>. HIDE DEF batch
  <2>. QED BY <1>1, <2>1, <2>2, <2>3 DEF ScaleInv, RowsShaped, LoaderShaped, FetchShaped, SeamsShaped
<1>3. CASE DOMAIN batch # {}
  <2>1. PICK days \in SUBSET Day, m \in Day :
            /\ m \in days
            /\ \A d \in days : m <= d /\ Month[d] \in archive
            /\ batch = [k \in Listed \X days |-> [close |-> Level(k[1], m, k[2]), official |-> TRUE]]
            /\ \A k \in DOMAIN rows : rows[k].official /\ m <= k[2] => k[2] \in days
    BY <1>3 DEF ScaleInv, LoaderShaped
  <2>2. /\ DOMAIN batch = Listed \X days /\ DOMAIN batch \subseteq Key
        /\ \A k \in DOMAIN batch : batch[k].close = Level(k[1], m, k[2]) /\ batch[k].official = TRUE
    BY <2>1, TickerAssumption DEF TickerAssumption, Key
  <2>. HIDE DEF batch
  <2>3. \A k \in DOMAIN rows' : ~rows'[k].official => k \in DOMAIN rows /\ k \notin DOMAIN batch /\ rows'[k] = rows[k]
    BY <1>1, <2>2
  <2>4. RowsShaped'
    <3>1. ASSUME NEW k \in DOMAIN batch
          PROVE  k \in Key /\ rows'[k].official = TRUE /\ k[1] \in Listed /\ Month[k[2]] \in archive
      BY <1>1, <2>1, <2>2
    <3>. QED BY <1>1, <3>1 DEF ScaleInv, RowsShaped
  <2>5. FetchShaped'
    BY <1>1, <2>3 DEF ScaleInv, FetchShaped
  <2>6. SeamsShaped'
    BY <1>1, <2>2, SeamsTyped DEF ScaleInv
  <2>7. FetchedPairs'
    <3>1. SUFFICES ASSUME NEW t \in Ticker, NEW d \in Day, NEW e \in Day, d < e,
                          RowOf(FALSE, t, d)', RowOf(FALSE, t, e)', ~Seam(FALSE, t, d, e)'
                   PROVE  \E x \in Day : e <= x /\ Backward(t, x, d)' /\ Backward(t, x, e)'
      BY DEF FetchedPairs
    <3>2. /\ RowOf(FALSE, t, d) /\ RowOf(FALSE, t, e)
          /\ rows'[<<t, d>>] = rows[<<t, d>>] /\ rows'[<<t, e>>] = rows[<<t, e>>]
      BY <2>3, <3>1 DEF RowOf
    <3>3. ~Seam(FALSE, t, d, e)
      BY <1>1, <2>2, <3>1, SeamsStay DEF ScaleInv
    <3>4. PICK x \in Day : e <= x /\ Backward(t, x, d) /\ Backward(t, x, e)
      BY <3>1, <3>2, <3>3 DEF ScaleInv, FetchedPairs
    <3>. QED BY <3>2, <3>4 DEF Backward
  <2>8. OfficialPairs'
    <3>1. SUFFICES ASSUME NEW t \in Ticker, NEW d \in Day, NEW e \in Day, d < e,
                          RowOf(TRUE, t, d)', RowOf(TRUE, t, e)', ~Seam(TRUE, t, d, e)'
                   PROVE  \E x \in Day : x <= d /\ Chained(t, x, d)' /\ Chained(t, x, e)'
      BY DEF OfficialPairs
    <3>2. t \in Listed /\ m \in Day /\ m \in Nat /\ d \in Nat /\ e \in Nat
      BY <2>4, <3>1, DaysAreNumbers DEF RowsShaped, RowOf
    <3>3. CASE m <= d
      <4>1. ASSUME NEW y \in Day, m <= y, RowOf(TRUE, t, y)' PROVE Chained(t, m, y)'
        <5>1. <<t, y>> \in DOMAIN batch
          <6>1. CASE <<t, y>> \in DOMAIN rows /\ <<t, y>> \notin DOMAIN batch
            <7>1. rows[<<t, y>>].official /\ <<t, y>>[2] = y
              BY <1>1, <4>1, <6>1 DEF RowOf
            <7>2. y \in days
              BY <2>1, <4>1, <6>1, <7>1
            <7>. QED BY <2>2, <3>2, <7>2
          <6>. QED BY <1>1, <4>1, <6>1 DEF RowOf
        <5>. QED BY <1>1, <2>2, <5>1 DEF Chained
      <4>2. m <= e
        BY <3>1, <3>2, <3>3
      <4>3. Chained(t, m, d)' /\ Chained(t, m, e)'
        BY <3>1, <3>3, <4>1, <4>2
      <4>. QED BY <3>2, <3>3, <4>3
    <3>4. CASE d < m /\ m <= e
      <4>1. <<t, m>> \in DOMAIN batch /\ \A k \in DOMAIN batch : k[1] = t => m <= k[2]
        BY <2>1, <2>2, <3>2
      <4>. QED BY <1>1, <2>2, <3>1, <3>2, <3>4, <4>1, SeamMade
    <3>5. CASE e < m
      <4>1. ASSUME NEW y \in Day, y < m, RowOf(TRUE, t, y)' PROVE RowOf(TRUE, t, y) /\ rows'[<<t, y>>] = rows[<<t, y>>]
        <5>1. y \notin days
          BY <2>1, <3>2, <4>1, DaysAreNumbers
        <5>. QED BY <1>1, <2>2, <4>1, <5>1 DEF RowOf
      <4>2. ASSUME NEW k \in DOMAIN batch PROVE e < k[2]
        <5>1. k[2] \in days /\ k[2] \in Day
          BY <2>2
        <5>2. m <= k[2] /\ k[2] \in Nat
          BY <2>1, <5>1, DaysAreNumbers
        <5>. QED BY <3>2, <3>5, <5>2
      <4>3. ~Seam(TRUE, t, d, e)
        BY <1>1, <2>2, <3>1, <4>2, SeamsStay DEF ScaleInv
      <4>4. d < m
        BY <3>1, <3>2, <3>5
      <4>5. PICK x \in Day : x <= d /\ Chained(t, x, d) /\ Chained(t, x, e)
        BY <3>1, <3>5, <4>1, <4>3, <4>4 DEF ScaleInv, OfficialPairs
      <4>. QED BY <3>1, <3>5, <4>1, <4>4, <4>5 DEF Chained
    <3>. QED BY <3>2, <3>3, <3>4, <3>5
  <2>9. LoaderShaped'
    BY <1>1 DEF LoaderShaped
  <2>. QED BY <1>1, <2>4, <2>5, <2>6, <2>7, <2>8, <2>9 DEF ScaleInv
<1>. QED BY <1>2, <1>3

\* A download asks for days up to today.
LEMMA AskScale ==
    ASSUME ScaleInv, NEW back \in Backs, FetchStart(back)
    PROVE  ScaleInv'
<1>1. /\ UNCHANGED <<today, archive, rows, loader, seams>> /\ DOMAIN fetch' = DOMAIN NoFetch
      /\ fetch'.days = Day \cap (today - back)..today /\ fetch'.data = {} /\ fetch'.held = {}
  BY DEF FetchStart, NoFetch, Asked
<1>2. today \in Nat /\ today - back \in Int
  BY LoadAssumption DEF LoadAssumption, ScaleInv
<1>3. \A k \in DOMAIN rows : ~rows[k].official => k[2] <= today
  BY DEF ScaleInv, RowsShaped
<1>4. FetchShaped'
  <2>. DEFINE low == today - back
  <2>1. low \in Int /\ fetch'.days = Day \cap low..today /\ today <= today
    BY <1>1, <1>2
  <2>. HIDE DEF low
  <2>. QED BY <1>1, <1>2, <1>3, <2>1 DEF FetchShaped
<1>. QED BY <1>1, <1>4, PairsStay DEF ScaleInv, RowsShaped, LoaderShaped, SeamsShaped

\* What a download stores of a ticker replaces all that it stored before from
\* its first row on.
LEMMA CommitScale == ASSUME ScaleInv, FetchCommit PROVE ScaleInv'
<1>1. /\ fetch.pc # "idle" /\ UNCHANGED <<today, archive, loader>>
      /\ rows' = IF fetch.failed THEN rows ELSE Overwrite(FetchedRows)
      /\ seams' = IF fetch.failed THEN seams ELSE SeamsAfter(DOMAIN FetchedRows, FALSE)
  BY DEF FetchCommit
<1>2. PICK low \in Int, high \in Nat :
        /\ high <= today /\ fetch.days = Day \cap low..high
        /\ \A k \in DOMAIN rows : ~rows[k].official => k[2] <= high
  BY <1>1 DEF ScaleInv, FetchShaped
<1>3. /\ DOMAIN fetch' = DOMAIN NoFetch /\ fetch'.data \subseteq Ticker /\ fetch'.held \subseteq Ticker
      /\ fetch'.pc # "idle" => fetch'.days = fetch.days
  BY DEF FetchCommit, NoFetch, ScaleInv, FetchShaped
<1>4. CASE fetch.failed
  <2>1. rows' = rows /\ seams' = seams
    BY <1>1, <1>4
  <2>2. FetchShaped'
    BY <1>1, <1>2, <1>3, <2>1 DEF FetchShaped
  <2>. QED BY <1>1, <2>1, <2>2, PairsStay DEF ScaleInv, RowsShaped, LoaderShaped, SeamsShaped
<1>5. CASE ~fetch.failed
  <2>. DEFINE new == FetchedRows
  <2>1. PICK x : x = Max(fetch.days \cap Day)
    OBVIOUS
  <2>2. /\ DOMAIN rows' = DOMAIN new \cup DOMAIN rows
        /\ \A k \in DOMAIN rows' : rows'[k] = IF k \in DOMAIN new THEN new[k] ELSE rows[k]
        /\ seams' = SeamsAfter(DOMAIN new, FALSE)
    BY <1>1, <1>5 DEF Overwrite
  <2>3. /\ DOMAIN new = {k \in fetch.held \X fetch.days : MayReplace(k)}
        /\ \A k \in DOMAIN new : new[k].close = Adjusted(k[1], k[2], x) /\ new[k].official = FALSE
    BY <2>1 DEF FetchedRows
  <2>4. DOMAIN new \subseteq Key /\ \A k \in DOMAIN new : k[2] \in fetch.days /\ k[2] <= high
    BY <1>2, <2>3, DaysAreNumbers DEF Key, ScaleInv, FetchShaped
  <2>5. \A d \in fetch.days : x \in Day /\ d <= x
    <3>1. SUFFICES ASSUME fetch.days # {} PROVE x \in Day /\ \A d \in fetch.days : d <= x
      OBVIOUS
    <3>2. fetch.days \cap Day = fetch.days /\ fetch.days \subseteq Day
      BY <1>2
    <3>. QED BY <2>1, <3>1, <3>2, LatestDay
  <2>6. \A k \in DOMAIN rows' : rows'[k].official => k \in DOMAIN rows /\ rows'[k] = rows[k]
    BY <2>2, <2>3
  \* A row yfinance may replace, in the range asked for, it replaces.
  <2>7. ASSUME NEW t \in fetch.held, NEW y \in fetch.days, <<t, y>> \in DOMAIN rows, ~rows[<<t, y>>].official
        PROVE  <<t, y>> \in DOMAIN new
    <3>1. MayReplace(<<t, y>>) /\ <<t, y>> \in fetch.held \X fetch.days
      BY <2>7 DEF MayReplace
    <3>. QED BY <2>3, <3>1
  <2>. HIDE DEF new
  <2>8. RowsShaped'
    <3>1. ASSUME NEW k \in DOMAIN new PROVE k \in Key /\ rows'[k].official = FALSE /\ k[2] <= today
      BY <1>2, <2>2, <2>3, <2>4, DaysAreNumbers DEF ScaleInv, Key
    <3>2. ASSUME NEW k \in DOMAIN rows, k \notin DOMAIN new PROVE rows'[k] = rows[k]
      BY <2>2, <3>2
    <3>. QED BY <1>1, <2>2, <3>1, <3>2 DEF ScaleInv, RowsShaped
  <2>9. FetchShaped'
    <3>1. \A k \in DOMAIN rows' : ~rows'[k].official => k[2] <= high
      BY <1>2, <2>2, <2>4
    <3>. QED BY <1>1, <1>2, <1>3, <3>1 DEF FetchShaped
  <2>10. SeamsShaped'
    BY <2>2, <2>4, SeamsTyped DEF ScaleInv
  <2>11. LoaderShaped'
    BY <1>1, <2>6 DEF ScaleInv, LoaderShaped
  <2>12. OfficialPairs'
    <3>1. SUFFICES ASSUME NEW t \in Ticker, NEW d \in Day, NEW e \in Day, d < e,
                          RowOf(TRUE, t, d)', RowOf(TRUE, t, e)', ~Seam(TRUE, t, d, e)'
                   PROVE  \E y \in Day : y <= d /\ Chained(t, y, d)' /\ Chained(t, y, e)'
      BY DEF OfficialPairs
    <3>2. /\ RowOf(TRUE, t, d) /\ RowOf(TRUE, t, e)
          /\ rows'[<<t, d>>] = rows[<<t, d>>] /\ rows'[<<t, e>>] = rows[<<t, e>>]
      BY <2>6, <3>1 DEF RowOf
    <3>3. ~Seam(TRUE, t, d, e)
      BY <2>2, <2>4, <3>1, SeamsStay DEF ScaleInv
    <3>4. PICK y \in Day : y <= d /\ Chained(t, y, d) /\ Chained(t, y, e)
      BY <3>1, <3>2, <3>3 DEF ScaleInv, OfficialPairs
    <3>. QED BY <3>2, <3>4 DEF Chained
  <2>13. FetchedPairs'
    <3>1. SUFFICES ASSUME NEW t \in Ticker, NEW d \in Day, NEW e \in Day, d < e,
                          RowOf(FALSE, t, d)', RowOf(FALSE, t, e)', ~Seam(FALSE, t, d, e)'
                   PROVE  \E y \in Day : e <= y /\ Backward(t, y, d)' /\ Backward(t, y, e)'
      BY DEF FetchedPairs
    <3>. DEFINE mine == {y \in Day : <<t, y>> \in DOMAIN new}
    <3>2. CASE \A k \in DOMAIN new : k[1] = t => e < k[2]
      <4>1. \A y \in Day : y <= e => <<t, y>> \notin DOMAIN new
        BY <3>2, DaysAreNumbers
      <4>2. d <= e /\ e <= e
        BY <3>1, DaysAreNumbers
      <4>3. /\ RowOf(FALSE, t, d) /\ RowOf(FALSE, t, e)
            /\ rows'[<<t, d>>] = rows[<<t, d>>] /\ rows'[<<t, e>>] = rows[<<t, e>>]
        BY <2>2, <3>1, <4>1, <4>2 DEF RowOf
      <4>4. ~Seam(FALSE, t, d, e)
        BY <2>2, <2>4, <3>1, <3>2, SeamsStay DEF ScaleInv
      <4>5. PICK y \in Day : e <= y /\ Backward(t, y, d) /\ Backward(t, y, e)
        BY <3>1, <4>3, <4>4 DEF ScaleInv, FetchedPairs
      <4>. QED BY <4>3, <4>5 DEF Backward
    <3>3. CASE ~\A k \in DOMAIN new : k[1] = t => e < k[2]
      <4>1. PICK y \in Day : <<t, y>> \in DOMAIN new /\ y <= e
        BY <2>4, <3>3, DaysAreNumbers DEF Key
      <4>2. Min(mine) \in mine /\ \A z \in mine : Min(mine) <= z
        <5>1. mine \subseteq Day /\ mine # {}
          BY <4>1
        <5>. HIDE DEF mine
        <5>. QED BY <5>1, FirstDay
      <4>3. PICK m \in Day : <<t, m>> \in DOMAIN new /\ m <= e /\ \A k \in DOMAIN new : k[1] = t => m <= k[2]
        <5>1. PICK m \in mine : \A z \in mine : m <= z
          BY <4>2
        <5>2. m <= e
          BY <4>1, <5>1, DaysAreNumbers
        <5>3. \A k \in DOMAIN new : k[1] = t => k[2] \in mine
          BY <2>4 DEF Key
        <5>. QED BY <5>1, <5>2, <5>3
      <4>4. m <= d
        <5>1. ~(d < m)
          BY <2>2, <2>4, <3>1, <4>3, SeamMade
        <5>. QED BY <5>1, DaysAreNumbers
      <4>5. t \in fetch.held /\ m \in fetch.days
        BY <2>3, <4>3
      <4>6. ASSUME NEW z \in Day, m <= z, RowOf(FALSE, t, z)' PROVE z \in fetch.days /\ Backward(t, x, z)'
        <5>1. <<t, z>> \in DOMAIN new
          <6>1. CASE <<t, z>> \in DOMAIN rows /\ <<t, z>> \notin DOMAIN new
            <7>1. ~rows[<<t, z>>].official /\ <<t, z>>[2] = z
              BY <2>2, <4>6, <6>1 DEF RowOf
            <7>2. z <= high
              BY <1>2, <6>1, <7>1
            <7>3. z \in fetch.days
              BY <1>2, <4>5, <4>6, <7>2, DaysAreNumbers
            <7>. QED BY <2>7, <4>5, <6>1, <7>1, <7>3
          <6>. QED BY <2>2, <4>6, <6>1 DEF RowOf
        <5>2. <<t, z>>[1] = t /\ <<t, z>>[2] = z
          OBVIOUS
        <5>3. z \in fetch.days /\ rows'[<<t, z>>].close = Adjusted(t, z, x)
          BY <2>2, <2>3, <2>4, <5>1, <5>2
        <5>4. Backward(t, x, z)'
          BY <5>3 DEF Backward
        <5>. QED BY <5>3, <5>4
      <4>7. m <= e
        BY <4>3
      <4>8. e \in fetch.days /\ Backward(t, x, d)' /\ Backward(t, x, e)'
        BY <3>1, <4>4, <4>6, <4>7
      <4>9. x \in Day /\ e <= x
        BY <2>5, <4>8
      <4>. QED BY <4>8, <4>9
    <3>. QED BY <3>2, <3>3
  <2>. QED BY <1>1, <2>8, <2>9, <2>10, <2>11, <2>12, <2>13 DEF ScaleInv
<1>. QED BY <1>4, <1>5

\* Steps that touch no row, no seam and nothing read.
LEMMA RestScale ==
    ASSUME ScaleInv, UNCHANGED <<rows, seams>>, today' \in Nat, today <= today', archive \subseteq archive',
           loader' = loader \/ DOMAIN loader'.batch = {}, FetchShaped'
    PROVE  ScaleInv'
<1>1. RowsShaped'
  BY DaysAreNumbers DEF ScaleInv, RowsShaped, Key
<1>2. LoaderShaped'
  BY DEF ScaleInv, LoaderShaped
<1>. QED BY <1>1, <1>2, PairsStay DEF ScaleInv, SeamsShaped

LEMMA ScaleKeep == ASSUME ScaleInv, [Next]_vars PROVE ScaleInv'
<1>1. DOMAIN fetch = DOMAIN NoFetch /\ today \in Nat /\ today <= today
  BY DEF ScaleInv, FetchShaped
<1>2. CASE NextDay
  <2>1. today' \in Nat /\ today <= today' /\ UNCHANGED <<archive, rows, loader, fetch, seams>>
    BY <1>1, <1>2 DEF NextDay
  <2>2. FetchShaped'
    BY <1>1, <2>1 DEF ScaleInv, FetchShaped
  <2>. QED BY <2>1, <2>2, RestScale
<1>3. ASSUME NEW m \in Bulletin, Download(m) PROVE ScaleInv'
  <2>1. FetchShaped' /\ archive \subseteq archive' /\ UNCHANGED <<today, rows, loader, fetch, seams>>
    BY <1>3 DEF Download, ScaleInv, FetchShaped
  <2>. QED BY <1>1, <2>1, RestScale
<1>4. ASSUME NEW from \in Starts, LoaderRead(from) PROVE ScaleInv'
  BY <1>4, ReadScale
<1>5. CASE LoaderStore
  BY <1>5, StoreScale
<1>6. CASE LoaderDies
  <2>1. FetchShaped' /\ DOMAIN loader'.batch = {} /\ UNCHANGED <<today, archive, rows, fetch, seams>>
    BY <1>6 DEF LoaderDies, NoRows, ScaleInv, FetchShaped
  <2>. QED BY <1>1, <2>1, RestScale
<1>7. ASSUME NEW back \in Backs, FetchStart(back) PROVE ScaleInv'
  BY <1>7, AskScale
<1>8. ASSUME NEW ts \in SUBSET Ticker, FetchDownload(ts) PROVE ScaleInv'
  <2>1. /\ UNCHANGED <<today, archive, rows, loader, seams>> /\ DOMAIN fetch' = DOMAIN NoFetch /\ fetch.pc # "idle"
        /\ fetch'.data \subseteq Ticker /\ fetch'.held \subseteq Ticker /\ fetch'.days = fetch.days
    BY <1>1, <1>8 DEF FetchDownload, NoFetch
  <2>2. FetchShaped'
    BY <2>1 DEF ScaleInv, FetchShaped
  <2>. QED BY <1>1, <2>1, <2>2, RestScale
<1>9. ASSUME NEW t \in Ticker, FetchUpsert(t) PROVE ScaleInv'
  <2>. DEFINE fails == fetch.failed \/ t \in Refused
              held == IF fails THEN fetch.held ELSE fetch.held \cup {t}
  <2>1. fetch' = [fetch EXCEPT !.data = fetch.data \ {t}, !.failed = fails, !.held = held]
    BY <1>9 DEF FetchUpsert
  <2>2. held \subseteq Ticker
    BY DEF ScaleInv, FetchShaped
  <2>. HIDE DEF fails, held
  <2>3. /\ UNCHANGED <<today, archive, rows, loader, seams>> /\ fetch.pc # "idle"
    BY <1>9 DEF FetchUpsert
  <2>4. /\ DOMAIN fetch' = DOMAIN NoFetch
        /\ fetch'.data = fetch.data \ {t} /\ fetch'.held = held /\ fetch'.days = fetch.days
    BY <1>1, <2>1 DEF NoFetch
  <2>5. FetchShaped'
    BY <2>2, <2>3, <2>4 DEF ScaleInv, FetchShaped
  <2>. QED BY <1>1, <2>3, <2>5, RestScale
<1>10. CASE FetchCommit
  BY <1>10, CommitScale
<1>11. CASE FetchDies
  <2>1. FetchShaped' /\ UNCHANGED <<today, archive, rows, loader, seams>>
    BY <1>11 DEF FetchDies, NoFetch, FetchShaped
  <2>. QED BY <1>1, <2>1, RestScale
<1>12. CASE UNCHANGED vars
  <2>1. FetchShaped' /\ UNCHANGED <<today, archive, rows, loader, seams>>
    BY <1>12 DEF vars, ScaleInv, FetchShaped
  <2>. QED BY <1>1, <2>1, RestScale
<1>. QED BY <1>2, <1>3, <1>4, <1>5, <1>6, <1>7, <1>8, <1>9, <1>10, <1>11, <1>12 DEF Next, LoaderStep, FetchStep

\* Without a misprint the loader's ratio of a day is the day's return.
LEMMA RatioIsReturn ==
    ASSUME GuardIsWide, NEW t \in Ticker, NEW d \in Day, d # 1
    PROVE  DayRatio(t, d) \in Int /\ (d \notin Misprint[t] => DayRatio(t, d) = Ret[t][d])
<1>1. d - 1 \in Day /\ Raw[t][d] \in Int /\ Raw[t][d - 1] \in Int /\ Ret[t][d] \in Int /\ MaxRatio \in Nat
  BY DaysAreNumbers, PriceAssumption, RatioAssumption DEF PriceAssumption, RatioAssumption
<1>2. Base(t, d) \in Int
  BY <1>1 DEF Base, Previous
<1>3. DayRatio(t, d) \in Int
  BY <1>1, <1>2 DEF DayRatio
<1>4. ASSUME d \notin Misprint[t] PROVE DayRatio(t, d) = Ret[t][d]
  <2>1. Raw[t][d] - Base(t, d) = Ret[t][d]
    <3>1. CASE d \in Unstated[t]
      BY <1>1, <3>1, UnstatedAssumption DEF UnstatedAssumption, Base
    <3>2. CASE d \notin Unstated[t]
      BY <1>1, <1>4, <3>2 DEF Base, Previous
    <3>. QED BY <3>1, <3>2
  <2>2. -MaxRatio <= Ret[t][d] /\ Ret[t][d] <= MaxRatio
    BY DEF GuardIsWide
  <2>. QED BY <2>1, <2>2 DEF DayRatio
<1>. QED BY <1>3, <1>4

\* On one scale of the bulletin differences are returns.
LEMMA LevelReturns ==
    ASSUME GuardIsWide, NEW t \in Ticker, NEW x \in Day, NEW d \in Day, NEW e \in Day, x <= d, d < e, Clean(t, d, e)
    PROVE  Level(t, x, e) - Level(t, x, d) = Return(t, d, e)
<1>. DEFINE q == [y \in Day |-> DayRatio(t, y)]
            R == Ret[t]
<1>1. x \in Nat /\ d \in Nat /\ e \in Nat /\ 1 <= x /\ e <= LastDay /\ LastDay \in Nat
  BY DaysAreNumbers
<1>2. \A y \in (x + 1)..e : y \in Day /\ y # 1 /\ q[y] = DayRatio(t, y)
  BY <1>1, DaysAreNumbers
<1>3. \A y \in (x + 1)..e : q[y] \in Int
  BY <1>2, RatioIsReturn
<1>4. \A y \in (d + 1)..e : q[y] = R[y]
  <2>1. SUFFICES ASSUME NEW y \in (d + 1)..e PROVE q[y] = R[y]
    OBVIOUS
  <2>2. y \in (x + 1)..e /\ y \notin Misprint[t]
    BY <1>1 DEF Clean
  <2>. QED BY <1>2, <2>2, RatioIsReturn
<1>5. Level(t, x, e) = Raw[t][x] + Total(q, (x + 1)..e) /\ Level(t, x, d) = Raw[t][x] + Total(q, (x + 1)..d)
  BY DEF Level
<1>6. Raw[t][x] \in Int
  BY PriceAssumption DEF PriceAssumption
<1>. HIDE DEF q, R
<1>7. /\ Total(q, (x + 1)..e) = Total(q, (x + 1)..d) + Total(q, (d + 1)..e)
      /\ Total(q, (x + 1)..d) \in Int /\ Total(q, (d + 1)..e) \in Int
  BY <1>1, <1>3, TotalOfDays
<1>8. Total(q, (d + 1)..e) = Total(R, (d + 1)..e)
  BY <1>4, TotalAgrees
<1>9. Return(t, d, e) = Total(R, (d + 1)..e)
  BY DEF Return, R
<1>. QED BY <1>5, <1>6, <1>7, <1>8, <1>9

\* And so on the scale of one last close.
LEMMA AdjustedReturns ==
    ASSUME NEW t \in Ticker, NEW last \in Day, NEW d \in Day, NEW e \in Day, d < e, e <= last
    PROVE  Adjusted(t, e, last) - Adjusted(t, d, last) = Return(t, d, e)
<1>. DEFINE R == Ret[t]
<1>1. d \in Nat /\ e \in Nat /\ last \in Nat /\ d <= e /\ \A x \in (d + 1)..last : x \in Day
  BY DaysAreNumbers
<1>2. \A x \in (d + 1)..last : R[x] \in Int
  BY <1>1, PriceAssumption DEF PriceAssumption
<1>3. Raw[t][last] \in Int
  BY PriceAssumption DEF PriceAssumption
<1>4. /\ Adjusted(t, e, last) = Raw[t][last] - Total(R, (e + 1)..last)
      /\ Adjusted(t, d, last) = Raw[t][last] - Total(R, (d + 1)..last)
      /\ Return(t, d, e) = Total(R, (d + 1)..e)
  BY DEF Adjusted, Return
<1>. HIDE DEF R
<1>5. /\ Total(R, (d + 1)..last) = Total(R, (d + 1)..e) + Total(R, (e + 1)..last)
      /\ Total(R, (d + 1)..e) \in Int /\ Total(R, (e + 1)..last) \in Int
  BY <1>1, <1>2, TotalOfDays
<1>. QED BY <1>3, <1>4, <1>5

\* For any loads, whatever month or how many days back they start, any prices,
\* corporate actions and faults of the bulletins, with returns that the guard
\* admits: between two rows of one source the difference is the return, unless an
\* earlier load's scale ends between them
\* (chain_total_return, _store and the WHERE of _fetch_batch's upsert).
THEOREM SourcesAgree ==
    ASSUME GuardIsWide
    PROVE  Spec => []SameSourceReturns
<1>1. ASSUME ScaleInv PROVE SameSourceReturns
  <2>1. SUFFICES ASSUME NEW k \in DOMAIN rows, NEW l \in DOMAIN rows, k[1] = l[1], k[2] < l[2],
                        rows[k].official = rows[l].official, rows[k].official => Clean(k[1], k[2], l[2]),
                        ~Seam(rows[k].official, k[1], k[2], l[2])
                 PROVE  RightBetween(k[1], k[2], l[2])
    BY DEF SameSourceReturns
  <2>2. k \in Key /\ l \in Key /\ rows[k].official \in BOOLEAN
    BY <1>1 DEF ScaleInv, RowsShaped
  <2>3. PICK t \in Ticker, d \in Day, e \in Day : k = <<t, d>> /\ l = <<t, e>> /\ d < e
    BY <2>1, <2>2 DEF Key
  <2>4. CASE rows[k].official = TRUE
    <3>1. RowOf(TRUE, t, d) /\ RowOf(TRUE, t, e) /\ ~Seam(TRUE, t, d, e) /\ Clean(t, d, e)
      BY <2>1, <2>3, <2>4 DEF RowOf
    <3>2. PICK x \in Day : x <= d /\ Chained(t, x, d) /\ Chained(t, x, e)
      BY <1>1, <2>3, <3>1 DEF ScaleInv, OfficialPairs
    <3>. QED BY <2>3, <3>1, <3>2, LevelReturns DEF Chained, RightBetween
  <2>5. CASE rows[k].official = FALSE
    <3>1. RowOf(FALSE, t, d) /\ RowOf(FALSE, t, e) /\ ~Seam(FALSE, t, d, e)
      BY <2>1, <2>3, <2>5 DEF RowOf
    <3>2. PICK x \in Day : e <= x /\ Backward(t, x, d) /\ Backward(t, x, e)
      BY <1>1, <2>3, <3>1 DEF ScaleInv, FetchedPairs
    <3>. QED BY <2>3, <3>2, AdjustedReturns DEF Backward, RightBetween
  <2>. QED BY <2>2, <2>4, <2>5
<1>2. ScaleInv /\ [Next]_vars => ScaleInv'
  BY ScaleKeep
<1>3. ScaleInv => SameSourceReturns
  BY <1>1
<1>. QED BY ScaleStart, <1>2, <1>3, PTL DEF Spec

-----------------------------------------------------------------------------
(* What a load leaves out *)

Stored(t) == \A d \in fetch.days : <<t, d>> \in DOMAIN rows

\* Nothing is known to stand in a ticker's way.
Owed(t) == t \in Served \ (fetch.lost \cup Refused \cup fetch.undone)

\* A ticker that is owed is stored or still to be asked for; in the batch in hand it
\* is held or still to come, if nobody will ask for it again; and only a refused
\* price fails a transaction.
HealInv ==
    /\ DOMAIN fetch = DOMAIN NoFetch
    /\ fetch.pc \in {"idle", "download", "store"}
    /\ fetch.pc # "idle" =>
        /\ fetch.batch \in fetch.todo
        /\ ~fetch.alone => fetch.todo = {Ticker}
        /\ fetch.alone => \A b \in fetch.todo : \E t \in Ticker : b = {t}
        /\ \A t \in Ticker : Owed(t) => (\E b \in fetch.todo : t \in b) \/ Stored(t)
    /\ fetch.pc = "store" =>
        /\ fetch.data \subseteq fetch.batch
        /\ fetch.held \subseteq fetch.batch \ Refused
        /\ fetch.failed => fetch.batch \cap Refused # {}
        /\ fetch.alone /\ ~fetch.failed =>
            \A t \in fetch.batch : t \in fetch.lost \/ t \in fetch.data \/ t \in fetch.held

\* What is left to ask for after a commit, and what the commit has undone.
Left == (fetch.todo \ {fetch.batch}) \cup StillMissing(fetch.held)
Undone == IF fetch.failed THEN fetch.undone \cup fetch.held ELSE fetch.undone

\* A commit that leaves nothing to ask for undoes nothing.
LEMMA LastCommit ==
    ASSUME HealInv, FetchCommit, Left = {}
    PROVE  ~fetch.failed \/ fetch.held = {}
<1>. SUFFICES ASSUME fetch.failed PROVE fetch.held = {}
  OBVIOUS
<1>1. fetch.pc = "store" /\ fetch.held \subseteq fetch.batch \ Refused /\ fetch.batch \in fetch.todo
  BY DEF FetchCommit, HealInv
<1>2. PICK r \in fetch.batch : r \in Refused
  BY <1>1 DEF HealInv
<1>3. r \in Ticker /\ r \notin fetch.held
  BY <1>1, <1>2, TickerAssumption DEF TickerAssumption
<1>4. fetch.alone
  BY <1>3 DEF Left, StillMissing
<1>5. PICK t \in Ticker : fetch.batch = {t}
  BY <1>1, <1>4 DEF HealInv
<1>. QED BY <1>1, <1>2, <1>5

\* What the commit of a batch does not store, or undoes, is asked for alone.
LEMMA HealCommit ==
    ASSUME HealInv, FetchCommit, NEW t \in Ticker, Owed(t), t \notin Undone
    PROVE  (\E b \in Left : t \in b) \/ \A d \in fetch.days : <<t, d>> \in DOMAIN rows'
<1>1. /\ fetch.pc = "store" /\ fetch.data = {}
      /\ rows' = IF fetch.failed THEN rows ELSE Overwrite(FetchedRows)
  BY DEF FetchCommit
<1>2. /\ DOMAIN rows \subseteq DOMAIN rows'
      /\ ~fetch.failed => DOMAIN FetchedRows \subseteq DOMAIN rows'
  BY <1>1 DEF Overwrite
<1>3. CASE Stored(t)
  BY <1>2, <1>3 DEF Stored
<1>4. CASE \E b \in fetch.todo \ {fetch.batch} : t \in b
  BY <1>4 DEF Left
<1>5. CASE t \in fetch.batch
  <2>1. CASE t \in fetch.held
    <3>1. ~fetch.failed
      BY <2>1 DEF Undone
    <3>2. ASSUME NEW d \in fetch.days PROVE <<t, d>> \in DOMAIN rows'
      <4>1. CASE MayReplace(<<t, d>>)
        <5>1. DOMAIN FetchedRows = {k \in fetch.held \X fetch.days : MayReplace(k)}
          BY DEF FetchedRows
        <5>. QED BY <1>2, <2>1, <3>1, <4>1, <5>1
      <4>2. CASE ~MayReplace(<<t, d>>)
        BY <1>2, <4>2 DEF MayReplace
      <4>. QED BY <4>1, <4>2
    <3>. QED BY <3>2
  <2>2. CASE t \notin fetch.held
    <3>1. ~fetch.alone
      <4>1. SUFFICES ASSUME fetch.alone PROVE FALSE
        OBVIOUS
      <4>2. PICK u \in Ticker : fetch.batch = {u}
        BY <1>1, <4>1 DEF HealInv
      <4>3. ~fetch.failed
        BY <1>1, <1>5, <4>2 DEF HealInv, Owed
      <4>. QED BY <1>1, <1>5, <2>2, <4>1, <4>3 DEF HealInv, Owed
    <3>2. {t} \in StillMissing(fetch.held)
      BY <2>2, <3>1 DEF StillMissing
    <3>. QED BY <3>2 DEF Left
  <2>. QED BY <2>1, <2>2
<1>. QED BY <1>1, <1>3, <1>4, <1>5 DEF HealInv

LEMMA HealKeep == ASSUME HealInv, [Next]_vars PROVE HealInv'
<1>1. DOMAIN fetch = DOMAIN NoFetch /\ Served \subseteq Ticker
  BY TickerAssumption DEF HealInv, TickerAssumption
<1>2. CASE fetch' = fetch /\ DOMAIN rows \subseteq DOMAIN rows'
  BY <1>2 DEF HealInv, Stored, Owed
<1>3. ASSUME NEW back \in Backs, FetchStart(back) PROVE HealInv'
  <2>1. /\ DOMAIN fetch' = DOMAIN NoFetch /\ fetch'.alone = FALSE /\ fetch'.pc = "download"
        /\ fetch'.batch = Ticker /\ fetch'.todo = {Ticker}
    BY <1>3 DEF FetchStart, NoFetch
  <2>. QED BY <1>1, <2>1 DEF HealInv
<1>4. ASSUME NEW ts \in SUBSET Ticker, FetchDownload(ts) PROVE HealInv'
  <2>. DEFINE lost == IF fetch.alone THEN fetch.lost \cup (fetch.batch \ ts) ELSE fetch.lost
  <2>1. fetch' = [fetch EXCEPT !.pc = "store", !.data = ts, !.held = {}, !.failed = FALSE, !.lost = lost]
    BY <1>4 DEF FetchDownload
  <2>2. fetch.lost \subseteq lost /\ (fetch.alone => fetch.batch \subseteq lost \cup ts)
    OBVIOUS
  <2>. HIDE DEF lost
  <2>3. /\ DOMAIN fetch' = DOMAIN NoFetch /\ fetch'.failed = FALSE /\ fetch'.pc = "store" /\ fetch'.data = ts
        /\ fetch'.lost = lost /\ fetch'.batch = fetch.batch /\ fetch'.todo = fetch.todo /\ fetch'.days = fetch.days
        /\ fetch'.alone = fetch.alone /\ fetch'.held = {} /\ fetch'.undone = fetch.undone
    BY <1>1, <2>1 DEF NoFetch
  <2>4. rows' = rows /\ fetch.pc # "idle" /\ ts \subseteq fetch.batch
    BY <1>4 DEF FetchDownload
  <2>5. \A t \in Ticker : Owed(t)' => (\E b \in fetch'.todo : t \in b) \/ Stored(t)'
    BY <2>2, <2>3, <2>4 DEF HealInv, Stored, Owed
  <2>. QED BY <2>2, <2>3, <2>4, <2>5 DEF HealInv
<1>5. ASSUME NEW t \in Ticker, FetchUpsert(t) PROVE HealInv'
  <2>. DEFINE fails == fetch.failed \/ t \in Refused
              held == IF fails THEN fetch.held ELSE fetch.held \cup {t}
  <2>1. fetch' = [fetch EXCEPT !.data = fetch.data \ {t}, !.failed = fails, !.held = held]
    BY <1>5 DEF FetchUpsert
  <2>2. /\ t \in fetch.data /\ fetch.pc = "store" /\ rows' = rows
    BY <1>5 DEF FetchUpsert
  <2>3. /\ held \subseteq fetch.batch \ Refused
        /\ fails => fetch.batch \cap Refused # {}
        /\ ~fails => ~fetch.failed /\ held = fetch.held \cup {t}
    BY <2>2 DEF HealInv
  <2>. HIDE DEF fails, held
  <2>4. /\ DOMAIN fetch' = DOMAIN NoFetch /\ fetch'.failed = fails /\ fetch'.pc = fetch.pc
        /\ fetch'.data = fetch.data \ {t} /\ fetch'.held = held
        /\ fetch'.lost = fetch.lost /\ fetch'.batch = fetch.batch
        /\ fetch'.todo = fetch.todo /\ fetch'.days = fetch.days
        /\ fetch'.alone = fetch.alone /\ fetch'.undone = fetch.undone
    BY <1>1, <2>1 DEF NoFetch
  <2>5. \A u \in Ticker : Owed(u)' => (\E b \in fetch'.todo : u \in b) \/ Stored(u)'
    BY <2>2, <2>4 DEF HealInv, Stored, Owed
  <2>. QED BY <2>2, <2>3, <2>4, <2>5 DEF HealInv
<1>6. CASE FetchCommit
  <2>1. /\ fetch.pc = "store" /\ fetch.data = {}
        /\ fetch' = IF Left = {} THEN NoFetch
                    ELSE [fetch EXCEPT !.pc = "download", !.todo = Left, !.alone = TRUE,
                                       !.held = {}, !.failed = FALSE, !.undone = Undone,
                                       !.batch = CHOOSE b \in Left : TRUE]
    BY <1>6 DEF FetchCommit, Left, Undone
  <2>2. CASE Left = {}
    BY <2>1, <2>2 DEF HealInv, NoFetch
  <2>3. CASE Left # {}
    <3>. DEFINE left == Left
                undone == Undone
    <3>1. left # {} /\ fetch.undone \subseteq undone
      BY <2>3 DEF Undone
    <3>2. fetch' = [fetch EXCEPT !.pc = "download", !.todo = left, !.alone = TRUE,
                                 !.held = {}, !.failed = FALSE, !.undone = undone,
                                 !.batch = CHOOSE b \in left : TRUE]
      BY <2>1, <2>3
    <3>3. \A b \in left : \E t \in Ticker : b = {t}
      <4>1. CASE fetch.alone
        BY <2>1, <4>1 DEF Left, HealInv, StillMissing
      <4>2. CASE ~fetch.alone
        <5>1. \A b \in StillMissing(fetch.held) : \E t \in Ticker : b = {t}
          BY DEF StillMissing
        <5>2. fetch.todo \ {fetch.batch} = {}
          BY <2>1, <4>2 DEF HealInv
        <5>. QED BY <5>1, <5>2 DEF Left
      <4>. QED BY <4>1, <4>2
    <3>4. ASSUME NEW t \in Ticker, Owed(t), t \notin undone
          PROVE  (\E b \in left : t \in b) \/ \A d \in fetch.days : <<t, d>> \in DOMAIN rows'
      BY <1>6, <3>4, HealCommit
    <3>. HIDE DEF left, undone
    <3>5. /\ DOMAIN fetch' = DOMAIN NoFetch /\ fetch'.pc = "download" /\ fetch'.alone = TRUE
          /\ fetch'.todo = left /\ fetch'.batch \in left /\ fetch'.lost = fetch.lost /\ fetch'.days = fetch.days
          /\ fetch'.undone = undone
      BY <1>1, <3>1, <3>2 DEF NoFetch
    <3>6. \A t \in Ticker : Owed(t)' => Owed(t) /\ t \notin undone
      BY <3>1, <3>5 DEF Owed
    <3>7. \A t \in Ticker : Owed(t)' => (\E b \in left : t \in b) \/ Stored(t)'
      BY <3>4, <3>5, <3>6 DEF Stored
    <3>. QED BY <3>3, <3>5, <3>7 DEF HealInv
  <2>. QED BY <2>2, <2>3
<1>7. CASE FetchDies
  BY <1>7 DEF FetchDies, HealInv, NoFetch
<1>8. \A batch : DOMAIN rows \subseteq DOMAIN Overwrite(batch)
  BY DEF Overwrite
<1>. QED BY <1>2, <1>3, <1>4, <1>5, <1>6, <1>7, <1>8
  DEF Next, NextDay, Download, LoaderStep, LoaderRead, LoaderStore, LoaderDies, FetchStep, vars

\* Whatever yfinance dropped from the batch and whatever prices the database
\* refuses, a load that returns has stored all the days it asked for of each ticker
\* that yfinance gave when asked again for it alone, but for the refused and those
\* whose rows a refused one had rolled back (fetch_and_store_prices, _fetch_batch).
THEOREM RetryHeals == Spec => RetryHealsBatch
<1>. DEFINE Healed == FetchCommit /\ fetch' = NoFetch
        => \A t \in Served \ (fetch.lost \cup Refused \cup fetch.undone) :
                \A d \in fetch.days : <<t, d>> \in DOMAIN rows'
<1>1. HealInv /\ [Next]_vars => [Healed]_<<fetch, rows>>
  <2>1. SUFFICES ASSUME HealInv, FetchCommit, fetch' = NoFetch,
                        NEW t \in Served \ (fetch.lost \cup Refused \cup fetch.undone)
                 PROVE  \A d \in fetch.days : <<t, d>> \in DOMAIN rows'
    OBVIOUS
  <2>2. Left = {}
    <3>1. fetch' = IF Left = {} THEN NoFetch
                   ELSE [fetch EXCEPT !.pc = "download", !.todo = Left, !.alone = TRUE,
                                      !.held = {}, !.failed = FALSE, !.undone = Undone,
                                      !.batch = CHOOSE b \in Left : TRUE]
      BY <2>1 DEF FetchCommit, Left, Undone
    <3>2. "pc" \in DOMAIN fetch /\ NoFetch.pc = "idle"
      BY <2>1 DEF HealInv, NoFetch
    <3>3. Left # {} => fetch'.pc = "download"
      BY <3>1, <3>2
    <3>. QED BY <2>1, <3>2, <3>3
  <2>3. t \in Ticker /\ Owed(t)
    BY TickerAssumption DEF TickerAssumption, Owed
  <2>4. t \notin Undone
    BY <2>1, <2>2, LastCommit DEF Undone
  <2>5. (\E b \in Left : t \in b) \/ \A d \in fetch.days : <<t, d>> \in DOMAIN rows'
    BY <2>1, <2>3, <2>4, HealCommit
  <2>. QED BY <2>2, <2>5
<1>2. Init => HealInv
  BY DEF Init, HealInv, NoFetch
<1>3. HealInv /\ [Next]_vars => HealInv'
  BY HealKeep
<1>. HIDE DEF Healed
<1>4. Spec => [][Healed]_<<fetch, rows>>
  BY <1>1, <1>2, <1>3, PTL DEF Spec
<1>. QED BY <1>4 DEF Healed, RetryHealsBatch

=============================================================================
