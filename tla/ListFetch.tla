----------------------------- MODULE ListFetch ------------------------------
(***************************************************************************)
(* KapClient.fetch_disclosure_list: KAP's list endpoint answers a window   *)
(* of days with at most Cap rows, the newest ones, and says nothing of the *)
(* older ones it dropped; an answer of Cap rows makes the client bisect    *)
(* the window.  Disclosures go on being filed, on the last day, while the  *)
(* client asks.                                                            *)
(*                                                                         *)
(* The specification's own names begin with Fetch, and its state is call,  *)
(* because KapReadingProofs reads this module beside DkbParser.            *)
(***************************************************************************)
EXTENDS Integers, FiniteSets

CONSTANTS
    Today,     \* the last day, on which disclosures are still being filed
    Cap,       \* LIST_RESULT_CAP
    MaxPerDay, \* bound: disclosures filed on one day
    ErrorBody  \* may KAP answer 200 with a body that is no list?

Day == 1..Today

ASSUME CapAssumption == Cap \in Nat \ {0}
ASSUME DayAssumption == Today \in Nat \ {0}
ASSUME MaxPerDayAssumption == MaxPerDay \in Nat
ASSUME ErrorBodyAssumption == ErrorBody \in BOOLEAN

VARIABLES
    filed,     \* filed[d]: how many disclosures were filed on day d so far
    window,    \* the window asked for, as <<from, to>>
    expected,  \* history: the rows of the window when the call began
    pending,   \* windows the recursion has still to ask for
    merged,    \* the rows merged so far
    overCap,   \* days reported as kap_list_day_over_cap
    requests,  \* history: POSTs sent, counted up to RequestBound
    call       \* where the call is

fetchVars == <<filed, window, expected, pending, merged, overCap, requests, call>>

-----------------------------------------------------------------------------

Window == {w \in Day \X Day : w[1] <= w[2]}

\* A row is <<day, n>>: the n-th disclosure of its day.
RowsOf(w) == {r \in (w[1]..w[2]) \X (1..MaxPerDay) : r[2] <= filed[r[1]]}

Newer(r, s) == r[1] > s[1] \/ (r[1] = s[1] /\ r[2] > s[2])

\* What the endpoint may answer: everything, or the newest Cap rows.
IsAnswer(w, R) ==
    /\ R \subseteq RowsOf(w)
    /\ IF Cardinality(RowsOf(w)) <= Cap
       THEN R = RowsOf(w)
       ELSE /\ Cardinality(R) = Cap
            /\ \A r \in R, s \in RowsOf(w) \ R : Newer(r, s)

Middle(w) == w[1] + (w[2] - w[1]) \div 2

\* Mutant: the halves share the middle day.
HalvesSharingADay(w) == {<<w[1], Middle(w)>>, <<Middle(w), w[2]>>}

Halves(w) == {<<w[1], Middle(w)>>, <<Middle(w) + 1, w[2]>>}

\* _fetch_list_raw takes a body that is no list for an empty one.
RawAnswer(w, R) == IsAnswer(w, R) \/ (ErrorBody /\ R = {})

\* The recursion goes left first.
Leftmost(w) == w \in pending /\ \A x \in pending : w[1] <= x[1]

\* Bound: the counter of requests stops one above what RequestsBounded allows.
RequestBound == 2 * Today

FetchInit ==
    /\ filed \in [Day -> 0..MaxPerDay]
    /\ window = <<1, 1>>
    /\ expected = {}
    /\ pending = {}
    /\ merged = {}
    /\ overCap = {}
    /\ requests = 0
    /\ call = "idle"

File ==
    /\ filed[Today] < MaxPerDay
    /\ filed' = [filed EXCEPT ![Today] = @ + 1]
    /\ UNCHANGED <<window, expected, pending, merged, overCap, requests, call>>

Call(w) ==
    /\ call = "idle"
    /\ window' = w
    /\ expected' = RowsOf(w)
    /\ pending' = {w}
    /\ call' = "asking"
    /\ UNCHANGED <<filed, merged, overCap, requests>>

\* Mutant: an answer at the cap passes for the whole window.
AcceptAtCap(w, R) ==
    /\ Cardinality(R) <= Cap
    /\ pending' = pending \ {w}
    /\ merged' = merged \cup R
    /\ UNCHANGED overCap

\* An answer below the cap is the window.
Accept(w, R) ==
    /\ Cardinality(R) < Cap
    /\ pending' = pending \ {w}
    /\ merged' = merged \cup R
    /\ UNCHANGED overCap

\* A day at the cap cannot be narrowed: it is reported, and returned as it is.
AcceptOverCap(w, R) ==
    /\ Cardinality(R) >= Cap
    /\ w[1] >= w[2]
    /\ pending' = pending \ {w}
    /\ merged' = merged \cup R
    /\ overCap' = overCap \cup {w[1]}

\* Any other answer at the cap is discarded, and the halves are asked for.
Bisect(w, R) ==
    /\ Cardinality(R) >= Cap
    /\ w[1] < w[2]
    /\ pending' = (pending \ {w}) \cup Halves(w)
    /\ UNCHANGED <<merged, overCap>>

Ask ==
    /\ call = "asking"
    /\ \E w \in pending :
          /\ Leftmost(w)
          /\ \E R \in SUBSET RowsOf(w) :
                /\ RawAnswer(w, R)
                /\ Accept(w, R) \/ AcceptOverCap(w, R) \/ Bisect(w, R)
    /\ requests' = IF requests < RequestBound THEN requests + 1 ELSE requests
    /\ UNCHANGED <<filed, window, expected, call>>

Return ==
    /\ call = "asking"
    /\ pending = {}
    /\ call' = "done"
    /\ UNCHANGED <<filed, window, expected, pending, merged, overCap, requests>>

\* A request that fails propagates: the call ends with the exception.
Raise ==
    /\ call = "asking"
    /\ call' = "failed"
    /\ UNCHANGED <<filed, window, expected, pending, merged, overCap, requests>>

FetchNext == File \/ Ask \/ Return \/ Raise \/ \E w \in Window : Call(w)

FetchSpec == FetchInit /\ [][FetchNext]_fetchVars

-----------------------------------------------------------------------------
(* Properties *)

FetchTypeOK ==
    /\ filed \in [Day -> 0..MaxPerDay]
    /\ window \in Window
    /\ expected \in SUBSET (Day \X (1..MaxPerDay))
    /\ pending \in SUBSET Window
    /\ merged \in SUBSET (Day \X (1..MaxPerDay))
    /\ overCap \in SUBSET Day
    /\ requests \in Nat
    /\ call \in {"idle", "asking", "done", "failed"}

\* A list that lost a disclosure says so: every row the window held when the
\* call began is in the result, or its day was reported over the cap, however
\* dense the days are and whatever is filed meanwhile.
LossIsLogged ==
    call = "done" => \A r \in expected : r \in merged \/ r[1] \in overCap

\* Bisection converges: a window of n days costs at most 2n - 1 requests.
RequestsBounded == requests <= 2 * (window[2] - window[1] + 1) - 1

\* The windows still to ask for never overlap, so no day is asked for twice
\* once it has been answered.
PendingDisjoint ==
    \A v, w \in pending : v # w => v[2] < w[1] \/ w[2] < v[1]

=============================================================================
