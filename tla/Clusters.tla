------------------------------ MODULE Clusters ------------------------------
(***************************************************************************)
(* Insider clusters of one ticker, as the detector computes them from the  *)
(* stored BUY trades: every query partitions by ticker, so one stands for  *)
(* all.  A trade is a record with at least the insider and the day of the  *)
(* trade; a cluster event is a window of days and the insiders in it.      *)
(***************************************************************************)
EXTENDS Integers, FiniteSets, FiniteSetsExt

CONSTANTS
    Insider,    \* insider names
    Window,     \* signals.cluster.window_days
    MinCount    \* signals.cluster.min_insider_count

ASSUME InsiderAssumption == IsFiniteSet(Insider)
ASSUME WindowAssumption == Window \in Nat
ASSUME MinCountAssumption == MinCount \in Nat \ {0}

Insiders(buys) == {b.ins : b \in buys}
DaysOf(buys) == {b.day : b \in buys}

\* Mutant: trades after the day are in its window too.
LookBackOpen(buys, d) == {b \in buys : d - Window <= b.day}

\* The trades of the look-back window that ends on day d.
LookBack(buys, d) == {b \in buys : d - Window <= b.day /\ b.day <= d}

\* A trade on day d completes a cluster of distinct insiders.
Forms(buys, d) ==
    d \in DaysOf(buys) /\ Cardinality(Insiders(LookBack(buys, d))) >= MinCount

\* The window a trade on day d completes: from its first trade to d.
WindowAt(buys, d) == <<Min(DaysOf(LookBack(buys, d))), d>>

\* _find_cluster_events: one event per window; a window's last day names it,
\* so the events are a function of their windows.
FindClusterEvents(buys) ==
    LET ends == {d \in DaysOf(buys) : Forms(buys, d)}
    IN [w \in {WindowAt(buys, d) : d \in ends} |-> Insiders(LookBack(buys, w[2]))]

\* detect_clusters: all of history, or only the trades of [asOf - Window, asOf].
Selected(buys, mode, asOf) ==
    IF mode = "history" THEN buys ELSE LookBack(buys, asOf)

=============================================================================
