----------------------------- MODULE MCSignals ------------------------------
(* Small instances of Signals for TLC. *)
EXTENDS Signals

CONSTANTS a, b, c, cron, report

\* A trade published with its disclosure, and one a correction added to it.
F(ins, day, pub) == [ins |-> ins, day |-> day, pub |-> pub, out |-> pub]
Added(ins, day, pub, out) == [ins |-> ins, day |-> day, pub |-> pub, out |-> out]

Filed == {F(a, 1, 4)}

\* Two insiders make a cluster (1, 2): b files in the evening of day 4 UTC, which
\* is day 5 in Istanbul; c's trade comes to light on day 5 by a correction of a
\* filing of day 2.  a's second trade is dated after its publication.
Filings == Filed \cup {F(b, 2, 9), Added(c, 2, 4, 10), F(a, 4, 6)}

Modes == (cron :> "history") @@ (report :> "live")

=============================================================================
