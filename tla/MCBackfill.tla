----------------------------- MODULE MCBackfill -----------------------------
(* Small instances of Backfill for TLC. *)
EXTENDS Backfill

\* A month of two days, so that a launch can fall within it or on its last day,
\* and one of a single day.
Calendar == {<<1, 2>>, <<3, 3>>}

=============================================================================
