---------------------------- MODULE MCListFetch -----------------------------
(* Small instances of ListFetch for TLC. *)
EXTENDS ListFetch
=============================================================================
