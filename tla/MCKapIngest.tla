---------------------------- MODULE MCKapIngest -----------------------------
(* Small instances of KapIngest for TLC. *)
EXTENDS KapIngest, TLC

CONSTANTS r1, r2, d1, d2, k1, k2, k3

\* One version each, both readable.
TradesPlain == (<<d1, 1>> :> {k1}) @@ (<<d2, 1>> :> {k1, k2})

\* d1 is corrected once; the two versions share a trade.
TradesCorrected == (<<d1, 1>> :> {k1, k2}) @@ (<<d1, 2>> :> {k1, k3})
UnreadableCorrected == {<<d1, 1>>, <<d1, 2>>}
FixableCorrected == {<<d1, 1>>}

None == {}

Interchangeable == Permutations(Run)

=============================================================================
