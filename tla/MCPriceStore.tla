---------------------------- MODULE MCPriceStore ----------------------------
(* Small instances of PriceStore for TLC: three days in two months. *)
EXTENDS PriceStore, TLC

CONSTANTS
    paid,   \* a bonus issue on day 2 halves its print, and nobody loses
    old,    \* its name before it was renamed
    huge    \* its prices are beyond the column's digits; in no bulletin

Months == [d \in Day |-> 1 + d \div 2]

Prints == [t \in Ticker |-> <<6, 5, 6>>]
Returns == [t \in Ticker |-> <<0, 0, 1>>]

\* The previous close of day 3 is wrong, or there is none.
Misprints == [t \in Ticker |-> IF t = old THEN {3} ELSE {}]
NotStated == [t \in Ticker |-> IF t = paid THEN {3} ELSE {}]

Symbols == [t \in Ticker |-> IF t = huge THEN "huge" ELSE "paid"]
Places == (old :> 1) @@ (paid :> 2) @@ (huge :> 3)

=============================================================================
