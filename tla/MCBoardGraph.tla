---------------------------- MODULE MCBoardGraph ----------------------------
(* Small instances of BoardGraph for TLC. *)
EXTENDS BoardGraph, TLC

CONSTANTS ali, eda, ALI, Ali, EDA, c1, c2, c3

\* ali trades under two spellings; the earlier trade may be stored later.
Normalized == (ALI :> ali) @@ (Ali :> ali) @@ (EDA :> eda)

SmallTrades == {[name |-> ALI, c |-> c1, day |-> 2],
                [name |-> Ali, c |-> c1, day |-> 1],
                [name |-> ALI, c |-> c2, day |-> 2],
                [name |-> EDA, c |-> c2, day |-> 1]}

\* One trade, one spelling.
OneTrade == {[name |-> ALI, c |-> c1, day |-> 2]}

Sitting(p, type, from) == [p |-> p, type |-> type, from |-> from]

\* c1 replaces ali by eda, with and without election dates; c2's page names
\* ali with a role text the type inference does not know.
SmallPages ==
    (c1 :> {{Sitting(ali, "BOARD", NoDay)},
            {Sitting(ali, "BOARD", 1), Sitting(eda, "EXEC", NoDay)}}) @@
    (c2 :> {{Sitting(ali, "SHAREHOLDER", 2)}}) @@
    (c3 :> {})

=============================================================================
