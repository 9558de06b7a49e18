--------------------------- MODULE LegacyBlotter ---------------------------
(***************************************************************************)
(* The filing of 2015-2020, a blotter of single trades with a totals       *)
(* block, as _parse_legacy_blotter reads it.  pdfminer puts the cells of   *)
(* its table in no stable order, so the parser takes only totals that      *)
(* check themselves or that the prose confirms, and nothing else.          *)
(*                                                                         *)
(* A text is what those checks can see of the document:                    *)
(*   labels   where the two totals labels stand: "apart" (cells between    *)
(*            them), "together", or "missing"                              *)
(*   between  the numbers between the labels                               *)
(*   after    the numbers after the label of the sells                     *)
(*   table    the numbers that are not in prose                            *)
(*   narr     <<bought, sold>> as the prose tells it, or <<>>              *)
(*   ranges   the narrated price ranges, <<low, high>> each                *)
(*   dates    the dates in the document                                    *)
(* A binding is <<bought, sold, amount bought, amount sold>>.              *)
(***************************************************************************)
EXTENDS Integers, Sequences, FiniteSets, SequencesExt

\* An amount that is not known.
NoAmount == -1

First(s, n) == SubSeq(s, 1, Min({n, Len(s)}))
Total(s) == FoldLeft(LAMBDA x, y : x + y, 0, s)

\* The buy side is bounded by the first range; the sell side by the last, and
\* by none when there is only one.
BuyRange(text) == IF text.ranges = <<>> THEN <<>> ELSE Head(text.ranges)
SellRange(text) == IF Len(text.ranges) > 1 THEN Last(text.ranges) ELSE <<>>

\* _check_side: the side did not trade, or its average price is plausible and
\* within a tenth of the narrated range.
CheckSide(qty, amt, range) ==
    \/ qty = 0 /\ amt = 0
    \/ /\ qty > 0 /\ amt > 0
       /\ qty <= 100 * amt /\ amt <= 100000 * qty
       /\ (range # <<>> /\ range[1] > 0) =>
            /\ 9 * range[1] * qty <= 10 * amt
            /\ 10 * amt <= 11 * range[2] * qty

\* Labels apart own the pair that follows them; the order of four cells after
\* labels that stand together is not known, so both are tried.
Bindings(text) ==
    IF text.labels = "apart"
    THEN IF Len(text.between) < 2 \/ Len(text.after) < 2 THEN {}
         ELSE {<<text.between[1], text.after[1], text.between[2], text.after[2]>>}
    ELSE IF Len(text.after) < 4 THEN {}
         ELSE LET n == text.after IN {<<n[1], n[2], n[3], n[4]>>, <<n[1], n[3], n[2], n[4]>>}

Survivors(text) ==
    {b \in Bindings(text) : CheckSide(b[1], b[3], BuyRange(text)) /\ CheckSide(b[2], b[4], SellRange(text))}


\* The binding that alone survives the checks, if one does.
ByTotals(text) == IF Cardinality(Survivors(text)) = 1 THEN Survivors(text) ELSE {}

\* The only adjacent pair, one of the two zero, that is the sum of all numbers
\* before it: the totals of the quantities listed first.
ByQuantitySum(text) ==
    LET s == First(text.after, 16)
        IsPair(k) == /\ s[k] >= 0 /\ s[k + 1] >= 0 /\ (s[k] = 0) # (s[k + 1] = 0)
                     /\ Total(SubSeq(s, 1, k - 1)) = s[k] + s[k + 1]
        pairs == {<<s[k], s[k + 1]>> : k \in {k \in 3..(Len(s) - 1) : IsPair(k)}}
    IN {<<p[1], p[2], NoAmount, NoAmount>> : p \in {p \in pairs : Cardinality(pairs) = 1}}

\* The most valuable of the trades c, <<quantity, price>>.
Dearest(cands) == CHOOSE c \in cands : \A d \in cands : d[1] * d[2] <= c[1] * c[2]

\* _exact_triples: the trades whose three cells, quantity * price = amount, can
\* be told apart, the most valuable claiming its cells first: <<quantity, amount>>
\* of them all.
ExactTriples(table) ==
    LET nums == Range(table)
        cands == {c \in nums \X nums : /\ c[1] > c[2] /\ c[2] > 1
                                       /\ c[1] * c[2] \in nums}
        pool == [n \in nums |-> Cardinality({i \in DOMAIN table : table[i] = n})]
        Claim(acc, k) ==
            LET c == Dearest(acc.left)
                cells == {c[1] * c[2], c[1], c[2]}
                taken == \A n \in cells : acc.pool[n] > 0
            IN [left |-> acc.left \ {c},
                pool |-> [n \in nums |-> acc.pool[n] - IF taken /\ n \in cells THEN 1 ELSE 0],
                qty |-> acc.qty + IF taken THEN c[1] ELSE 0,
                amt |-> acc.amt + IF taken THEN c[1] * c[2] ELSE 0]
        all == FoldLeft(Claim, [left |-> cands, pool |-> pool, qty |-> 0, amt |-> 0],
                        [k \in 1..Cardinality(cands) |-> k])
    IN <<all.qty, all.amt>>

\* The quantities of the prose, when exact triples add up to them and give a
\* price in range.
ByTriples(text) ==
    LET nb == text.narr[1]
        ns == text.narr[2]
        t == ExactTriples(text.table)
        range == IF nb > 0 \/ SellRange(text) = <<>> THEN BuyRange(text) ELSE SellRange(text)
    IN IF text.narr = <<>> THEN {}
       ELSE IF (nb = 0) # (ns = 0) /\ t[1] > 0 /\ t[1] = nb + ns /\ CheckSide(nb + ns, t[2], range)
       THEN {<<nb, ns, IF nb > 0 THEN t[2] ELSE NoAmount, IF ns > 0 THEN t[2] ELSE NoAmount>>}
       ELSE {}

\* The quantities of the prose, when the table has them as cells.
ByCells(text) ==
    IF text.narr # <<>> /\ text.narr # <<0, 0>> /\ Range(text.narr) \subseteq Range(text.table) \cup {0}
    THEN {<<text.narr[1], text.narr[2], NoAmount, NoAmount>>}
    ELSE {}

\* The first source that gives an answer; its trades, netted over the filing
\* and dated by the latest date up to the day of publication.
Resolved(text) ==
    IF ByTotals(text) # {} THEN ByTotals(text)
    ELSE IF ByQuantitySum(text) # {} THEN ByQuantitySum(text)
    ELSE IF ByTriples(text) # {} THEN ByTriples(text)
    ELSE ByCells(text)

LegacyTrades(text, published) ==
    LET days == {d \in text.dates : d <= published}
        legs == UNION {{[side |-> "BUY", qty |-> b[1], amt |-> b[3]],
                        [side |-> "SELL", qty |-> b[2], amt |-> b[4]]} : b \in Resolved(text)}
    IN IF text.labels = "missing" \/ days = {} THEN {}
       ELSE {[date |-> Max(days), side |-> l.side, qty |-> l.qty, amt |-> l.amt,
              post |-> NoAmount, pct |-> NoAmount] : l \in {l \in legs : l.qty # 0}}

=============================================================================
