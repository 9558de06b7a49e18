---------------------------- MODULE MCDkbParser ----------------------------
(* Instances of DkbParser: documents of one and two rows, and blotters of  *)
(* one and two trades in every emission the comments of the parser name.   *)
EXTENDS DkbParser

Row(d, b, s, st, p) == [date |-> d, buy |-> b, sell |-> s, start |-> st, pcts |-> p]

Bought == Row(1, 300, 0, 1000, <<10, 12, 13, 15>>)
Sold == Row(2, 0, 200, 1300, <<13, 15, 11, 13>>)
SoldOut == Row(2, 0, 700, 700, <<1, 1, 0, 0>>)
First0 == Row(1, 500, 0, 0, <<0, 0, 40, 41>>)
Mixed == Row(1, 900, 400, 2000, <<20, 20, 25, 25>>)
Flat == Row(2, 400, 400, 2000, <<20, 20, 20, 20>>)
\* Without its first number, and a 7 behind it, a trade of 10 that leaves 30.
Shifts == Row(1, 10, 0, 10, <<30, 30, 13, 15>>)

\* What may follow the table: page numbers, a sentence with a quantity, or the day
\* of the signature.
Tails == {<<>>, <<Word, Num(2)>>, <<Word, Word, Num(300), Word, Word>>, <<Num(7), Num(3)>>,
          <<Word, Date(2), Num(7)>>}

Tables == {<<Bought>>, <<Shifts>>, <<SoldOut>>, <<First0>>, <<Bought, Sold>>, <<Mixed, Sold>>, <<Bought, Flat>>}

CanonicalDocs == {[rows |-> r, tail |-> t, published |-> 2] : r \in Tables, t \in Tails}

-----------------------------------------------------------------------------

Trade(side, qty, price) == [side |-> side, qty |-> qty, price |-> price]

Blotters == {<<Trade("BUY", 300, 5)>>, <<Trade("SELL", 700, 3)>>,
             <<Trade("BUY", 300, 5), Trade("BUY", 400, 5)>>,
             <<Trade("BUY", 200, 3), Trade("SELL", 500, 4)>>}

SumOver(ts, side, Of(_)) == Total([i \in DOMAIN ts |-> IF ts[i].side = side THEN Of(ts[i]) ELSE 0])
Qty(ts, side) == SumOver(ts, side, LAMBDA t : t.qty)
Amt(ts, side) == SumOver(ts, side, LAMBDA t : t.qty * t.price)

CellsOf(ts) == FlattenSeq([i \in DOMAIN ts |-> <<ts[i].qty, ts[i].price, ts[i].qty * ts[i].price>>])
Qtys(ts) == [i \in DOMAIN ts |-> ts[i].qty]

\* The holdings that follow the totals.
Holding == <<9000>>

\* The numbers of the table, of which some stand between the labels or behind them.
Emission(labels, before, between, after) ==
    [labels |-> labels, between |-> between, after |-> after, table |-> before \o between \o after]

\* The totals as pdfminer puts them: each pair behind its label, both behind both
\* in two orders, the quantities of the trades before their totals, or nothing
\* behind the labels.
Emissions(ts) ==
    LET bq == Qty(ts, "BUY")
        sq == Qty(ts, "SELL")
        ba == Amt(ts, "BUY")
        sa == Amt(ts, "SELL")
        rowcells == CellsOf(ts)
    IN {Emission("apart", rowcells, <<bq, ba>>, <<sq, sa>> \o Holding),
        Emission("together", rowcells, <<>>, <<bq, sq, ba, sa>> \o Holding),
        Emission("together", rowcells, <<>>, <<bq, ba, sq, sa>> \o Holding),
        Emission("together", <<>>, <<>>, Qtys(ts) \o <<bq, sq>> \o Holding),
        Emission("together", rowcells, <<>>, <<>>),
        Emission("missing", rowcells, <<>>, <<>>)}

\* The labels come first, and the cells of the table behind them.
LabelsBefore(ts) == {Emission("together", <<>>, <<>>, CellsOf(ts) \o Holding)}

\* The prose tells nothing, the quantities, or the trades and then their sum.
Told(ts) ==
    {<<>>, <<Qty(ts, "BUY"), Qty(ts, "SELL")>>, <<2 * Qty(ts, "BUY"), 2 * Qty(ts, "SELL")>>}

Span(ts) == <<ts[1].price, ts[1].price>>

\* A range of prices for no side, for one, or for each.
Ranges(ts) == {<<>>, <<Span(ts)>>, <<Span(ts), Span(<<Last(ts)>>)>>}

BlotterDocs(emitted(_)) ==
    UNION {{[published |-> 2,
             trades |-> {[date |-> 2, side |-> s, qty |-> Qty(ts, s), amt |-> Amt(ts, s)] :
                            s \in {s \in {"BUY", "SELL"} : Qty(ts, s) > 0}},
             text |-> e @@ [narr |-> n, ranges |-> r, dates |-> d]] :
                e \in emitted(ts), n \in Told(ts), r \in Ranges(ts), d \in {{1, 2}, {1, 2, 3}, {3}}} :
           ts \in Blotters}

\* All documents, and those of the run that finds fields guessed.
Docs == CanonicalDocs \cup BlotterDocs(LAMBDA ts : Emissions(ts) \cup LabelsBefore(ts))
LabelsFirstDocs == BlotterDocs(LabelsBefore)

=============================================================================
