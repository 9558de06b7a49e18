----------------------------- MODULE DkbParser -----------------------------
(***************************************************************************)
(* parse_dkb_transactions: the trades of one filing, from the lines        *)
(* pdfminer makes of its PDF.  A filing of the years since 2021 is a table *)
(* of one row per day, a date and nine numbers, which the scanner finds by *)
(* its dates and whose columns it proves by the arithmetic of the form; an *)
(* older one goes to LegacyBlotter.                                        *)
(*                                                                         *)
(* The document is chosen with what it truly reports.  What pdfminer does  *)
(* to it is not the program's: it may put two cells on a line, break a row *)
(* by words, or bury a cell in a line of text, which loses it.             *)
(***************************************************************************)
EXTENDS LegacyBlotter

CONSTANTS
    Doc,        \* documents: see IsTable
    Breaks,     \* how many words a page break may put into a row
    SkipLimit,  \* the words the scanner tolerates in a row
    Tol         \* _NOMINAL_TOL

Columns == 9

\* A document is a table, [rows, tail, published]: its rows, each [date, buy, sell,
\* start, pcts] with the four percentages, and the tokens that follow them; or a
\* blotter, [trades, text, published]: its trades [date, side, qty, amt], netted,
\* and the text pdfminer made of them.
IsTable(d) == "rows" \in DOMAIN d

ASSUME LimitAssumption == SkipLimit \in Nat /\ Tol \in Nat /\ Breaks \subseteq Nat

VARIABLES
    doc,        \* the document,
    intact,     \* whether pdfminer left all its cells readable
    tokens,     \* the cells and words the scanner sees
    pos,        \* where it is,
    anchor,     \* the date that began the row,
    cells,      \* the row's numbers so far
    skips,      \* and the words it may still contain
    rows,       \* the rows found
    txs,        \* the trades returned
    pc

scan == <<pos, anchor, cells, skips, rows>>
vars == <<doc, intact, tokens, scan, txs, pc>>

Num(n) == [kind |-> "num", val |-> n]
Date(d) == [kind |-> "date", val |-> d]
Word == [kind |-> "word", val |-> 0]

Init ==
    /\ doc \in Doc
    /\ intact = TRUE
    /\ tokens = <<>>
    /\ pos = 1 /\ anchor = 0 /\ cells = <<>> /\ skips = 0 /\ rows = <<>>
    /\ txs = {}
    /\ pc = "new"

-----------------------------------------------------------------------------
(* The document *)

Abs(n) == IF n < 0 THEN -n ELSE n
Net(r) == r.buy - r.sell

\* A row of the form, each cell on a line of its own.
RowLines(r) ==
    <<Date(r.date), Num(r.buy), Num(r.sell), Num(Abs(Net(r))), Num(r.start), Num(r.start + Net(r))>>
        \o [i \in 1..4 |-> Num(r.pcts[i])]

Lines(d) ==
    LET all == FlattenSeq([k \in DOMAIN d.rows |-> RowLines(d.rows[k])]) \o d.tail
    IN [i \in DOMAIN all |-> <<all[i]>>]

Words(n) == [i \in 1..n |-> <<Word>>]

Before(lines, i) == SubSeq(lines, 1, i - 1)
From(lines, i) == SubSeq(lines, i, Len(lines))

\* pdfminer leaves every cell readable: nothing happens, two numbers share a
\* line, or a page break puts a few words before one.
Intact(lines) ==
    {lines}
    \cup {Before(lines, i) \o <<lines[i] \o lines[i + 1]>> \o From(lines, i + 2) :
            i \in {i \in 1..(Len(lines) - 1) : {lines[i][1].kind, lines[i + 1][1].kind} = {"num"}}}
    \cup {Before(lines, i) \o Words(n) \o From(lines, i) :
            i \in DOMAIN lines, n \in {n \in Breaks : n <= SkipLimit}}

\* It does not: a break of many words, two adjacent cells in one line of text, or
\* any two cells in lines of text of their own.
Damaged(lines) ==
    {Before(lines, i) \o Words(n) \o From(lines, i) :
        i \in DOMAIN lines, n \in {n \in Breaks : n > SkipLimit}}
    \cup {Before(lines, i) \o Words(1) \o From(lines, i + 2) : i \in DOMAIN lines}
    \cup {[k \in DOMAIN lines |-> IF k \in {i, j} THEN <<Word>> ELSE lines[k]] :
            i \in DOMAIN lines, j \in DOMAIN lines}

\* Mutant: a line of several numbers is one token, and not a number.
TokensOfWhole(line) == IF Len(line) > 1 THEN <<Word>> ELSE line

\* A line is one cell, or several if all of them are numbers.
TokensOf(line) ==
    IF Len(line) > 1 /\ \E i \in DOMAIN line : line[i].kind # "num" THEN <<Word>> ELSE line

Tokens(lines) == FlattenSeq([i \in DOMAIN lines |-> TokensOf(lines[i])])

\* What becomes of each document, with and without all its cells.
Readings ==
    [d \in {d \in Doc : IsTable(d)} |-> [intact |-> {Tokens(l) : l \in Intact(Lines(d))},
                          damaged |-> {Tokens(l) : l \in Damaged(Lines(d))}]]

Extract ==
    /\ pc = "new" /\ IsTable(doc)
    /\ \/ tokens' \in Readings[doc].intact /\ intact' = TRUE
       \/ tokens' \in Readings[doc].damaged /\ intact' = FALSE
    /\ pc' = "scan"
    /\ UNCHANGED <<doc, scan, txs>>

-----------------------------------------------------------------------------
(* _extract_table_rows *)

At(i) == IF i <= Len(tokens) THEN tokens[i].kind ELSE "end"

\* A date begins a row; anything else is passed.
Anchor ==
    /\ pc = "scan" /\ At(pos) = "date"
    /\ anchor' = pos /\ pos' = pos + 1
    /\ cells' = <<>> /\ skips' = SkipLimit
    /\ pc' = "collect"
    /\ UNCHANGED <<doc, intact, tokens, rows, txs>>

Pass ==
    /\ pc = "scan" /\ At(pos) \in {"num", "word"}
    /\ pos' = pos + 1
    /\ UNCHANGED <<doc, intact, tokens, anchor, cells, skips, rows, txs, pc>>

TakeCell ==
    /\ pc = "collect" /\ At(pos) = "num" /\ Len(cells) < Columns
    /\ cells' = Append(cells, tokens[pos].val) /\ pos' = pos + 1
    /\ UNCHANGED <<doc, intact, tokens, anchor, skips, rows, txs, pc>>

SkipWord ==
    /\ pc = "collect" /\ At(pos) = "word" /\ Len(cells) < Columns /\ skips > 0
    /\ skips' = skips - 1 /\ pos' = pos + 1
    /\ UNCHANGED <<doc, intact, tokens, anchor, cells, rows, txs, pc>>

\* The row is full, or meets a word too many, the next date or the end.
RowEnds ==
    \/ Len(cells) = Columns
    \/ At(pos) \in {"date", "end"}
    \/ At(pos) = "word" /\ skips = 0

\* Mutant: a failed row is read again from its date.
EndRowAgain ==
    /\ pc = "collect" /\ RowEnds
    /\ IF Len(cells) >= 3
       THEN rows' = Append(rows, [date |-> tokens[anchor].val, cells |-> cells]) /\ pos' = pos
       ELSE pos' = anchor /\ UNCHANGED rows
    /\ cells' = <<>> /\ skips' = 0
    /\ pc' = "scan"
    /\ UNCHANGED <<doc, intact, tokens, anchor, txs>>

\* Three numbers make a row, and the scan goes on behind it; fewer do not, and
\* it goes on behind the date.
EndRow ==
    /\ pc = "collect" /\ RowEnds
    /\ IF Len(cells) >= 3
       THEN rows' = Append(rows, [date |-> tokens[anchor].val, cells |-> cells]) /\ pos' = pos
       ELSE pos' = anchor + 1 /\ UNCHANGED rows
    /\ cells' = <<>> /\ skips' = 0
    /\ pc' = "scan"
    /\ UNCHANGED <<doc, intact, tokens, anchor, txs>>

-----------------------------------------------------------------------------
(* _map_canonical_row *)

\* Mutant: the end of the position is not checked.
ProvedWithoutEnd(c) ==
    /\ Len(c) = Columns
    /\ c[1] >= 0 /\ c[2] >= 0 /\ c[1] # c[2]
    /\ Abs(Abs(c[1] - c[2]) - Abs(c[3])) <= Tol

\* The cells stand in their columns as far as the form's arithmetic can tell,
\* and the row is a trade.
Proved(c) ==
    /\ Len(c) = Columns
    /\ c[1] >= 0 /\ c[2] >= 0 /\ c[1] # c[2]
    /\ Abs(Abs(c[1] - c[2]) - Abs(c[3])) <= Tol
    /\ Abs(c[4] + c[1] - c[2] - c[5]) <= Tol
    /\ \A i \in 6..9 : 0 <= c[i] /\ c[i] <= 100

Accepted(r) == r.date <= doc.published /\ Proved(r.cells)

\* The trade of a row; the price comes from the prose and is left out.
TradeOf(r) ==
    LET net == r.cells[1] - r.cells[2]
    IN [date |-> r.date, side |-> IF net > 0 THEN "BUY" ELSE "SELL", qty |-> Abs(net),
        amt |-> NoAmount, post |-> r.cells[5], pct |-> r.cells[8]]

Map ==
    /\ pc = "scan" /\ At(pos) = "end"
    /\ txs' = {TradeOf(r) : r \in {r \in Range(rows) : Accepted(r)}}
    /\ pc' = "done"
    /\ UNCHANGED <<doc, intact, tokens, scan>>

\* A document with a totals label goes through the legacy blotter.
ReadTotals ==
    /\ pc = "new" /\ ~IsTable(doc)
    /\ txs' = LegacyTrades(doc.text, doc.published)
    /\ pc' = "done"
    /\ UNCHANGED <<doc, intact, tokens, scan>>

-----------------------------------------------------------------------------

Next == Extract \/ Anchor \/ Pass \/ TakeCell \/ SkipWord \/ EndRow \/ Map \/ ReadTotals

Spec == Init /\ [][Next]_vars

\* A call runs to its end.
FairSpec == Spec /\ WF_vars(Next)

-----------------------------------------------------------------------------
(* Properties *)

Kinds == {"num", "date", "word"}

TypeOK ==
    /\ intact \in BOOLEAN
    /\ tokens \in Seq([kind : Kinds, val : Int])
    /\ pos \in 1..(Len(tokens) + 1)
    /\ anchor \in 0..Len(tokens)
    /\ cells \in Seq(Int) /\ Len(cells) <= Columns
    /\ skips \in 0..SkipLimit
    /\ rows \in Seq([date : Int, cells : Seq(Int)])
    /\ txs \subseteq [date : Int, side : {"BUY", "SELL"}, qty : Nat, amt : Int, post : Int, pct : Int]
    /\ pc \in {"new", "scan", "collect", "done"}

\* What a document truly reports: the rows that moved the position.
RealRows == {r \in Range(doc.rows) : Net(r) # 0}
RealTrade(r) ==
    [date |-> r.date, side |-> IF Net(r) > 0 THEN "BUY" ELSE "SELL", qty |-> Abs(Net(r)),
     amt |-> NoAmount, post |-> r.start + Net(r), pct |-> r.pcts[3]]
RealTrades ==
    IF IsTable(doc) THEN {RealTrade(r) : r \in RealRows}
    ELSE {[date |-> s.date, side |-> s.side, qty |-> s.qty, amt |-> s.amt,
           post |-> NoAmount, pct |-> NoAmount] : s \in doc.trades}

\* A number that is not the k-th row's may follow what is left of the row: one
\* behind the table, or of a next row whose date is lost.
Exposed(k) ==
    IF k = Len(doc.rows)
    THEN \E j \in DOMAIN doc.tail : doc.tail[j].kind = "num"
    ELSE Date(doc.rows[k + 1].date) \notin Range(tokens)

\* The totals labels stand before the table: behind them come a trade's quantity,
\* its price and their product.
LabelsFirst(text) ==
    LET n == text.after
    IN text.labels = "together" /\ Len(n) > 2 /\ n[1] > 0 /\ n[1] * n[2] = n[3]

\* What the parser's checks may take for a trade.
Mistakable(t) ==
    IF IsTable(doc)
    THEN ~intact /\ \E k \in DOMAIN doc.rows : t.date = doc.rows[k].date /\ Exposed(k)
    ELSE LabelsFirst(doc.text)


\* Nothing is lost of a document whose cells all arrive: cells sharing a line
\* and page breaks of a few words cost no trade.
IntactIsRead ==
    (pc = "done" /\ intact /\ IsTable(doc)) =>
        txs = RealTrades

\* "Rows that fail are dropped, never stored with guessed fields": each field
\* that is filled is the one the document reports.
NeverGuessed ==
    pc = "done" => \A t \in txs : \E s \in RealTrades :
        \A k \in DOMAIN t :
            t[k] = s[k] \/ (k \in {"amt", "post", "pct"} /\ t[k] = NoAmount)

\* The scan ends, although it goes back to behind the date when a row fails.
CallReturns == <>(pc = "done")

=============================================================================
