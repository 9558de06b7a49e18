----------------------------- MODULE PriceStore -----------------------------
(***************************************************************************)
(* price_history and its two writers.  load_official_prices chains the     *)
(* exchange's monthly bulletins into a total-return index, because a       *)
(* bulletin quotes raw prints and a corporate action moves those; `prices  *)
(* backfill` asks yfinance, which adjusts backwards from its last close    *)
(* and serves nothing for a delisted ticker.  A row the bulletin wrote has *)
(* a raw close, and yfinance leaves it alone.                              *)
(*                                                                         *)
(* A price is its logarithm to base 2, so that a return is a difference    *)
(* and the chain a sum.                                                    *)
(***************************************************************************)
EXTENDS Integers, FiniteSets, FiniteSetsExt, Sums

CONSTANTS
    Ticker,
    LastDay,    \* bound: the last day of the model
    Month,      \* Month[d]: the bulletin day d is in, a number
    Raw,        \* Raw[t][d]: the close as printed
    Ret,        \* Ret[t][d]: the return of day d, corporate actions netted out
    Misprint,   \* Misprint[t]: days whose recorded previous close is faulty
    Unstated,   \* Unstated[t]: days without a recorded previous close
    Listed,     \* tickers in the bulletins, every day; the benchmark is in none
    Served,     \* tickers yfinance has: not the delisted
    Symbol,     \* Symbol[t]: what yfinance calls it; renamed tickers share one
    Place,      \* Place[t]: where it stands in the list of tickers to load
    Refused,    \* tickers with a price the database refuses
    Starts,     \* the months a bulletin load may start from (--from)
    Backs,      \* how many days back a yfinance load may ask (--days)
    MaxRatio    \* _MAX_DAY_RATIO; _MIN_DAY_RATIO is its inverse

Day == 1..LastDay
Bulletin == {Month[d] : d \in Day}

ASSUME DaysAssumption == LastDay \in Nat \ {0}
ASSUME MonthAssumption ==
    Month \in [Day -> Nat] /\ \A d, e \in Day : d <= e => Month[d] <= Month[e]
ASSUME PriceAssumption == Raw \in [Ticker -> [Day -> Int]] /\ Ret \in [Ticker -> [Day -> Int]]
ASSUME FaultAssumption ==
    Misprint \in [Ticker -> SUBSET Day] /\ Unstated \in [Ticker -> SUBSET Day]
ASSUME TickerAssumption ==
    Listed \subseteq Ticker /\ Served \subseteq Ticker /\ Refused \subseteq Ticker
ASSUME RatioAssumption == MaxRatio \in Nat
ASSUME PlaceAssumption ==
    Place \in [Ticker -> Nat] /\ \A t, u \in Ticker : Place[t] = Place[u] => t = u
ASSUME LoadAssumption == Starts \subseteq Nat /\ Backs \subseteq Nat

\* What the prints must be for the bulletin to be right about returns: day by
\* day the print moves by the return unless there is a corporate action, and
\* without a recorded previous close there was none.
ASSUME UnstatedAssumption ==
    \A t \in Ticker : \A d \in Unstated[t] \ {1} : Raw[t][d] - Raw[t][d - 1] = Ret[t][d]

VARIABLES
    today,
    archive,    \* bulletins downloaded so far
    rows,       \* price_history: <<ticker, day>> -> close and source
    loader,     \* load_official_prices between its reading and its commit
    fetch,      \* fetch_and_store_prices: batches to do, open transaction, results
    seams       \* history: where a ticker's rows of one source start on a scale of their own

vars == <<today, archive, rows, loader, fetch, seams>>

Key == Ticker \X Day
NoRows == [k \in {} |-> {}]

NoFetch == [pc |-> "idle", days |-> {}, todo |-> {}, batch |-> {}, data |-> {},
            alone |-> FALSE, held |-> {}, failed |-> FALSE, lost |-> {}, undone |-> {}]

Init ==
    /\ today = 1
    /\ archive = {}
    /\ rows = NoRows
    /\ loader = [pc |-> "idle", batch |-> NoRows]
    /\ fetch = NoFetch
    /\ seams = {}

\* The returns of some days together: the gains, less the losses.
Total(r, days) == SumOf([d \in days |-> r[d]]) - SumOf([d \in days |-> -r[d]])

-----------------------------------------------------------------------------
(* The world *)

NextDay ==
    /\ today <= LastDay
    /\ today' = today + 1
    /\ UNCHANGED <<archive, rows, loader, fetch, seams>>

\* A month's bulletin is downloaded once the month is over, in order.
Download(m) ==
    /\ \A d \in Day : Month[d] <= m => d < today /\ (Month[d] < m => Month[d] \in archive)
    /\ archive' = archive \cup {m}
    /\ UNCHANGED <<today, rows, loader, fetch, seams>>

-----------------------------------------------------------------------------
(* load_official_prices *)

\* The bulletin's previous close of a day, as the exchange restates it.
Previous(t, d) == IF d \in Misprint[t] THEN Raw[t][d] + MaxRatio + 1 ELSE Raw[t][d] - Ret[t][d]

\* Mutant: the previous day's print.
BaseAsPrinted(t, d) == Raw[t][d - 1]

\* What a day's close is measured against.
Base(t, d) == IF d \in Unstated[t] THEN Raw[t][d - 1] ELSE Previous(t, d)

\* A ratio no session can have is rejected: the level is carried forward.
DayRatio(t, d) ==
    LET ratio == Raw[t][d] - Base(t, d)
    IN IF -MaxRatio <= ratio /\ ratio <= MaxRatio THEN ratio ELSE 0

\* chain_total_return: the level of a day in the series that starts at first.
Level(t, first, d) == Raw[t][first] + Total([e \in Day |-> DayRatio(t, e)], (first + 1)..d)

\* The whole span is read before anything is stored.
LoaderRead(from) ==
    /\ loader.pc = "idle"
    /\ LET days == {d \in Day : Month[d] \in archive /\ Month[d] >= from}
       IN /\ days # {}
          /\ loader' = [pc |-> "store",
                        batch |-> [k \in Listed \X days |->
                            [close |-> Level(k[1], Min(days), k[2]), official |-> TRUE]]]
    /\ UNCHANGED <<today, archive, rows, fetch, seams>>

\* Mutant: ON CONFLICT DO NOTHING.
OverwriteNothing(batch) ==
    [k \in DOMAIN batch \cup DOMAIN rows |-> IF k \in DOMAIN rows THEN rows[k] ELSE batch[k]]

\* ON CONFLICT DO UPDATE.
Overwrite(batch) ==
    [k \in DOMAIN batch \cup DOMAIN rows |-> IF k \in DOMAIN batch THEN batch[k] ELSE rows[k]]

\* A load's rows are on one scale, which its first row starts: what its source
\* stored from there on it replaces, and rows before that keep the scale they are on.
SeamsAfter(keys, official) ==
    LET first == {k \in keys : \A l \in keys : l[1] = k[1] => k[2] <= l[2]}
        Covers(k, s) == s.official = official /\ s.ticker = k[1] /\ k[2] <= s.day
    IN {s \in seams : \A k \in first : ~Covers(k, s)}
           \cup {[official |-> official, ticker |-> k[1], day |-> k[2]] : k \in first}

LoaderStore ==
    /\ loader.pc = "store"
    /\ rows' = Overwrite(loader.batch)
    /\ seams' = SeamsAfter(DOMAIN loader.batch, TRUE)
    /\ loader' = [pc |-> "idle", batch |-> NoRows]
    /\ UNCHANGED <<today, archive, fetch>>

\* Bound, here and in FetchDies: nothing dies once the last day is over.
LoaderDies ==
    /\ loader.pc # "idle"
    /\ today <= LastDay
    /\ loader' = [pc |-> "idle", batch |-> NoRows]
    /\ UNCHANGED <<today, archive, rows, fetch, seams>>

-----------------------------------------------------------------------------
(* fetch_and_store_prices *)

\* The days asked for: the range ends with today.
Asked(back) == Day \cap (today - back)..today

\* Bound: one batch of all tickers; a batch is a set of them.
FetchStart(back) ==
    /\ fetch.pc = "idle"
    /\ fetch' = [NoFetch EXCEPT !.pc = "download", !.days = Asked(back),
                                !.todo = {Ticker}, !.batch = Ticker]
    /\ UNCHANGED <<today, archive, rows, loader, seams>>

\* by_symbol: the rows of a symbol that several tickers share are filed under the last.
FiledUnder(t, batch) == \A u \in batch : Symbol[u] = Symbol[t] => Place[u] <= Place[t]

\* yfinance answers for some of the tickers asked for, or fails, for none;
\* lost remembers the requests for one ticker it did not answer.
FetchDownload(ts) ==
    /\ fetch.pc = "download"
    /\ ts \subseteq fetch.batch \cap Served
    /\ \A t \in ts : FiledUnder(t, fetch.batch)
    /\ fetch' = [fetch EXCEPT !.pc = "store", !.data = ts, !.held = {}, !.failed = FALSE,
                              !.lost = IF fetch.alone THEN @ \cup (fetch.batch \ ts) ELSE @]
    /\ UNCHANGED <<today, archive, rows, loader, seams>>

\* One ticker's upsert.  A database error is caught and logged, and fails
\* every later statement of the transaction too.
FetchUpsert(t) ==
    /\ fetch.pc = "store"
    /\ t \in fetch.data
    /\ \A u \in fetch.data : Place[t] <= Place[u]
    /\ LET fails == fetch.failed \/ t \in Refused
       IN fetch' = [fetch EXCEPT !.data = @ \ {t}, !.failed = fails,
                                 !.held = IF fails THEN @ ELSE @ \cup {t}]
    /\ UNCHANGED <<today, archive, rows, loader, seams>>

\* yfinance adjusts backwards from the last close it has.
Adjusted(t, d, last) == Raw[t][last] - Total(Ret[t], (d + 1)..last)

\* Mutant: yfinance's close replaces the index.
MayReplaceAny(k) == TRUE

\* ... WHERE raw_close_try IS NULL.
MayReplace(k) == k \notin DOMAIN rows \/ ~rows[k].official

FetchedRows ==
    [k \in {k \in fetch.held \X fetch.days : MayReplace(k)} |->
        [close |-> Adjusted(k[1], k[2], Max(fetch.days \cap Day)), official |-> FALSE]]

\* Mutant: what was asked for is taken for what came.
StillMissingNever(got) == {}

\* What the batch did not deliver is asked for alone.
StillMissing(got) == IF fetch.alone THEN {} ELSE {{t} : t \in Ticker \ got}

\* The commit: of a failed transaction it is a rollback, without an error, and
\* undone remembers the tickers it undoes: they had been counted, and are not
\* asked for again.
FetchCommit ==
    /\ fetch.pc = "store"
    /\ fetch.data = {}
    /\ rows' = IF fetch.failed THEN rows ELSE Overwrite(FetchedRows)
    /\ seams' = IF fetch.failed THEN seams ELSE SeamsAfter(DOMAIN FetchedRows, FALSE)
    /\ LET left == (fetch.todo \ {fetch.batch}) \cup StillMissing(fetch.held)
       IN fetch' = IF left = {} THEN NoFetch
                   ELSE [fetch EXCEPT !.pc = "download", !.todo = left, !.alone = TRUE,
                                      !.held = {}, !.failed = FALSE,
                                      !.undone = IF fetch.failed THEN @ \cup fetch.held ELSE @,
                                      !.batch = CHOOSE b \in left : TRUE]
    /\ UNCHANGED <<today, archive, loader>>

FetchDies ==
    /\ fetch.pc # "idle"
    /\ today <= LastDay
    /\ fetch' = NoFetch
    /\ UNCHANGED <<today, archive, rows, loader, seams>>

-----------------------------------------------------------------------------

LoaderStep == (\E from \in Starts : LoaderRead(from)) \/ LoaderStore

FetchStep ==
    \/ \E back \in Backs : FetchStart(back)
    \/ \E ts \in SUBSET Ticker : FetchDownload(ts)
    \/ \E t \in Ticker : FetchUpsert(t)
    \/ FetchCommit

Next ==
    \/ NextDay
    \/ \E m \in Bulletin : Download(m)
    \/ LoaderStep \/ LoaderDies
    \/ FetchStep \/ FetchDies

Spec == Init /\ [][Next]_vars

\* Days pass, bulletins are downloaded, and the loader is run again and again from
\* the first month, its default, whatever other runs of it there are.
FairSpec ==
    /\ Spec
    /\ WF_vars(NextDay)
    /\ \A m \in Bulletin : WF_vars(Download(m))
    /\ SF_vars(LoaderRead(Month[1])) /\ WF_vars(LoaderStore)

-----------------------------------------------------------------------------
(* Properties *)

TypeOK ==
    /\ today \in 1..LastDay + 1
    /\ archive \subseteq Bulletin
    /\ DOMAIN rows \subseteq Ticker \X (1..today)
    /\ \A k \in DOMAIN rows : rows[k] \in [close : Int, official : BOOLEAN]
    /\ DOMAIN loader.batch \subseteq Key
    /\ fetch.held \subseteq Served /\ fetch.data \subseteq Served /\ fetch.lost \subseteq Ticker
    /\ seams \subseteq [official : BOOLEAN, ticker : Ticker, day : Day]

\* What a position from day d to day e has earned.
Return(t, d, e) == Total(Ret[t], (d + 1)..e)

RightBetween(t, d, e) == rows[<<t, e>>].close - rows[<<t, d>>].close = Return(t, d, e)

\* No misprint lies between: the loader carries the level over it.
Clean(t, d, e) == (d + 1)..e \cap Misprint[t] = {}

\* A load that started later, on another scale, has left its mark between.
Seam(official, t, d, e) ==
    \E s \in seams : s.official = official /\ s.ticker = t /\ s.day \in (d + 1)..e

\* Between two rows of one source the difference is the return, across any
\* corporate action, unless the later is from a load that started after the
\* earlier (--from, --days), and no load since has read them both: then an earlier
\* load's scale ends there (chain_total_return, _store and _fetch_batch).
SameSourceReturns ==
    \A k, l \in DOMAIN rows :
        (/\ k[1] = l[1] /\ k[2] < l[2] /\ rows[k].official = rows[l].official
         /\ rows[k].official => Clean(k[1], k[2], l[2])
         /\ ~Seam(rows[k].official, k[1], k[2], l[2]))
        => RightBetween(k[1], k[2], l[2])

\* Claimed of the column as a whole: "close_try is a chained total-return index -
\* correct for returns" (README), whatever wrote its rows.
AnyReturn ==
    \A k, l \in DOMAIN rows :
        (k[1] = l[1] /\ k[2] < l[2] /\ Clean(k[1], k[2], l[2])) => RightBetween(k[1], k[2], l[2])

\* A row of the bulletin is never handed back to yfinance, not by a download
\* that began before the bulletin was loaded either.
OfficialStays ==
    [][\A k \in DOMAIN rows : rows[k].official => k \in DOMAIN rows' /\ rows'[k].official]_rows

\* Whatever a batch dropped, and under whichever name a shared symbol was filed:
\* when a load returns, every ticker yfinance has is stored up to its last day,
\* unless yfinance was asked for that ticker alone and gave nothing, or the
\* database refuses it.  "One bad symbol cannot take its neighbours down with it"
\* (fetch_and_store_prices), but for those counted before the database refused it
\* in their transaction; the ones behind it are asked for again.
RetryHealsBatch ==
    [][FetchCommit /\ fetch' = NoFetch
        => \A t \in Served \ (fetch.lost \cup Refused \cup fetch.undone) :
                \A d \in fetch.days : <<t, d>> \in DOMAIN rows']_<<fetch, rows>>

\* Claimed without that exception (fetch_and_store_prices).
NeighboursUnharmed ==
    [][FetchCommit /\ fetch' = NoFetch
        => \A t \in Served \ (fetch.lost \cup Refused) :
                \A d \in fetch.days : <<t, d>> \in DOMAIN rows']_<<fetch, rows>>

\* Every session a bulletin covers becomes official, for the delisted too and
\* over what yfinance stored there before.
ArchiveArrives ==
    \A m \in Bulletin : m \in archive ~>
        \A t \in Listed, d \in Day :
            Month[d] = m => <<t, d>> \in DOMAIN rows /\ rows[<<t, d>>].official

=============================================================================
