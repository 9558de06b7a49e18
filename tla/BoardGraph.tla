----------------------------- MODULE BoardGraph -----------------------------
(***************************************************************************)
(* The role history behind the company graph, and its two writers: the     *)
(* board scraper, which replaces a company's KAP_YONETIM rows one company  *)
(* per transaction, and the seeder, which derives KAP_INSIDER_TX rows from *)
(* the stored trades in one transaction.  Both refresh board_interlocks, a *)
(* materialized view whose unique index refuses a person with two open     *)
(* rows at one company (and an open row at another).                       *)
(*                                                                         *)
(* Roles carry no title: a KAP trade has none, so its role_type is always  *)
(* SHAREHOLDER, and a board page gives the type directly.                  *)
(***************************************************************************)
EXTENDS Integers, FiniteSets, FiniteSetsExt

CONSTANTS
    Person,     \* normalized names
    Name,       \* names as they are spelled in the filings
    Norm,       \* normalize_name: [Name -> Person]
    Company,    \* tickers
    Known,      \* tickers of config/known_companies.yaml
    Generic,    \* tickers whose API title is the platform's own
    Day,        \* dates, a set of positive numbers
    Trade,      \* the trades the ingest may store: records [name, c, day]
    Pages       \* Pages[c]: the boards KAP's page of c may show

NoDay == 0
Type == {"BOARD", "EXEC", "AUDITOR", "SHAREHOLDER"}
Member == [p : Person, type : Type, from : Day \cup {NoDay}]

ASSUME NormAssumption == Norm \in [Name -> Person]
ASSUME DayAssumption == Day \subseteq Nat \ {NoDay}
ASSUME TradeAssumption == Trade \subseteq [name : Name, c : Company, day : Day]
ASSUME CompanyAssumption ==
    /\ Known \subseteq Company /\ Generic \subseteq Company
    /\ {"idle", "fetch"} \cap Company = {}
ASSUME PagesAssumption == Pages \in [Company -> SUBSET (SUBSET Member)]

VARIABLES
    trades,     \* kap_insider_transactions
    persons,    \* persons
    companies,  \* companies
    roles,      \* person_company_roles
    view,       \* board_interlocks, as person and pair of companies
    scraper,    \* scrape_all_companies: control, companies to do, page in hand
    seeder      \* the seeder's open transaction: control, inserts so far

vars == <<trades, persons, companies, roles, view, scraper, seeder>>

-----------------------------------------------------------------------------

Role == [p : Person, c : Company, type : Type, from : Day \cup {NoDay},
         src : {"KAP_YONETIM", "KAP_INSIDER_TX"}, open : BOOLEAN]

TxRows == {r \in roles : r.src = "KAP_INSIDER_TX"}
Board(c) == {r \in roles : r.src = "KAP_YONETIM" /\ r.c = c}

\* uq_person_company_role; NULL dates never collide.
Collide(r, s) ==
    /\ r.from # NoDay
    /\ <<r.p, r.c, r.type, r.from>> = <<s.p, s.c, s.type, s.from>>

Active(rs) == {r \in rs : r.open}

\* The pairs of rows the view joins, and the key of its unique index.
Joined(rs) == {rr \in Active(rs) \X Active(rs) : rr[1].p = rr[2].p /\ rr[1].c # rr[2].c}
Interlocks(rs) == {<<rr[1].p, {rr[1].c, rr[2].c}>> : rr \in Joined(rs)}
IndexRefuses(rs) ==
    \E rr, ss \in Joined(rs) :
        rr # ss /\ rr[1].p = ss[1].p /\ rr[1].c = ss[1].c /\ rr[2].c = ss[2].c

Init ==
    /\ trades = {}
    /\ persons = {}
    /\ companies = {}
    /\ roles = {}
    /\ view = {}
    /\ scraper = [pc |-> "idle", todo |-> {}, page |-> {}]
    /\ seeder = [pc |-> "idle", persons |-> {}, companies |-> {}, rows |-> {}]

\* The ingest stores a trade, of any date.
StoreTrade(t) ==
    /\ trades' = trades \cup {t}
    /\ UNCHANGED <<persons, companies, roles, view, scraper, seeder>>

-----------------------------------------------------------------------------
(* The board scraper *)

\* All companies, or the one of --ticker.
ScrapeStart(tickers) ==
    /\ scraper.pc = "idle"
    /\ scraper' = [pc |-> "fetch", todo |-> tickers, page |-> {}]
    /\ UNCHANGED <<trades, persons, companies, roles, view, seeder>>

\* fetch_board: a page, or [] for a missing permalink, a failed request or a
\* page without the table.
FetchBoard(c, page) ==
    /\ scraper.pc = "fetch"
    /\ c \in scraper.todo
    /\ page \in Pages[c] \cup {{}}
    /\ scraper' = [scraper EXCEPT !.pc = c, !.page = page]
    /\ UNCHANGED <<trades, persons, companies, roles, view, seeder>>

BoardRows(c, page) ==
    {[p |-> m.p, c |-> c, type |-> m.type, from |-> m.from,
      src |-> "KAP_YONETIM", open |-> TRUE] : m \in page}

\* Mutant: every trader of the company is closed, on the board or not.
CloseTradersOfCompany(rs, c, page) ==
    {IF page # {} /\ r.c = c /\ r.src = "KAP_INSIDER_TX"
     THEN [r EXCEPT !.open = FALSE] ELSE r : r \in rs}

\* Mutant: only the row of the same date is closed.
CloseSameDate(rs, c, page) ==
    {IF \E m \in page : /\ r.p = m.p /\ r.c = c /\ r.from = m.from
                        /\ r.src = "KAP_INSIDER_TX"
     THEN [r EXCEPT !.open = FALSE] ELSE r : r \in rs}

\* The open rows the seeder wrote for a member are closed.
CloseTraders(rs, c, page) ==
    {IF r.p \in {m.p : m \in page} /\ r.c = c /\ r.src = "KAP_INSIDER_TX"
     THEN [r EXCEPT !.open = FALSE] ELSE r : r \in rs}

\* Mutant: the company's old board rows stay.
WithoutBoardKeepingIt(c) == roles

\* Full replacement of the company's KAP_YONETIM rows.
WithoutBoard(c) == roles \ Board(c)

\* A member the seeder is inserting, or a row it holds, makes the scraper's
\* insert wait for the seeder's transaction.
Waits(c, page) ==
    \/ {m.p : m \in page} \cap (seeder.persons \ persons) # {}
    \/ \E r \in BoardRows(c, page), s \in seeder.rows : Collide(r, s)

\* upsert_management_roles, one transaction: a collision with a row of the
\* seeder takes everything back, the deletion included.
StoreBoard(c) ==
    /\ scraper.pc = c
    /\ LET page == scraper.page
           new  == BoardRows(c, page)
           kept == CloseTraders(WithoutBoard(c), c, page)
           fails == \E r \in new, s \in kept : Collide(r, s)
       IN /\ ~Waits(c, page)
          /\ IF c \notin companies \/ fails
             THEN UNCHANGED <<roles, persons>>
             ELSE /\ roles' = kept \cup new
                  /\ persons' = persons \cup {m.p : m \in page}
    /\ scraper' = [scraper EXCEPT !.pc = "fetch", !.todo = @ \ {c}, !.page = {}]
    /\ UNCHANGED <<trades, companies, view, seeder>>

\* The refresh after the last company; refused, it raises out of the scraper.
ScrapeRefresh ==
    /\ scraper.pc = "fetch"
    /\ scraper.todo = {}
    /\ view' = IF IndexRefuses(roles) THEN view ELSE Interlocks(roles)
    /\ scraper' = [scraper EXCEPT !.pc = "idle"]
    /\ UNCHANGED <<trades, persons, companies, roles, seeder>>

\* The process is killed; the companies it committed stay.
ScrapeDies ==
    /\ scraper.pc # "idle"
    /\ scraper' = [pc |-> "idle", todo |-> {}, page |-> {}]
    /\ UNCHANGED <<trades, persons, companies, roles, view, seeder>>

-----------------------------------------------------------------------------
(* The seeder *)

\* _resolve_company_name has a name to store.
Nameable(c) == c \in Known \/ c \notin Generic

\* person_map.get(normalize_name(...)).
Owner(t) == Norm[t.name]

\* Steps 1 and 2: persons and companies of the stored trades.
SeedRead ==
    /\ seeder.pc = "idle"
    /\ seeder' = [pc |-> "read",
                  persons |-> persons \cup {Owner(t) : t \in trades},
                  companies |-> companies \cup Known
                                    \cup {c \in {t.c : t \in trades} : Nameable(c)},
                  rows |-> {}]
    /\ UNCHANGED <<trades, persons, companies, roles, view, scraper>>

\* Persons and companies of trades stored since are not in the seed's maps.
Mapped(t) == Owner(t) \in seeder.persons /\ t.c \in seeder.companies

\* The rows of step 3: one per name as spelled and company, open since the
\* first trade.
TraderRows ==
    {[p |-> Owner(t), c |-> t.c, type |-> "SHAREHOLDER", src |-> "KAP_INSIDER_TX",
      from |-> Min({u.day : u \in {u \in trades : u.name = t.name /\ u.c = t.c}}),
      open |-> TRUE] :
        t \in {t \in trades : Mapped(t)}}

\* ON CONFLICT DO NOTHING: a row already there, open or closed, is left alone.
Fresh(rows) == {r \in rows : ~\E s \in roles : Collide(r, s)}

\* Step 3, not yet visible to the scraper.
SeedInsert ==
    /\ seeder.pc = "read"
    /\ seeder' = [seeder EXCEPT !.pc = "insert", !.rows = Fresh(TraderRows)]
    /\ UNCHANGED <<trades, persons, companies, roles, view, scraper>>

\* Mutant: a conflicting row is opened again.
SeededReopening ==
    {IF \E s \in TraderRows : Collide(r, s) THEN [r EXCEPT !.open = TRUE] ELSE r : r \in roles}
        \cup seeder.rows

Seeded == roles \cup seeder.rows

\* Step 4 and the commit: refused by the index, the whole seed is taken back.
SeedCommit ==
    /\ seeder.pc = "insert"
    /\ ~IndexRefuses(Seeded)
    /\ persons' = persons \cup seeder.persons
    /\ companies' = companies \cup seeder.companies
    /\ roles' = Seeded
    /\ view' = Interlocks(Seeded)
    /\ seeder' = [pc |-> "idle", persons |-> {}, companies |-> {}, rows |-> {}]
    /\ UNCHANGED <<trades, scraper>>

\* The index refuses, or the process dies, or a statement fails.
SeedRollback ==
    /\ seeder.pc # "idle"
    /\ seeder' = [pc |-> "idle", persons |-> {}, companies |-> {}, rows |-> {}]
    /\ UNCHANGED <<trades, persons, companies, roles, view, scraper>>

-----------------------------------------------------------------------------

ScrapeStep ==
    \/ \E tickers \in {companies} \cup {{c} : c \in Company} : ScrapeStart(tickers)
    \/ \E c \in Company : \E page \in Pages[c] \cup {{}} : FetchBoard(c, page)
    \/ \E c \in Company : StoreBoard(c)
    \/ ScrapeRefresh
    \/ ScrapeDies

SeedStep == SeedRead \/ SeedInsert \/ SeedCommit \/ SeedRollback

Next ==
    \/ \E t \in Trade \ trades : StoreTrade(t)
    \/ ScrapeStep
    \/ SeedStep

Spec == Init /\ [][Next]_vars

-----------------------------------------------------------------------------
(* Properties *)

TypeOK ==
    /\ trades \subseteq Trade
    /\ persons \subseteq Person
    /\ companies \subseteq Company
    /\ roles \subseteq Role
    /\ view \subseteq Person \X SUBSET Company
    /\ scraper \in [pc : {"idle", "fetch"} \cup Company, todo : SUBSET Company, page : SUBSET Member]
    /\ seeder \in [pc : {"idle", "read", "insert"}, persons : SUBSET Person,
                   companies : SUBSET Company, rows : SUBSET Role]

\* The board rows of a company are one page KAP showed of it, whole, or none:
\* never two pages mixed, whatever collides, fails or is killed
\* (upsert_management_roles: "Replace all ... then insert fresh").
BoardIsOnePage ==
    \A c \in Company : \E page \in Pages[c] \cup {{}} : Board(c) = BoardRows(c, page)

\* A trader's role is closed only where KAP has shown him on the board of that
\* company (the close in upsert_management_roles).
ClosedOnlyForBoard ==
    \A r \in TxRows : r.open \/ \E page \in Pages[r.c] : r.p \in {m.p : m \in page}

\* Every committed role belongs to a stored person and company, although the
\* two writers insert persons and companies at different moments of their
\* transactions (the foreign keys of person_company_roles).
RolesHaveOwners ==
    \A r \in roles : r.p \in persons /\ r.c \in companies

\* The role history of traders only grows, and a closed role is never opened
\* again by a later seed (ON CONFLICT DO NOTHING in the seeder).
TraderHistoryGrows ==
    [][\A r \in TxRows : \E s \in TxRows' :
            /\ <<r.p, r.c, r.from>> = <<s.p, s.c, s.from>>
            /\ s.open => r.open]_vars

\* A page that is stored closes the roles the seeder had opened for its
\* members, so the scraper itself never leaves a member with two open rows of
\* different sources.
BoardSupersedes ==
    [][\A c \in Company : Board(c)' \notin {Board(c), {}} =>
            \A r \in Board(c)' : ~\E s \in TxRows' : s.open /\ s.p = r.p /\ s.c = c]_vars

\* The committed roles never give the view two rows with the same key, so that
\* a refresh is never refused (upsert_management_roles: closing the trader's
\* row "prevents the board_interlocks materialized view from generating
\* duplicate (person_id, company_a, company_b) rows").
ViewCanBeRefreshed == ~IndexRefuses(roles)

=============================================================================
