-------------------------- MODULE BoardGraphProofs --------------------------
(***************************************************************************)
(* Proofs about BoardGraph, for any people, companies, pages and trades.   *)
(*                                                                         *)
(* What the committed roles promise rests on what is not yet committed:    *)
(* the page the scraper holds is one of the company it is at, and the rows *)
(* the seeder holds are open traders' rows of persons and companies it     *)
(* commits with them.                                                      *)
(***************************************************************************)
EXTENDS BoardGraph, WellFoundedInduction, TLAPS

\* The page in hand belongs to the company in hand.
PageOK ==
    \/ scraper.page = {}
    \/ scraper.pc \in Company /\ scraper.page \in Pages[scraper.pc]

\* What the seeder holds is whole.
SeedOK ==
    \A r \in seeder.rows :
        /\ r.src = "KAP_INSIDER_TX" /\ r.open
        /\ r.p \in seeder.persons /\ r.c \in seeder.companies

IInv ==
    /\ TypeOK /\ PageOK /\ SeedOK
    /\ RolesHaveOwners /\ ClosedOnlyForBoard /\ BoardIsOnePage

-----------------------------------------------------------------------------
(* Operators *)

\* A set of days that is not empty has a first.
LEMMA FirstDayExists == ASSUME NEW D \in SUBSET Day, D # {} PROVE Min(D) \in Day
<1>1. Day \subseteq Nat
  BY DayAssumption
<1>2. IsWellFoundedOn(OpToRel(<, Nat), Nat)
  BY NatLessThanWellFounded
<1>3. PICK x \in D : \A y \in D : ~(<<y, x>> \in OpToRel(<, Nat))
  BY <1>1, <1>2, WFMin, Zenon
<1>4. ASSUME NEW y \in D PROVE x <= y
  <2>1. y < x => <<y, x>> \in OpToRel(<, Nat)
    <3>1. <<y, x>>[1] = y /\ <<y, x>>[2] = x /\ <<y, x>> \in Nat \X Nat
      BY <1>1
    <3> QED
      BY <3>1, Zenon DEF OpToRel
  <2>2. ~(y < x)
    BY <1>3, <2>1, Zenon
  <2> QED
    BY <1>1, <2>2
<1> QED
  BY <1>4 DEF Min

\* The rows of a page are board rows of that company, and board rows only.
LEMMA BoardRowsType ==
    ASSUME NEW c \in Company, NEW page \in SUBSET Member
    PROVE  /\ BoardRows(c, page) \in SUBSET Role
           /\ \A r \in BoardRows(c, page) :
                 /\ r.src = "KAP_YONETIM" /\ r.c = c
                 /\ r.p \in {m.p : m \in page}
<1> DEFINE Row(m) == [p |-> m.p, c |-> c, type |-> m.type, from |-> m.from,
                      src |-> "KAP_YONETIM", open |-> TRUE]
<1>1. ASSUME NEW m \in page
      PROVE  /\ Row(m) \in Role
             /\ Row(m).src = "KAP_YONETIM" /\ Row(m).c = c /\ Row(m).p = m.p
  BY DEF Member, Role
<1>2. BoardRows(c, page) = {Row(m) : m \in page}
  BY DEF BoardRows
<1> HIDE DEF Row
<1> QED
  BY <1>1, <1>2

\* Closing changes only whether a trader's row is open.
LEMMA CloseTradersKeeps ==
    ASSUME NEW rs \in SUBSET Role, NEW c \in Company, NEW page \in SUBSET Member
    PROVE  /\ CloseTraders(rs, c, page) \in SUBSET Role
           /\ \A s \in CloseTraders(rs, c, page) : \E r \in rs :
                 /\ <<s.p, s.c, s.from, s.src>> = <<r.p, r.c, r.from, r.src>>
                 /\ \/ s = r
                    \/ /\ r.src = "KAP_INSIDER_TX" /\ ~s.open
                       /\ s.c = c /\ s.p \in {m.p : m \in page}
           /\ \A r \in rs : \E s \in CloseTraders(rs, c, page) :
                 /\ <<s.p, s.c, s.from, s.src>> = <<r.p, r.c, r.from, r.src>>
                 /\ s.open => r.open
           /\ \A r \in rs : r.src # "KAP_INSIDER_TX" => r \in CloseTraders(rs, c, page)
           /\ \A s \in CloseTraders(rs, c, page) :
                 s.src = "KAP_INSIDER_TX" /\ s.c = c /\ s.open => s.p \notin {m.p : m \in page}
<1> DEFINE New(r) == IF r.p \in {m.p : m \in page} /\ r.c = c /\ r.src = "KAP_INSIDER_TX"
                     THEN [r EXCEPT !.open = FALSE] ELSE r
<1>1. CloseTraders(rs, c, page) = {New(r) : r \in rs}
  BY DEF CloseTraders
<1>2. ASSUME NEW r \in Role
      PROVE  /\ New(r) \in Role
             /\ <<New(r).p, New(r).c, New(r).from, New(r).src>> = <<r.p, r.c, r.from, r.src>>
             /\ \/ New(r) = r
                \/ /\ r.src = "KAP_INSIDER_TX" /\ ~New(r).open
                   /\ New(r).c = c /\ New(r).p \in {m.p : m \in page}
             /\ New(r).open => r.open
             /\ r.src # "KAP_INSIDER_TX" => New(r) = r
             /\ New(r).src = "KAP_INSIDER_TX" /\ New(r).c = c /\ New(r).open
                    => New(r).p \notin {m.p : m \in page}
  BY DEF Role
<1> HIDE DEF New
<1> QED
  BY <1>1, <1>2

\* The rows of step 3 are traders' open rows, of mapped persons and companies.
LEMMA TraderRowsType ==
    ASSUME TypeOK
    PROVE  /\ TraderRows \in SUBSET Role
           /\ \A r \in TraderRows :
                 /\ r.src = "KAP_INSIDER_TX" /\ r.open /\ r.from \in Day
                 /\ r.p \in seeder.persons /\ r.c \in seeder.companies
<1> DEFINE Since(t) == Min({u.day : u \in {u \in trades : u.name = t.name /\ u.c = t.c}})
<1>1. ASSUME NEW t \in trades, Mapped(t)
      PROVE  /\ Owner(t) \in Person /\ t.c \in Company /\ Since(t) \in Day
             /\ Owner(t) \in seeder.persons /\ t.c \in seeder.companies
  <2>1. trades \subseteq [name : Name, c : Company, day : Day]
    BY TradeAssumption DEF TypeOK
  <2>2. {u.day : u \in {u \in trades : u.name = t.name /\ u.c = t.c}} \in SUBSET Day
    BY <2>1
  <2>3. t.day \in {u.day : u \in {u \in trades : u.name = t.name /\ u.c = t.c}}
    OBVIOUS
  <2>4. Since(t) \in Day
    BY <2>2, <2>3, FirstDayExists
  <2> HIDE DEF Since
  <2> QED
    BY <1>1, <2>1, <2>4, NormAssumption DEF Owner, Mapped
<1> HIDE DEF Since
<1> DEFINE Row(t) == [p |-> Owner(t), c |-> t.c, type |-> "SHAREHOLDER",
                      src |-> "KAP_INSIDER_TX", from |-> Since(t), open |-> TRUE]
<1>2. ASSUME NEW t \in trades, Mapped(t)
      PROVE  /\ Row(t) \in Role
             /\ Row(t).src = "KAP_INSIDER_TX" /\ Row(t).open /\ Row(t).from \in Day
             /\ Row(t).p \in seeder.persons /\ Row(t).c \in seeder.companies
  BY <1>1, <1>2 DEF Role, Type
<1>3. TraderRows = {Row(t) : t \in {t \in trades : Mapped(t)}}
  BY DEF TraderRows, Since
<1> HIDE DEF Row
<1> QED
  BY <1>2, <1>3

\* A view holds people and sets of companies.
LEMMA InterlocksType ==
    ASSUME NEW rs \in SUBSET Role PROVE Interlocks(rs) \in SUBSET (Person \X SUBSET Company)
<1>1. ASSUME NEW rr \in Joined(rs)
      PROVE  rr[1].p \in Person /\ {rr[1].c, rr[2].c} \in SUBSET Company
  BY DEF Joined, Active, Role
<1> QED
  BY <1>1 DEF Interlocks

-----------------------------------------------------------------------------
(* The inductive invariant *)

LEMMA InitIInv == Init => IInv
BY DEF Init, IInv, TypeOK, PageOK, SeedOK, RolesHaveOwners, ClosedOnlyForBoard,
       BoardIsOnePage, TxRows, Board, BoardRows

\* What a step that leaves the tables and the seeder alone preserves.
LEMMA ScraperOnly ==
    ASSUME IInv, UNCHANGED <<persons, companies, roles, seeder>>
    PROVE  SeedOK' /\ RolesHaveOwners' /\ ClosedOnlyForBoard' /\ BoardIsOnePage'
BY DEF IInv, SeedOK, RolesHaveOwners, ClosedOnlyForBoard, BoardIsOnePage, TxRows, Board

\* The page in hand is one KAP showed, and a set of members.
LEMMA PageInHand ==
    ASSUME IInv, NEW c \in Company, scraper.pc = c
    PROVE  scraper.page \in Pages[c] \cup {{}} /\ scraper.page \in SUBSET Member
BY PagesAssumption DEF IInv, PageOK

\* A stored page is the company's board, and no one else's; of its members no
\* open trader's row is left at the company.
LEMMA Replaces ==
    ASSUME IInv, NEW c \in Company, scraper.pc = c,
           roles' = CloseTraders(WithoutBoard(c), c, scraper.page) \cup BoardRows(c, scraper.page)
    PROVE  /\ Board(c)' = BoardRows(c, scraper.page)
           /\ \A d \in Company \ {c} : Board(d)' = Board(d)
           /\ \A r \in Board(c)' : ~\E s \in TxRows' : s.open /\ s.p = r.p /\ s.c = c
<1> DEFINE page == scraper.page
           kept == CloseTraders(WithoutBoard(c), c, page)
           new  == BoardRows(c, page)
<1>1. page \in SUBSET Member /\ WithoutBoard(c) \in SUBSET Role
  BY PageInHand DEF IInv, TypeOK, WithoutBoard
<1>2. /\ \A s \in kept : \E r \in WithoutBoard(c) :
            /\ <<s.p, s.c, s.from, s.src>> = <<r.p, r.c, r.from, r.src>>
            /\ \/ s = r
               \/ r.src = "KAP_INSIDER_TX"
      /\ \A r \in WithoutBoard(c) : r.src # "KAP_INSIDER_TX" => r \in kept
      /\ \A s \in kept : s.src = "KAP_INSIDER_TX" /\ s.c = c /\ s.open
                            => s.p \notin {m.p : m \in page}
  BY <1>1, CloseTradersKeeps
<1>3. \A r \in new : r.src = "KAP_YONETIM" /\ r.c = c /\ r.p \in {m.p : m \in page}
  BY <1>1, BoardRowsType
<1>4. roles' = kept \cup new
  OBVIOUS
<1> HIDE DEF page, kept, new
<1>5. Board(c)' = new
  <2>1. ASSUME NEW s \in kept PROVE ~(s.src = "KAP_YONETIM" /\ s.c = c)
    BY <1>2 DEF WithoutBoard, Board
  <2> QED
    BY <1>3, <1>4, <2>1 DEF Board
<1>6. ASSUME NEW d \in Company \ {c} PROVE Board(d)' = Board(d)
  <2>1. ASSUME NEW s \in kept, s.src = "KAP_YONETIM" PROVE s \in roles
    BY <1>2, <2>1 DEF WithoutBoard
  <2>2. ASSUME NEW s \in roles, s.src = "KAP_YONETIM", s.c = d PROVE s \in kept
    BY <1>2, <2>2 DEF WithoutBoard, Board
  <2> QED
    BY <1>3, <1>4, <2>1, <2>2 DEF Board
<1>7. ASSUME NEW r \in new, NEW s \in TxRows', s.open, s.p = r.p, s.c = c PROVE FALSE
  BY <1>2, <1>3, <1>4, <1>7 DEF TxRows
<1> QED
  BY <1>5, <1>6, <1>7 DEF page, new

\* The commit of a board.
LEMMA StoreBoardIInv ==
    ASSUME IInv, NEW c \in Company, StoreBoard(c)
    PROVE  IInv'
<1> DEFINE page == scraper.page
           kept == CloseTraders(WithoutBoard(c), c, page)
           new  == BoardRows(c, page)
<1>1. /\ page \in Pages[c] \cup {{}} /\ page \in SUBSET Member
      /\ WithoutBoard(c) \in SUBSET Role
      /\ roles \in SUBSET Role /\ persons \in SUBSET Person
  BY PageInHand DEF StoreBoard, IInv, TypeOK, WithoutBoard
<1>2. /\ kept \in SUBSET Role
      /\ \A s \in kept : \E r \in WithoutBoard(c) :
            /\ <<s.p, s.c, s.from, s.src>> = <<r.p, r.c, r.from, r.src>>
            /\ \/ s = r
               \/ /\ r.src = "KAP_INSIDER_TX" /\ ~s.open
                  /\ s.c = c /\ s.p \in {m.p : m \in page}
      /\ \A r \in WithoutBoard(c) : r.src # "KAP_INSIDER_TX" => r \in kept
  BY <1>1, CloseTradersKeeps
<1>3. /\ new \in SUBSET Role
      /\ \A r \in new : r.src = "KAP_YONETIM" /\ r.c = c /\ r.p \in {m.p : m \in page}
  BY <1>1, BoardRowsType
<1>4. {m.p : m \in page} \in SUBSET Person
  BY <1>1 DEF Member
<1>5. /\ UNCHANGED <<trades, companies, view, seeder>>
      /\ scraper' = [scraper EXCEPT !.pc = "fetch", !.todo = @ \ {c}, !.page = {}]
      /\ \/ UNCHANGED <<roles, persons>>
         \/ /\ c \in companies
            /\ roles' = kept \cup new
            /\ persons' = persons \cup {m.p : m \in page}
  BY DEF StoreBoard
<1> HIDE DEF page, kept, new
<1>6. TypeOK' /\ PageOK' /\ SeedOK'
  BY <1>2, <1>3, <1>4, <1>5 DEF IInv, TypeOK, PageOK, SeedOK
<1>7. CASE UNCHANGED <<roles, persons>>
  BY <1>5, <1>6, <1>7, ScraperOnly DEF IInv
<1>8. CASE /\ c \in companies
           /\ roles' = kept \cup new
           /\ persons' = persons \cup {m.p : m \in page}
  <2>0. scraper.pc = c
    BY DEF StoreBoard
  <2>1. RolesHaveOwners'
    <3>1. ASSUME NEW r \in kept PROVE r.p \in persons' /\ r.c \in companies'
      BY <1>2, <1>5, <1>8 DEF WithoutBoard, IInv, RolesHaveOwners
    <3>2. ASSUME NEW r \in new PROVE r.p \in persons' /\ r.c \in companies'
      BY <1>3, <1>5, <1>8
    <3> QED
      BY <1>8, <3>1, <3>2 DEF RolesHaveOwners
  <2>2. ClosedOnlyForBoard'
    <3> SUFFICES ASSUME NEW s \in roles', s.src = "KAP_INSIDER_TX", ~s.open
                 PROVE  \E pg \in Pages[s.c] : s.p \in {m.p : m \in pg}
      BY DEF ClosedOnlyForBoard, TxRows
    <3>1. s \in kept
      BY <1>3, <1>8
    <3>2. PICK r \in WithoutBoard(c) :
            \/ s = r
            \/ s.c = c /\ s.p \in {m.p : m \in page}
      BY <1>2, <3>1
    <3>3. CASE s = r
      BY <3>2, <3>3 DEF WithoutBoard, IInv, ClosedOnlyForBoard, TxRows
    <3>4. CASE s.c = c /\ s.p \in {m.p : m \in page}
      BY <1>1, <3>4 DEF page
    <3> QED
      BY <3>2, <3>3, <3>4
  <2>3. BoardIsOnePage'
    <3>1. Board(c)' = new
      BY <1>8, <2>0, Replaces DEF page, kept, new
    <3>2. ASSUME NEW d \in Company, d # c PROVE Board(d)' = Board(d)
      BY <1>8, <2>0, <3>2, Replaces DEF page, kept, new
    <3>3. new = BoardRows(c, page) /\ page \in Pages[c] \cup {{}}
      BY <1>1 DEF new
    <3>4. ASSUME NEW d \in Company
          PROVE  \E pg \in Pages[d] \cup {{}} : Board(d)' = BoardRows(d, pg)
      <4>1. CASE d = c
        BY <3>1, <3>3, <4>1
      <4>2. CASE d # c
        BY <3>2, <4>2 DEF IInv, BoardIsOnePage
      <4> QED
        BY <4>1, <4>2
    <3> QED
      BY <3>4 DEF BoardIsOnePage
  <2> QED
    BY <1>6, <2>1, <2>2, <2>3 DEF IInv
<1> QED
  BY <1>5, <1>7, <1>8

\* The commit of a seed: rows are added, none is changed.
LEMMA SeedCommitIInv == ASSUME IInv, SeedCommit PROVE IInv'
<1>1. /\ seeder.rows \in SUBSET Role /\ roles \in SUBSET Role
      /\ \A r \in seeder.rows :
            /\ r.src = "KAP_INSIDER_TX" /\ r.open
            /\ r.p \in seeder.persons /\ r.c \in seeder.companies
  BY DEF IInv, TypeOK, SeedOK
<1>2. /\ roles' = roles \cup seeder.rows
      /\ persons' = persons \cup seeder.persons
      /\ companies' = companies \cup seeder.companies
      /\ seeder' = [pc |-> "idle", persons |-> {}, companies |-> {}, rows |-> {}]
      /\ view' = Interlocks(roles')
      /\ UNCHANGED <<trades, scraper>>
  BY DEF SeedCommit, Seeded
<1>3. TypeOK'
  <2>1. view' \in SUBSET (Person \X SUBSET Company)
    BY <1>1, <1>2, InterlocksType
  <2> QED
    BY <1>1, <1>2, <2>1 DEF IInv, TypeOK
<1>4. PageOK' /\ SeedOK'
  BY <1>2 DEF IInv, PageOK, SeedOK
<1>5. RolesHaveOwners'
  BY <1>1, <1>2 DEF IInv, RolesHaveOwners
<1>6. ClosedOnlyForBoard'
  BY <1>1, <1>2 DEF IInv, ClosedOnlyForBoard, TxRows
<1>7. ASSUME NEW c \in Company PROVE Board(c)' = Board(c)
  BY <1>1, <1>2 DEF Board
<1>8. BoardIsOnePage'
  BY <1>7 DEF IInv, BoardIsOnePage
<1> QED
  BY <1>3, <1>4, <1>5, <1>6, <1>8 DEF IInv

LEMMA NextIInv == ASSUME IInv, [Next]_vars PROVE IInv'
<1>1. ASSUME NEW t \in Trade \ trades, StoreTrade(t) PROVE IInv'
  BY <1>1, ScraperOnly DEF IInv, StoreTrade, TypeOK, PageOK
<1>2. ASSUME NEW tickers \in {companies} \cup {{c} : c \in Company}, ScrapeStart(tickers)
      PROVE  IInv'
  BY <1>2, ScraperOnly DEF IInv, ScrapeStart, TypeOK, PageOK
<1>3. ASSUME NEW c \in Company, NEW page \in Pages[c] \cup {{}}, FetchBoard(c, page)
      PROVE  IInv'
  <2>1. page \in SUBSET Member
    BY PagesAssumption
  <2>2. /\ scraper' = [scraper EXCEPT !.pc = c, !.page = page]
        /\ UNCHANGED <<trades, persons, companies, roles, view, seeder>>
    BY <1>3 DEF FetchBoard
  <2>3. TypeOK' /\ PageOK'
    BY <2>1, <2>2 DEF IInv, TypeOK, PageOK
  <2> QED
    BY <2>2, <2>3, ScraperOnly DEF IInv
<1>4. ASSUME NEW c \in Company, StoreBoard(c) PROVE IInv'
  BY <1>4, StoreBoardIInv
<1>5. CASE ScrapeRefresh
  <2>1. view' \in SUBSET (Person \X SUBSET Company)
    BY <1>5, InterlocksType DEF ScrapeRefresh, IInv, TypeOK
  <2>2. scraper.page = {}
    BY <1>5, CompanyAssumption DEF ScrapeRefresh, IInv, PageOK
  <2> QED
    BY <1>5, <2>1, <2>2, ScraperOnly DEF IInv, ScrapeRefresh, TypeOK, PageOK
<1>6. CASE ScrapeDies
  BY <1>6, ScraperOnly DEF IInv, ScrapeDies, TypeOK, PageOK
<1>7. CASE SeedRead
  <2>1. {Owner(t) : t \in trades} \in SUBSET Person /\ {t.c : t \in trades} \in SUBSET Company
    BY TradeAssumption, NormAssumption DEF IInv, TypeOK, Owner
  <2>2. TypeOK'
    BY <1>7, <2>1, CompanyAssumption DEF IInv, SeedRead, TypeOK
  <2> QED
    BY <1>7, <2>2 DEF IInv, SeedRead, PageOK, SeedOK, RolesHaveOwners, ClosedOnlyForBoard,
                      BoardIsOnePage, TxRows, Board
<1>8. CASE SeedInsert
  <2>1. /\ Fresh(TraderRows) \in SUBSET Role
        /\ \A r \in Fresh(TraderRows) :
              /\ r.src = "KAP_INSIDER_TX" /\ r.open
              /\ r.p \in seeder.persons /\ r.c \in seeder.companies
    BY TraderRowsType DEF IInv, Fresh
  <2>2. /\ UNCHANGED <<trades, persons, companies, roles, view, scraper>>
        /\ seeder'.pc = "insert" /\ seeder'.rows = Fresh(TraderRows)
        /\ seeder'.persons = seeder.persons /\ seeder'.companies = seeder.companies
    BY <1>8 DEF SeedInsert, IInv, TypeOK
  <2>3. seeder' \in [pc : {"idle", "read", "insert"}, persons : SUBSET Person,
                     companies : SUBSET Company, rows : SUBSET Role]
    BY <1>8, <2>1 DEF SeedInsert, IInv, TypeOK
  <2>4. TypeOK' /\ SeedOK'
    BY <2>1, <2>2, <2>3 DEF IInv, TypeOK, SeedOK
  <2> QED
    BY <2>2, <2>4 DEF IInv, PageOK, RolesHaveOwners, ClosedOnlyForBoard, BoardIsOnePage,
                      TxRows, Board
<1>9. CASE SeedCommit
  BY <1>9, SeedCommitIInv
<1>10. CASE SeedRollback
  BY <1>10 DEF IInv, SeedRollback, TypeOK, PageOK, SeedOK, RolesHaveOwners,
               ClosedOnlyForBoard, BoardIsOnePage, TxRows, Board
<1>11. CASE UNCHANGED vars
  BY <1>11 DEF vars, IInv, TypeOK, PageOK, SeedOK, RolesHaveOwners, ClosedOnlyForBoard,
               BoardIsOnePage, TxRows, Board
<1> QED
  BY <1>1, <1>2, <1>3, <1>4, <1>5, <1>6, <1>7, <1>8, <1>9, <1>10, <1>11
     DEF Next, ScrapeStep, SeedStep

LEMMA Invariant == Spec => []IInv
<1>1. Init => IInv
  BY InitIInv
<1>2. IInv /\ [Next]_vars => IInv'
  BY NextIInv
<1> QED
  BY <1>1, <1>2, PTL DEF Spec

-----------------------------------------------------------------------------
(* Theorems *)

\* Type correctness of both writers.
THEOREM TypeCorrect == Spec => []TypeOK
BY Invariant, PTL DEF IInv

\* Whatever collides, fails or is killed, a company's board rows are one page
\* (upsert_management_roles).
THEOREM OnePage == Spec => []BoardIsOnePage
BY Invariant, PTL DEF IInv

\* A trader's role is closed only for a seat KAP has shown at that company.
THEOREM ClosedForBoard == Spec => []ClosedOnlyForBoard
BY Invariant, PTL DEF IInv

\* No committed role points to a person or company that is not there.
THEOREM RolesOwned == Spec => []RolesHaveOwners
BY Invariant, PTL DEF IInv

\* The history of a trader is added to, and closed for good: a seed after a
\* scrape leaves what the scrape has closed.
THEOREM HistoryGrows == Spec => TraderHistoryGrows
<1> DEFINE Grows ==
             \A r \in TxRows : \E s \in TxRows' :
                /\ <<r.p, r.c, r.from>> = <<s.p, s.c, s.from>>
                /\ s.open => r.open
<1>1. ASSUME roles \subseteq roles' PROVE Grows
  BY <1>1 DEF TxRows
<1>2. ASSUME IInv, NEW c \in Company, StoreBoard(c) PROVE Grows
  <2> DEFINE page == scraper.page
             kept == CloseTraders(WithoutBoard(c), c, page)
  <2>1. page \in SUBSET Member /\ WithoutBoard(c) \in SUBSET Role
    BY <1>2, PageInHand DEF StoreBoard, IInv, TypeOK, WithoutBoard
  <2>2. \A r \in WithoutBoard(c) : \E s \in kept :
            /\ <<s.p, s.c, s.from, s.src>> = <<r.p, r.c, r.from, r.src>>
            /\ s.open => r.open
    BY <2>1, CloseTradersKeeps
  <2>3. roles' = roles \/ kept \subseteq roles'
    BY <1>2 DEF StoreBoard
  <2> HIDE DEF page, kept
  <2>4. TxRows \subseteq WithoutBoard(c)
    BY DEF TxRows, WithoutBoard, Board
  <2>5. CASE kept \subseteq roles'
    <3> SUFFICES ASSUME NEW r \in TxRows
                 PROVE  \E s \in TxRows' : /\ <<r.p, r.c, r.from>> = <<s.p, s.c, s.from>>
                                           /\ s.open => r.open
      OBVIOUS
    <3>1. PICK s \in kept : /\ <<s.p, s.c, s.from, s.src>> = <<r.p, r.c, r.from, r.src>>
                            /\ s.open => r.open
      BY <2>2, <2>4
    <3>2. s \in TxRows'
      BY <2>5, <3>1 DEF TxRows
    <3> QED
      BY <3>1, <3>2
  <2> QED
    BY <2>3, <2>5, <1>1
<1>3. IInv /\ [Next]_vars => [Grows]_vars
  <2> SUFFICES ASSUME IInv, Next PROVE Grows
    OBVIOUS
  <2>1. CASE \E c \in Company : StoreBoard(c)
    BY <1>2, <2>1
  <2>2. CASE ~\E c \in Company : StoreBoard(c)
    <3>1. roles \subseteq roles'
      BY <2>2 DEF Next, ScrapeStep, SeedStep, StoreTrade, ScrapeStart, FetchBoard, ScrapeRefresh,
                  ScrapeDies, SeedRead, SeedInsert, SeedCommit, Seeded, SeedRollback
    <3> QED
      BY <1>1, <3>1
  <2> QED
    BY <2>1, <2>2
<1> HIDE DEF Grows
<1>4. Spec => [][Grows]_vars
  BY <1>3, Invariant, PTL DEF Spec
<1> QED
  BY <1>4 DEF Grows, TraderHistoryGrows

\* A stored page closes what the seeder had opened for its members.
THEOREM Supersedes == Spec => BoardSupersedes
<1> DEFINE Step == \A c \in Company : Board(c)' \notin {Board(c), {}} =>
                      \A r \in Board(c)' : ~\E s \in TxRows' : s.open /\ s.p = r.p /\ s.c = c
<1>1. ASSUME IInv, NEW c \in Company, StoreBoard(c) PROVE Step
  <2>1. CASE roles' = roles
    BY <2>1 DEF Board
  <2>2. CASE roles' = CloseTraders(WithoutBoard(c), c, scraper.page) \cup BoardRows(c, scraper.page)
    <3>1. scraper.pc = c
      BY <1>1 DEF StoreBoard
    <3> QED
      BY <1>1, <2>2, <3>1, Replaces
  <2> QED
    BY <1>1, <2>1, <2>2 DEF StoreBoard
<1>2. ASSUME IInv, SeedCommit PROVE Step
  <2>1. \A r \in seeder.rows : r.src = "KAP_INSIDER_TX"
    BY <1>2 DEF IInv, SeedOK
  <2>2. \A c \in Company : Board(c)' = Board(c)
    BY <1>2, <2>1 DEF SeedCommit, Seeded, Board
  <2> QED
    BY <2>2
<1>3. ASSUME UNCHANGED roles PROVE Step
  BY <1>3 DEF Board
<1>4. IInv /\ [Next]_vars => [Step]_vars
  BY <1>1, <1>2, <1>3
     DEF Next, ScrapeStep, SeedStep, StoreTrade, ScrapeStart, FetchBoard, ScrapeRefresh,
         ScrapeDies, SeedRead, SeedInsert, SeedRollback
<1> HIDE DEF Step
<1>5. Spec => [][Step]_vars
  BY <1>4, Invariant, PTL DEF Spec
<1> QED
  BY <1>5 DEF Step, BoardSupersedes

=============================================================================
