----------------------------- MODULE TsgProofs -----------------------------
(***************************************************************************)
(* For any registry, seeds, answers, pages and likenesses, and any number  *)
(* of overlapping runs: what is stored of a company was read in its block, *)
(* and what a search returns was found for its company.  A report read     *)
(* meanwhile puts no one beside himself and totals no less than it lists.  *)
(***************************************************************************)
EXTENDS CrossReference, FiniteSetTheorems, TLAPS

\* The notices of a company.
Found(s) == UNION {Answer[s][c] : c \in 1..Chambers}

Seeds == DOMAIN Answer

\* What a run holds of its search.
SearchOK(x) ==
    /\ x.todo \subseteq Seeds
    /\ x.pc = "search" => /\ x.seed \in Seeds /\ x.chamber \in 1..Chambers
                          /\ x.flight \subseteq {x.seed} \X (1..Chambers)
                          /\ x.div \subseteq {Answer[x.seed][c] : c \in 1..Chambers}
    /\ x.pc = "pick" => x.seed \in Seeds
    /\ x.pc \in {"search", "pick"} => x.rows \subseteq Found(x.seed)
    /\ x.pc \notin {"search", "pick"} => x.rows = {}
    /\ x.pc \in {"off", "next"} => x.flight = {} /\ x.div = {}

\* The row a run looked up is one its notice or its block names.
RowFits(x, row) ==
    IF x.notice.numbered THEN row.number = x.notice.of ELSE row.name = x.record.company

\* What a run holds of its company, and of its row in the table.
RecordOK(x, table) ==
    /\ x.pc \in {"fetch", "look", "save"} => x.notice \in Notices
    /\ x.pc \in {"look", "save"} => x.record \in Block[x.notice.page]
    /\ x.found \in {0} \cup DOMAIN table
    /\ (x.pc = "save" /\ x.found # 0) => RowFits(x, table[x.found])

\* Each run has the fields of a run.
RunsShaped == DOMAIN run = Runner /\ \A r \in Runner : DOMAIN run[r] = DOMAIN Rest

\* The rows no other company's notice was taken for carry their own number, or none.
RowsOK ==
    /\ companies \in Seq([name : Names, number : Numbers])
    /\ \A i \in DOMAIN companies : i \in mixed \/ companies[i].number \in {None, companies[i].name}

\* A role was read in a block of its company.
InBlockOf(s, name) ==
    \E page \in DOMAIN Block : \E b \in Block[page] :
        b.company = name /\ \E p \in b.persons : p.name = s.raw /\ RoleType(p.role) = s.type

RolesOK ==
    \A s \in roles : s.co \in DOMAIN companies /\ (s.co \in mixed \/ InBlockOf(s, companies[s.co].name))

RunsOK == \A r \in Runner : SearchOK(run[r]) /\ RecordOK(run[r], companies)

\* The inductive invariant.
Inv == RunsShaped /\ RowsOK /\ RolesOK /\ RunsOK

-----------------------------------------------------------------------------

\* A run that forgets its company holds nothing of it.
LEMMA Forgets ==
    ASSUME NEW x, DOMAIN x = DOMAIN Rest, x.todo \subseteq Seeds
    PROVE  /\ DOMAIN Forget(x) = DOMAIN Rest
           /\ SearchOK(Forget(x)) /\ \A table : RecordOK(Forget(x), table)
BY DEF Forget, SearchOK, RecordOK, Rest

\* Only runs step: the tables keep, one run changes and keeps the invariant.
LEMMA OneRun ==
    ASSUME Inv, NEW r \in Runner, NEW y, run' = [run EXCEPT ![r] = y],
           DOMAIN y = DOMAIN Rest, SearchOK(y), RecordOK(y, companies),
           UNCHANGED <<companies, roles, mixed>>
    PROVE  Inv'
<1>1. DOMAIN run' = Runner /\ \A q \in Runner : run'[q] = IF q = r THEN y ELSE run[q]
  BY DEF Inv, RunsShaped
<1>2. RunsShaped'
  BY <1>1 DEF Inv, RunsShaped
<1>3. RowsOK' /\ RolesOK'
  BY DEF Inv, RowsOK, RolesOK
<1>4. RunsOK'
  BY <1>1 DEF Inv, RunsOK
<1>. QED BY <1>2, <1>3, <1>4 DEF Inv

\* What Inv says of one run.
LEMMA RunFacts ==
    ASSUME Inv, NEW r \in Runner
    PROVE  DOMAIN run[r] = DOMAIN Rest /\ SearchOK(run[r]) /\ RecordOK(run[r], companies)
BY DEF Inv, RunsShaped, RunsOK

LEMMA StartSteps == ASSUME Inv, NEW r \in Runner, Start(r) PROVE Inv'
<1>1. PICK seeds \in {Valid(a) : a \in DOMAIN Actors} \cup {UNION {Valid(a) : a \in DOMAIN Actors}},
           pc \in {"next", "over"} :
        run' = [run EXCEPT ![r] = [Rest EXCEPT !.pc = pc, !.todo = seeds, !.snapshot = known]]
  BY DEF Start
<1>2. seeds \subseteq Seeds
  BY GivenAssumption DEF GivenAssumption, Valid, Seeds
<1> DEFINE y == [Rest EXCEPT !.pc = pc, !.todo = seeds, !.snapshot = known]
<1>3. DOMAIN y = DOMAIN Rest /\ SearchOK(y) /\ RecordOK(y, companies)
  BY <1>2 DEF Rest, SearchOK, RecordOK
<1>. QED BY <1>1, <1>3, OneRun DEF Start, tables, history

LEMMA NextCompanySteps == ASSUME Inv, NEW r \in Runner, NextCompany(r) PROVE Inv'
<1> DEFINE x == run[r]
<1>1. PICK s \in x.todo :
        run' = [run EXCEPT ![r].pc = "search", ![r].seed = s, ![r].todo = @ \ {s},
                           ![r].chamber = 1, ![r].flight = @ \cup {<<s, 1>>}]
  BY DEF NextCompany
<1> DEFINE y == [x EXCEPT !.pc = "search", !.seed = s, !.todo = @ \ {s},
                          !.chamber = 1, !.flight = @ \cup {<<s, 1>>}]
<1>2. x.pc = "next" /\ DOMAIN x = DOMAIN Rest /\ SearchOK(x) /\ RecordOK(x, companies)
  BY RunFacts DEF NextCompany, At
<1>3. run' = [run EXCEPT ![r] = y]
  BY <1>1, <1>2 DEF Inv, RunsShaped, Rest
<1>4. DOMAIN y = DOMAIN Rest /\ RecordOK(y, companies)
  BY <1>2 DEF Rest, RecordOK
<1>5. /\ y.todo \subseteq x.todo /\ y.pc = "search" /\ y.seed = s /\ y.chamber = 1
      /\ y.flight = x.flight \cup {<<s, 1>>} /\ y.div = x.div /\ y.rows = x.rows
  BY <1>2 DEF Rest
<1>6. SearchOK(y)
  BY <1>2, <1>5, GivenAssumption DEF SearchOK, GivenAssumption
<1>. QED BY <1>3, <1>4, <1>6, OneRun DEF NextCompany, tables, history

LEMMA OverSteps == ASSUME Inv, NEW r \in Runner, Over(r) PROVE Inv'
<1> DEFINE y == [run[r] EXCEPT !.pc = "over"]
<1>1. run[r].pc = "next" /\ DOMAIN run[r] = DOMAIN Rest /\ SearchOK(run[r]) /\ RecordOK(run[r], companies)
  BY RunFacts DEF Over, At
<1>2. run' = [run EXCEPT ![r] = y]
  BY DEF Over, Inv, RunsShaped
<1>3. DOMAIN y = DOMAIN Rest /\ SearchOK(y) /\ RecordOK(y, companies)
  BY <1>1 DEF Rest, SearchOK, RecordOK
<1>. QED BY <1>2, <1>3, OneRun DEF Over, tables, history

\* Whatever fails, the company is forgotten.
LEMMA ForgetSteps ==
    ASSUME Inv, NEW r \in Runner, run' = [run EXCEPT ![r] = Forget(@)],
           UNCHANGED <<companies, roles, mixed>>
    PROVE  Inv'
<1>1. DOMAIN run[r] = DOMAIN Rest /\ run[r].todo \subseteq Seeds
  BY RunFacts DEF SearchOK
<1>2. run' = [run EXCEPT ![r] = Forget(run[r])]
  BY DEF Inv, RunsShaped
<1>. QED BY <1>1, <1>2, Forgets, OneRun

LEMMA ArriveSteps == ASSUME Inv, NEW r \in Runner, Arrive(r) PROVE Inv'
<1> DEFINE x == run[r]
<1>1. PICK f \in x.flight :
        run' = [run EXCEPT ![r].flight = @ \ {f}, ![r].div = {Answer[f[1]][f[2]]}]
  BY DEF Arrive
<1> DEFINE y == [x EXCEPT !.flight = @ \ {f}, !.div = {Answer[f[1]][f[2]]}]
<1>2. x.pc = "search" /\ DOMAIN x = DOMAIN Rest /\ SearchOK(x) /\ RecordOK(x, companies)
  BY RunFacts DEF Arrive, At
<1>3. run' = [run EXCEPT ![r] = y]
  BY <1>1, <1>2 DEF Inv, RunsShaped, Rest
<1>4. DOMAIN y = DOMAIN Rest /\ RecordOK(y, companies)
  BY <1>2 DEF Rest, RecordOK
<1>5. /\ y.todo = x.todo /\ y.pc = "search" /\ y.seed = x.seed /\ y.chamber = x.chamber
      /\ y.flight = x.flight \ {f} /\ y.div = {Answer[f[1]][f[2]]} /\ y.rows = x.rows
  BY <1>2 DEF Rest
<1>6. f[1] = x.seed /\ f[2] \in 1..Chambers
  BY <1>2 DEF SearchOK
<1>7. SearchOK(y)
  BY <1>2, <1>5, <1>6 DEF SearchOK
<1>. QED BY <1>3, <1>4, <1>7, OneRun DEF Arrive, tables, history

LEMMA NextChamberSteps == ASSUME Inv, NEW r \in Runner, NextChamber(r) PROVE Inv'
<1> DEFINE x == run[r]
           y == [AfterRead(x) EXCEPT !.div = {}]
           all == x.rows \cup UNION x.div
<1>1. x.pc = "search" /\ DOMAIN x = DOMAIN Rest /\ SearchOK(x) /\ RecordOK(x, companies)
  BY RunFacts DEF NextChamber, At
<1>2. run' = [run EXCEPT ![r] = y]
  BY DEF NextChamber, Inv, RunsShaped
<1>3. all \subseteq Found(x.seed)
  BY <1>1 DEF SearchOK, Found
<1>4. CASE x.chamber = Chambers
  <2>1. /\ y.todo = x.todo /\ y.pc = "pick" /\ y.seed = x.seed /\ y.rows = all
        /\ y.found = x.found /\ DOMAIN y = DOMAIN Rest
    BY <1>1, <1>4 DEF AfterRead, Rest
  <2>2. SearchOK(y) /\ RecordOK(y, companies)
    BY <1>1, <1>3, <2>1 DEF SearchOK, RecordOK
  <2>. QED BY <1>2, <2>1, <2>2, OneRun DEF NextChamber, tables, history
<1>5. CASE x.chamber # Chambers
  <2>1. /\ y.todo = x.todo /\ y.pc = "search" /\ y.seed = x.seed /\ y.rows = all
        /\ y.chamber = x.chamber + 1 /\ y.flight = x.flight \cup {<<x.seed, x.chamber + 1>>}
        /\ y.div = {} /\ y.found = x.found /\ DOMAIN y = DOMAIN Rest
    BY <1>1, <1>5 DEF AfterRead, Rest
  <2>2. x.chamber + 1 \in 1..Chambers
    BY <1>1, <1>5, GivenAssumption DEF SearchOK, GivenAssumption
  <2>3. SearchOK(y) /\ RecordOK(y, companies)
    BY <1>1, <1>3, <2>1, <2>2 DEF SearchOK, RecordOK
  <2>. QED BY <1>2, <2>1, <2>3, OneRun DEF NextChamber, tables, history
<1>. QED BY <1>4, <1>5

LEMMA PickSteps == ASSUME Inv, NEW r \in Runner, Pick(r) PROVE Inv'
<1> DEFINE x == run[r]
<1>1. x.pc = "pick" /\ DOMAIN x = DOMAIN Rest /\ SearchOK(x) /\ RecordOK(x, companies)
  BY RunFacts DEF Pick, At
<1>2. CASE x.rows = {}
  BY <1>2, ForgetSteps DEF Pick, tables, history
<1>3. CASE x.rows # {}
  <2>1. PICK n \in Latest(Candidates(x.rows)) :
          run' = [run EXCEPT ![r].pc = "fetch", ![r].notice = n, ![r].rows = {},
                             ![r].flight = {}, ![r].div = {}]
    BY <1>3 DEF Pick
  <2> DEFINE y == [x EXCEPT !.pc = "fetch", !.notice = n, !.rows = {}, !.flight = {}, !.div = {}]
  <2>2. run' = [run EXCEPT ![r] = y]
    BY <2>1 DEF Inv, RunsShaped
  <2>3. n \in x.rows /\ x.rows \subseteq Found(x.seed) /\ x.seed \in Seeds
    BY <1>1 DEF Latest, Candidates, SearchOK
  <2>4. n \in Notices
    BY <2>3 DEF Found, Notices, Seeds
  <2>5. /\ y.todo = x.todo /\ y.pc = "fetch" /\ y.notice = n /\ y.rows = {}
        /\ y.found = x.found /\ DOMAIN y = DOMAIN Rest
    BY <1>1 DEF Rest
  <2>6. SearchOK(y) /\ RecordOK(y, companies)
    BY <1>1, <2>4, <2>5 DEF SearchOK, RecordOK
  <2>. QED BY <2>2, <2>5, <2>6, OneRun DEF Pick, tables, history
<1>. QED BY <1>2, <1>3

LEMMA FetchSteps == ASSUME Inv, NEW r \in Runner, Fetch(r) PROVE Inv'
<1> DEFINE x == run[r]
<1>1. x.pc = "fetch" /\ DOMAIN x = DOMAIN Rest /\ SearchOK(x) /\ RecordOK(x, companies)
  BY RunFacts DEF Fetch, At
<1>2. CASE run' = [run EXCEPT ![r] = Forget(@)]
  BY <1>2, ForgetSteps DEF Fetch, tables, history
<1>3. CASE \E b \in BestBlocks(x.notice.page, x.seed) :
              run' = [run EXCEPT ![r].pc = "look", ![r].record = b]
  <2>1. PICK b \in BestBlocks(x.notice.page, x.seed) :
              run' = [run EXCEPT ![r].pc = "look", ![r].record = b]
    BY <1>3
  <2> DEFINE y == [x EXCEPT !.pc = "look", !.record = b]
  <2>2. run' = [run EXCEPT ![r] = y]
    BY <2>1 DEF Inv, RunsShaped
  <2>3. b \in Block[x.notice.page]
    BY DEF BestBlocks
  <2>4. /\ y.todo = x.todo /\ y.pc = "look" /\ y.notice = x.notice /\ y.rows = x.rows
        /\ y.record = b /\ y.found = x.found /\ DOMAIN y = DOMAIN Rest
    BY <1>1 DEF Rest
  <2>5. SearchOK(y) /\ RecordOK(y, companies)
    BY <1>1, <2>3, <2>4 DEF SearchOK, RecordOK
  <2>. QED BY <2>2, <2>4, <2>5, OneRun DEF Fetch, tables, history
<1>. QED BY <1>2, <1>3 DEF Fetch

LEMMA LookUpSteps == ASSUME Inv, NEW r \in Runner, LookUp(r) PROVE Inv'
<1> DEFINE x == run[r]
           rows == MatchingRows(x.notice, x.record.company)
           y == [x EXCEPT !.pc = "save", !.found = IF rows = {} THEN 0 ELSE CHOOSE i \in rows : TRUE]
<1>1. x.pc = "look" /\ DOMAIN x = DOMAIN Rest /\ SearchOK(x) /\ RecordOK(x, companies)
  BY RunFacts DEF LookUp, At
<1>2. CASE Cardinality(rows) > 1
  BY <1>2, ForgetSteps DEF LookUp, tables, history
<1>3. CASE ~(Cardinality(rows) > 1)
  <2>1. run' = [run EXCEPT ![r].pc = "save",
                           ![r].found = IF rows = {} THEN 0 ELSE CHOOSE i \in rows : TRUE]
    BY <1>3 DEF LookUp
  <2>2. run' = [run EXCEPT ![r] = y]
    BY <2>1 DEF Inv, RunsShaped
  <2>3. rows \subseteq DOMAIN companies /\ \A i \in rows : RowFits(x, companies[i])
    BY DEF MatchingRows, RowFits
  <2>4. /\ y.todo = x.todo /\ y.pc = "save" /\ y.notice = x.notice /\ y.rows = x.rows
        /\ y.record = x.record /\ DOMAIN y = DOMAIN Rest
        /\ y.found = IF rows = {} THEN 0 ELSE CHOOSE i \in rows : TRUE
    BY <1>1 DEF Rest
  <2>5. y.found = 0 \/ y.found \in rows
    BY <2>4
  <2>6. y.found = 0 \/ (y.found \in DOMAIN companies /\ RowFits(y, companies[y.found]))
    BY <2>3, <2>4, <2>5 DEF RowFits
  <2>7. SearchOK(y) /\ RecordOK(y, companies)
    BY <1>1, <2>4, <2>6 DEF SearchOK, RecordOK
  <2>. QED BY <2>2, <2>4, <2>7, OneRun DEF LookUp, tables, history
<1>. QED BY <1>2, <1>3

\* A run that counted forgets its company like any other.
LEMMA CountedForgets ==
    ASSUME NEW x, DOMAIN x = DOMAIN Rest, x.todo \subseteq Seeds, NEW n
    PROVE  LET y == Counted(Forget(x), n)
           IN DOMAIN y = DOMAIN Rest /\ SearchOK(y) /\ \A table : RecordOK(y, table)
<1> DEFINE y == Counted(Forget(x), n)
<1>1. /\ y.todo = x.todo /\ y.pc = "next" /\ y.rows = {} /\ y.flight = {} /\ y.div = {}
      /\ y.found = 0 /\ DOMAIN y = DOMAIN Rest
  BY DEF Counted, Forget, Rest
<1> HIDE DEF y
<1>2. SearchOK(y) /\ \A table : RecordOK(y, table)
  BY <1>1 DEF SearchOK, RecordOK
<1>. QED BY <1>1, <1>2 DEF y

LEMMA RolledBackSteps == ASSUME Inv, NEW r \in Runner, RolledBack(r) PROVE Inv'
<1> DEFINE x == run[r]
<1>1. DOMAIN x = DOMAIN Rest /\ x.todo \subseteq Seeds
  BY RunFacts DEF SearchOK
<1>2. PICK n : run' = [run EXCEPT ![r] = Counted(Forget(x), n)]
  BY DEF RolledBack, Inv, RunsShaped
<1> DEFINE y == Counted(Forget(x), n)
<1>3. DOMAIN y = DOMAIN Rest /\ SearchOK(y) /\ RecordOK(y, companies)
  BY <1>1, CountedForgets
<1>4. run' = [run EXCEPT ![r] = y]
  BY <1>2
<1> HIDE DEF y
<1>. QED BY <1>3, <1>4, OneRun DEF RolledBack, tables

-----------------------------------------------------------------------------

\* The table after a save: the row the run looked up, or one more.
SavedTable(x) ==
    IF x.found # 0 THEN companies
    ELSE Append(companies, [name |-> x.record.company, number |-> NumberOf(x.notice)])

SavedMixed(x) == mixed \cup (IF NumberOf(x.notice) \in {None, x.record.company} THEN {} ELSE {IdOf(x)})

LEMMA SaveShape ==
    ASSUME Inv, NEW r \in Runner, Save(r)
    PROVE  LET x == run[r]
           IN /\ companies' = SavedTable(x)
              /\ mixed' = SavedMixed(x)
              /\ \A s \in roles' : s \in roles \/
                    (s.co = IdOf(x) /\ \E p \in x.record.persons : s.raw = p.name /\ s.type = RoleType(p.role))
              /\ \E n : run' = [run EXCEPT ![r] = Counted(Forget(x), n)]
<1> DEFINE x == run[r]
<1>1. PICK who \in Matchings(NewRoles(x), x.snapshot) : Stored(r, who, Counted(Forget(x), CountsOf(NewRoles(x), who)))
  BY DEF Save
<1>2. \A e \in NewRoles(x) : e.co = IdOf(x) /\ \E p \in x.record.persons : e.raw = p.name /\ e.type = RoleType(p.role)
  BY DEF NewRoles
<1>3. companies' = SavedTable(x) /\ mixed' = SavedMixed(x)
  BY <1>1 DEF Stored, SavedTable, SavedMixed
<1>4. ASSUME NEW s \in roles', s \notin roles
      PROVE  s.co = IdOf(x) /\ \E p \in x.record.persons : s.raw = p.name /\ s.type = RoleType(p.role)
  <2>1. PICK e \in NewRoles(x) : s = [raw |-> e.raw, co |-> e.co, type |-> e.type, person |-> who[e]]
    BY <1>1, <1>4 DEF Stored
  <2>2. s.raw = e.raw /\ s.co = e.co /\ s.type = e.type
    BY <2>1
  <2>. QED BY <1>2, <2>2
<1>5. \E n : run' = [run EXCEPT ![r] = Counted(Forget(x), n)]
  BY <1>1 DEF Stored
<1>. QED BY <1>3, <1>4, <1>5

\* The table only grows, by rows of the block's name and the notice's number.
LEMMA TableGrows ==
    ASSUME Inv, NEW r \in Runner, run[r].pc = "save"
    PROVE  LET x == run[r] IN
           /\ SavedTable(x) \in Seq([name : Names, number : Numbers])
           /\ DOMAIN companies \subseteq DOMAIN SavedTable(x)
           /\ \A i \in DOMAIN companies : SavedTable(x)[i] = companies[i]
           /\ DOMAIN SavedTable(x) = DOMAIN companies \cup {IdOf(x)}
           /\ x.found = 0 => /\ IdOf(x) \notin DOMAIN companies
                             /\ SavedTable(x)[IdOf(x)].name = x.record.company
                             /\ SavedTable(x)[IdOf(x)].number = NumberOf(x.notice)
<1> DEFINE x == run[r]
           new == [name |-> x.record.company, number |-> NumberOf(x.notice)]
<1>1. /\ x.notice \in Notices /\ x.record \in Block[x.notice.page]
      /\ x.found \in {0} \cup DOMAIN companies /\ companies \in Seq([name : Names, number : Numbers])
  BY RunFacts DEF RecordOK, Inv, RowsOK
<1>2. x.record.company \in Names /\ NumberOf(x.notice) \in Numbers
  BY <1>1, GivenAssumption DEF GivenAssumption, Names, Numbers, NumberOf
<1>3. new \in [name : Names, number : Numbers]
  BY <1>2
<1>4. CASE x.found # 0
  BY <1>1, <1>4 DEF SavedTable, IdOf
<1>5. CASE x.found = 0
  <2>1. SavedTable(x) = Append(companies, new) /\ IdOf(x) = Len(companies) + 1
    BY <1>5 DEF SavedTable, IdOf
  <2> HIDE DEF new
  <2>2. /\ Append(companies, new) \in Seq([name : Names, number : Numbers])
        /\ DOMAIN Append(companies, new) = DOMAIN companies \cup {Len(companies) + 1}
        /\ \A i \in DOMAIN companies : Append(companies, new)[i] = companies[i]
        /\ Append(companies, new)[Len(companies) + 1] = new
        /\ Len(companies) + 1 \notin DOMAIN companies
    BY <1>1, <1>3
  <2>3. new.name = x.record.company /\ new.number = NumberOf(x.notice)
    BY DEF new
  <2>. QED BY <1>5, <2>1, <2>2, <2>3
<1>. QED BY <1>4, <1>5

LEMMA SaveSteps == ASSUME Inv, NEW r \in Runner, Save(r) PROVE Inv'
<1> DEFINE x == run[r]
           id == IdOf(x)
<1>1. x.pc = "save" /\ DOMAIN x = DOMAIN Rest /\ SearchOK(x) /\ RecordOK(x, companies)
  BY RunFacts DEF Save, At
<1>2. /\ companies' \in Seq([name : Names, number : Numbers])
      /\ \A i \in DOMAIN companies : i \in DOMAIN companies' /\ companies'[i] = companies[i]
      /\ DOMAIN companies' = DOMAIN companies \cup {id}
      /\ x.found = 0 => /\ id \notin DOMAIN companies
                        /\ companies'[id].name = x.record.company
                        /\ companies'[id].number = NumberOf(x.notice)
  <2>1. companies' = SavedTable(x)
    BY SaveShape
  <2>. QED BY <1>1, <2>1, TableGrows
<1>3. mixed \subseteq mixed' /\ (id \notin mixed' => NumberOf(x.notice) \in {None, x.record.company})
  BY SaveShape DEF SavedMixed
<1>4. x.found # 0 => id = x.found /\ id \in DOMAIN companies /\ RowFits(x, companies[id])
  BY <1>1 DEF RecordOK, IdOf
<1>5. RowsOK'
  <2>1. ASSUME NEW i \in DOMAIN companies' PROVE i \in mixed' \/ companies'[i].number \in {None, companies'[i].name}
    <3>1. CASE i \in DOMAIN companies
      BY <1>2, <1>3, <3>1 DEF Inv, RowsOK
    <3>2. CASE i \notin DOMAIN companies
      BY <1>2, <1>3, <1>4, <3>2
    <3>. QED BY <3>1, <3>2
  <2>. QED BY <1>2, <2>1 DEF RowsOK
\* The run's row carries the name of the block, unless it is another company's.
<1>6. id \in mixed' \/ companies'[id].name = x.record.company
  <2>1. SUFFICES ASSUME id \notin mixed', x.found # 0 PROVE companies[id].name = x.record.company
    BY <1>2, <1>4
  <2>2. companies[id].number \in {None, companies[id].name}
    BY <1>3, <1>4, <2>1 DEF Inv, RowsOK
  <2>3. CASE x.notice.numbered
    <3>1. x.notice.of # None
      BY <1>1, GivenAssumption DEF GivenAssumption, RecordOK
    <3>. QED BY <1>3, <1>4, <2>1, <2>2, <2>3, <3>1 DEF RowFits, NumberOf
  <2>4. CASE ~x.notice.numbered
    BY <1>4, <2>1, <2>4 DEF RowFits
  <2>. QED BY <2>3, <2>4
<1>7. RolesOK'
  <2>1. ASSUME NEW s \in roles, s.co \in DOMAIN companies, s.co \in mixed \/ InBlockOf(s, companies[s.co].name)
        PROVE  s.co \in DOMAIN companies' /\ (s.co \in mixed' \/ InBlockOf(s, companies'[s.co].name))
    BY <1>2, <1>3, <2>1
  <2>2. ASSUME NEW s \in roles', s.co = id,
               NEW p \in x.record.persons, s.raw = p.name, s.type = RoleType(p.role)
        PROVE  s.co \in DOMAIN companies' /\ (s.co \in mixed' \/ InBlockOf(s, companies'[s.co].name))
    <3>1. x.notice.page \in DOMAIN Block /\ x.record \in Block[x.notice.page]
      BY <1>1, GivenAssumption DEF GivenAssumption, RecordOK
    <3>2. InBlockOf(s, x.record.company)
      BY <2>2, <3>1 DEF InBlockOf
    <3>. QED BY <1>2, <1>6, <2>2, <3>2
  <2>3. ASSUME NEW s \in roles'
                  PROVE  s.co \in DOMAIN companies' /\ (s.co \in mixed' \/ InBlockOf(s, companies'[s.co].name))
    BY <2>1, <2>2, SaveShape DEF Inv, RolesOK
  <2>. QED BY <2>3 DEF RolesOK, InBlockOf
<1>8. PICK n : run' = [run EXCEPT ![r] = Counted(Forget(x), n)]
  BY SaveShape
<1> DEFINE y == Counted(Forget(x), n)
<1>9. DOMAIN y = DOMAIN Rest /\ SearchOK(y) /\ \A table : RecordOK(y, table)
  BY <1>1, CountedForgets DEF SearchOK
<1>10. SearchOK(y) /\ RecordOK(y, companies')
  BY <1>9
<1> HIDE DEF y
<1>11. DOMAIN run' = Runner /\ \A q \in Runner : run'[q] = IF q = r THEN y ELSE run[q]
  BY <1>8 DEF Inv, RunsShaped, y
<1>12. RunsShaped'
  BY <1>9, <1>11 DEF Inv, RunsShaped
<1>13. ASSUME NEW q \in Runner, q # r PROVE SearchOK(run[q]) /\ RecordOK(run[q], companies')
  BY <1>2 DEF Inv, RunsOK, RecordOK
<1>14. RunsOK'
  BY <1>10, <1>11, <1>13 DEF RunsOK
<1>. QED BY <1>5, <1>7, <1>12, <1>14 DEF Inv

-----------------------------------------------------------------------------

LEMMA Starts == XInit => Inv
<1> SUFFICES ASSUME XInit PROVE Inv
  OBVIOUS
<1>1. run = [r \in Runner |-> Rest] /\ companies = <<>> /\ roles = {}
  BY DEF XInit, Init
<1>2. RunsShaped
  BY <1>1 DEF RunsShaped
<1>3. RowsOK /\ RolesOK
  BY <1>1 DEF RowsOK, RolesOK
<1>4. SearchOK(Rest) /\ RecordOK(Rest, companies)
  BY DEF SearchOK, RecordOK, Rest
<1>. QED BY <1>1, <1>2, <1>3, <1>4 DEF Inv, RunsOK

\* One case for each action; the report reads, and disturbs nothing.
LEMMA Inductive == Inv /\ [Next]_<<vars, rep>> => Inv'
<1> SUFFICES ASSUME Inv, [Next]_<<vars, rep>> PROVE Inv'
  OBVIOUS
<1>1. ASSUME UNCHANGED vars PROVE Inv'
  BY <1>1 DEF vars, tables, history, Inv, RunsShaped, RowsOK, RolesOK, RunsOK
<1>2. ASSUME NEW r \in Runner, RunStep(r) PROVE Inv'
  <2>1. ASSUME SearchFails(r) \/ SaveFails(r) PROVE Inv'
    BY <2>1, ForgetSteps DEF SearchFails, SaveFails, tables, history
  <2>. QED BY <1>2, <2>1, StartSteps, NextCompanySteps, OverSteps, ArriveSteps, NextChamberSteps,
              PickSteps, FetchSteps, LookUpSteps, SaveSteps, RolledBackSteps DEF RunStep
<1>3. ASSUME NEW p \in Person, Register(p) PROVE Inv'
  BY <1>3 DEF Register, tables, history, Inv, RunsShaped, RowsOK, RolesOK, RunsOK
<1>4. ASSUME ReportStep PROVE Inv'
  BY <1>1, <1>4 DEF ReportStep, PickActors, ReadUnlisted, ReadAssociates, CountUnlisted, CountUnknown
<1>. QED BY <1>1, <1>2, <1>3, <1>4 DEF Next, ScrapeStep, ScrapeNext, vars

THEOREM Invariant == Spec => []Inv
BY Starts, Inductive, PTL DEF Spec

LEMMA InvTypes == Inv => TypeOK
BY DEF Inv, TypeOK, RunsShaped, RowsOK, RolesOK, RunsOK, SearchOK, RecordOK, Seeds

\* TsgScrape is type correct: at each step a run knows the notice, the block
\* and the row its handler works on.
THEOREM TypeCorrect == Spec => []TypeOK
BY Invariant, InvTypes, PTL

LEMMA InvRoles == Inv => RolesOfTheirCompany
BY DEF Inv, RolesOK, InBlockOf, RolesOfTheirCompany

\* "This prevents attributing another company's directors to the target"
\* (parse_gazette_ocr): so it is for any registry, however runs overlap and
\* fail, of every row no other company's notice was taken for.
THEOREM RolesAttributed == Spec => []RolesOfTheirCompany
BY Invariant, InvRoles, PTL

LEMMA InvSearch == Inv => NoForeignRows
BY DEF Inv, RunsOK, SearchOK, Found, NoForeignRows

\* However late the answers of search_company come, a search holds rows found
\* for its own company.
THEOREM SearchesApart == Spec => []NoForeignRows
BY Invariant, InvSearch, PTL

-----------------------------------------------------------------------------
(* The report, read beside the runs *)

LinkedRoles == roles \ RolesOf(None)
LinkedCos == {s.co : s \in LinkedRoles}

\* A name that is like none of the persons known from the start.
Stranger(raw) == \A p \in Known0 : Alike[raw][p] < MatchThreshold

\* A run matches names against persons among which are all known at the start,
\* so what it leaves unmatched is a stranger's name.
NamesOK ==
    /\ Known0 \subseteq known /\ known \subseteq Person
    /\ \A r \in Runner : run[r].pc # "off" =>
            Known0 \subseteq run[r].snapshot /\ run[r].snapshot \subseteq Person
    /\ IsFiniteSet(roles)
    /\ \A s \in roles : s.person = None => Stranger(s.raw)

\* What the report has read stays true, for roles are only added; once a total is
\* counted no footprint is; and as long as nothing is stored, each role of an actor is
\* one that is listed or will be.
PrintsOK ==
    /\ DOMAIN rep = DOMAIN NoReport
    /\ None \notin rep.todo
    /\ rep.actor = None => rep.cos = {}
    /\ rep.cos \subseteq LinkedRoles
    /\ \A f \in rep.prints : f.cos \subseteq LinkedRoles /\ \A e \in f.others : e[2] \in RolesOf(None)
    /\ (rep.pc = "actors" /\ rep.still) =>
            \A s \in LinkedRoles :
                s.person \in rep.todo \/ s \in rep.cos \/ \E f \in rep.prints : s \in f.cos
    /\ rep.pc \in {"totals", "built"} =>
            /\ Cardinality(CompaniesIn(rep.prints)) <= rep.unlisted
            /\ rep.still => Cardinality(CompaniesIn(rep.prints)) = rep.unlisted
    /\ rep.pc = "built" => Cardinality(UnknownIn(rep.prints)) <= rep.unknown

\* There are finitely many companies with a known officer.
LEMMA RolesCount ==
    ASSUME IsFiniteSet(roles)
    PROVE  IsFiniteSet(LinkedCos) /\ IsFiniteSet(RolesOf(None))
<1> DEFINE S == LinkedRoles
           f == [s \in S |-> s.co]
<1>1. S \in SUBSET roles /\ RolesOf(None) \in SUBSET roles
  BY DEF LinkedRoles, RolesOf
<1>2. IsFiniteSet(S) /\ IsFiniteSet(RolesOf(None))
  BY <1>1, FS_Subset
<1>3. f \in Surjection(S, LinkedCos)
  BY DEF Surjection, LinkedCos
<1> HIDE DEF S, f
<1>. QED BY <1>2, <1>3, FS_Surjection

\* The roles of a block are finitely many.
LEMMA NewRolesFinite ==
    ASSUME Inv, NEW r \in Runner, run[r].pc = "save"
    PROVE  IsFiniteSet(NewRoles(run[r]))
<1> DEFINE x == run[r]
           persons == x.record.persons
           made == {[raw |-> p.name, co |-> IdOf(x), type |-> RoleType(p.role)] : p \in persons}
           f == [p \in persons |-> [raw |-> p.name, co |-> IdOf(x), type |-> RoleType(p.role)]]
<1>1. IsFiniteSet(persons)
  BY RunFacts, GivenAssumption DEF RecordOK, GivenAssumption
<1>2. f \in Surjection(persons, made)
  BY DEF Surjection
<1>3. NewRoles(x) \in SUBSET made
  BY DEF NewRoles
<1> HIDE DEF f, made, persons
<1>4. IsFiniteSet(made)
  BY <1>1, <1>2, FS_Surjection
<1>. QED BY <1>3, <1>4, FS_Subset

\* The roles a run stores are those of its block, finitely many, and the ones it
\* leaves without a person have strangers' names.
LEMMA SavedNames ==
    ASSUME Inv, NamesOK, NEW r \in Runner, Save(r)
    PROVE  /\ roles \subseteq roles' /\ IsFiniteSet(roles')
           /\ \A s \in roles' : s.person = None => Stranger(s.raw)
<1> DEFINE x == run[r]
           persons == x.record.persons
<1>1. PICK who \in [NewRoles(x) -> Person \cup {None}] :
        /\ \A e \in NewRoles(x) : who[e] \in Matches(e.raw, x.snapshot)
        /\ roles' = roles \cup {[raw |-> e.raw, co |-> e.co, type |-> e.type, person |-> who[e]] : e \in NewRoles(x)}
  BY DEF Save, Stored, Matchings
<1>2. x.record \in Block[x.notice.page] /\ x.notice.page \in DOMAIN Block /\ x.pc = "save"
  BY RunFacts, GivenAssumption DEF Save, At, RecordOK, GivenAssumption
<1>3. IsFiniteSet(persons) /\ \A p \in persons : \A q \in Person : Alike[p.name][q] \in Int
  BY <1>2, GivenAssumption DEF GivenAssumption
<1>4. IsFiniteSet(NewRoles(x))
  BY <1>2, NewRolesFinite
<1> DEFINE stored == {[raw |-> e.raw, co |-> e.co, type |-> e.type, person |-> who[e]] : e \in NewRoles(x)}
<1>5. IsFiniteSet(stored)
  <2> DEFINE f == [e \in NewRoles(x) |-> [raw |-> e.raw, co |-> e.co, type |-> e.type, person |-> who[e]]]
  <2>1. f \in Surjection(NewRoles(x), stored)
    BY DEF Surjection
  <2> HIDE DEF f, stored
  <2>. QED BY <1>4, <2>1, FS_Surjection
<1>6. IsFiniteSet(roles')
  <2> HIDE DEF stored
  <2>1. IsFiniteSet(roles \cup stored)
    BY <1>5, FS_Union DEF NamesOK
  <2>. QED BY <1>1, <2>1 DEF stored
<1>7. ASSUME NEW s \in stored, s.person = None PROVE Stranger(s.raw)
  <2>1. PICK e \in NewRoles(x) : s.raw = e.raw /\ who[e] = None
    BY <1>7
  <2>2. PICK p \in persons : e.raw = p.name
    BY DEF NewRoles
  <2>3. None \in Matches(e.raw, x.snapshot)
    BY <1>1, <2>1
  <2>4. Known0 \subseteq x.snapshot /\ None \notin x.snapshot
    BY <1>2, GivenAssumption DEF NamesOK, GivenAssumption
  <2>5. \A q \in x.snapshot : ~(Alike[e.raw][q] >= MatchThreshold)
    BY <2>3, <2>4 DEF Matches
  <2>. QED BY <1>3, <2>1, <2>2, <2>4, <2>5, GivenAssumption DEF Stranger, GivenAssumption, MatchThreshold
<1>. QED BY <1>1, <1>6, <1>7 DEF NamesOK

\* What a run has counted.
Counts(x) == [c \in Counter |-> x[c]]

\* A run goes on, with the persons it matches against.
GoesOn(y, x) == y.snapshot = x.snapshot /\ y.pc # "off"

\* One run goes on, the others stand.
LEMMA OneGoesOn ==
    ASSUME DOMAIN run = Runner, NEW r \in Runner, NEW y, run' = [run EXCEPT ![r] = y],
           GoesOn(y, run[r])
    PROVE  /\ \A q \in Runner : run'[q].snapshot = run[q].snapshot /\ (q # r => run'[q] = run[q])
           /\ run'[r] = y /\ y.pc # "off"
BY DEF GoesOn

LEMMA ForgetGoesOn ==
    ASSUME NEW x, DOMAIN x = DOMAIN Rest
    PROVE  /\ GoesOn(Forget(x), x) /\ Counts(Forget(x)) = Counts(x)
           /\ \A n : GoesOn(Counted(Forget(x), n), x)
BY DEF Forget, Rest, GoesOn, Counts, Counter, Counted

\* Only the start of a run changes what it matches against, and only a
\* transaction what it has counted.
LEMMA SnapshotsKeep ==
    ASSUME Inv, NEW r \in Runner, RunStep(r), ~Start(r)
    PROVE  /\ \A q \in Runner : run'[q].snapshot = run[q].snapshot /\ (q # r => run'[q] = run[q])
           /\ run'[r].pc # "off"
           /\ ~Save(r) /\ ~RolledBack(r) => Counts(run'[r]) = Counts(run[r])
<1> DEFINE x == run[r]
           goes == /\ \A q \in Runner : run'[q].snapshot = run[q].snapshot /\ (q # r => run'[q] = run[q])
                   /\ run'[r].pc # "off"
           kept == goes /\ Counts(run'[r]) = Counts(x)
<1>1. DOMAIN run = Runner /\ DOMAIN x = DOMAIN Rest
  BY DEF Inv, RunsShaped
<1>2. ASSUME run' = [run EXCEPT ![r] = Forget(@)] PROVE kept
  <2>1. run' = [run EXCEPT ![r] = Forget(x)]
    BY <1>1, <1>2
  <2>. QED BY <1>1, <2>1, ForgetGoesOn, OneGoesOn
<1>3. CASE NextCompany(r)
  <2>1. PICK s : run' = [run EXCEPT ![r].pc = "search", ![r].seed = s, ![r].todo = @ \ {s},
                                    ![r].chamber = 1, ![r].flight = @ \cup {<<s, 1>>}]
    BY <1>3 DEF NextCompany
  <2> DEFINE y == [x EXCEPT !.pc = "search", !.seed = s, !.todo = @ \ {s},
                            !.chamber = 1, !.flight = @ \cup {<<s, 1>>}]
  <2>2. run' = [run EXCEPT ![r] = y] /\ GoesOn(y, x) /\ Counts(y) = Counts(x)
    BY <1>1, <2>1 DEF Rest, GoesOn, Counts, Counter
  <2> HIDE DEF y
  <2>. QED BY <1>1, <2>2, OneGoesOn
<1>4. CASE Over(r)
  <2> DEFINE y == [x EXCEPT !.pc = "over"]
  <2>1. run' = [run EXCEPT ![r] = y] /\ GoesOn(y, x) /\ Counts(y) = Counts(x)
    BY <1>1, <1>4 DEF Over, Rest, GoesOn, Counts, Counter
  <2> HIDE DEF y
  <2>. QED BY <1>1, <2>1, OneGoesOn
<1>5. CASE Arrive(r)
  <2>1. PICK f : run' = [run EXCEPT ![r].flight = @ \ {f}, ![r].div = {Answer[f[1]][f[2]]}]
    BY <1>5 DEF Arrive
  <2> DEFINE y == [x EXCEPT !.flight = @ \ {f}, !.div = {Answer[f[1]][f[2]]}]
  <2>2. run' = [run EXCEPT ![r] = y] /\ GoesOn(y, x) /\ Counts(y) = Counts(x)
    BY <1>1, <1>5, <2>1 DEF Arrive, At, Rest, GoesOn, Counts, Counter
  <2> HIDE DEF y
  <2>. QED BY <1>1, <2>2, OneGoesOn
<1>6. CASE NextChamber(r)
  <2> DEFINE y == [AfterRead(x) EXCEPT !.div = {}]
  <2>1. run' = [run EXCEPT ![r] = y]
    BY <1>1, <1>6 DEF NextChamber
  <2>2. GoesOn(y, x) /\ Counts(y) = Counts(x)
    <3>1. CASE x.chamber = Chambers
      BY <1>1, <3>1 DEF AfterRead, Rest, GoesOn, Counts, Counter
    <3>2. CASE x.chamber # Chambers
      <4>1. x.pc = "search"
        BY <1>6 DEF NextChamber, At
      <4>2. /\ y.snapshot = x.snapshot /\ y.pc = x.pc
            /\ Counts(y) = Counts(x)
        BY <1>1, <3>2 DEF AfterRead, Rest, Counts, Counter
      <4>. HIDE DEF y
      <4>. QED BY <4>1, <4>2 DEF GoesOn
    <3>. QED BY <3>1, <3>2
  <2> HIDE DEF y
  <2>. QED BY <1>1, <2>1, <2>2, OneGoesOn
<1>7. CASE SearchFails(r)
  BY <1>2, <1>7 DEF SearchFails
<1>8. CASE Pick(r)
  <2>1. CASE x.rows = {}
    BY <1>2, <1>8, <2>1 DEF Pick
  <2>2. CASE x.rows # {}
    <3>1. PICK n : run' = [run EXCEPT ![r].pc = "fetch", ![r].notice = n, ![r].rows = {},
                                      ![r].flight = {}, ![r].div = {}]
      BY <1>8, <2>2 DEF Pick
    <3> DEFINE y == [x EXCEPT !.pc = "fetch", !.notice = n, !.rows = {}, !.flight = {}, !.div = {}]
    <3>2. run' = [run EXCEPT ![r] = y] /\ GoesOn(y, x) /\ Counts(y) = Counts(x)
      BY <1>1, <3>1 DEF Rest, GoesOn, Counts, Counter
    <3> HIDE DEF y
    <3>. QED BY <1>1, <3>2, OneGoesOn
  <2>. QED BY <2>1, <2>2
<1>9. CASE Fetch(r)
  <2>1. CASE run' = [run EXCEPT ![r] = Forget(@)]
    BY <1>2, <2>1
  <2>2. ASSUME NEW b, run' = [run EXCEPT ![r].pc = "look", ![r].record = b] PROVE kept
    <3> DEFINE y == [x EXCEPT !.pc = "look", !.record = b]
    <3>1. run' = [run EXCEPT ![r] = y] /\ GoesOn(y, x) /\ Counts(y) = Counts(x)
      BY <1>1, <2>2 DEF Rest, GoesOn, Counts, Counter
    <3> HIDE DEF y
    <3>. QED BY <1>1, <3>1, OneGoesOn
  <2>. QED BY <1>9, <2>1, <2>2 DEF Fetch
<1>10. CASE LookUp(r)
  <2>1. CASE run' = [run EXCEPT ![r] = Forget(@)]
    BY <1>2, <2>1
  <2>2. ASSUME NEW i, run' = [run EXCEPT ![r].pc = "save", ![r].found = i] PROVE kept
    <3> DEFINE y == [x EXCEPT !.pc = "save", !.found = i]
    <3>1. run' = [run EXCEPT ![r] = y] /\ GoesOn(y, x) /\ Counts(y) = Counts(x)
      BY <1>1, <2>2 DEF Rest, GoesOn, Counts, Counter
    <3> HIDE DEF y
    <3>. QED BY <1>1, <3>1, OneGoesOn
  <2>. QED BY <1>10, <2>1, <2>2 DEF LookUp
<1>11. ASSUME NEW n, run' = [run EXCEPT ![r] = Counted(Forget(x), n)] PROVE goes
  <2> DEFINE y == Counted(Forget(x), n)
  <2>1. run' = [run EXCEPT ![r] = y] /\ GoesOn(y, x)
    BY <1>1, <1>11, ForgetGoesOn
  <2> HIDE DEF y
  <2>. QED BY <1>1, <2>1, OneGoesOn
<1>12. CASE Save(r)
  <2>1. PICK n : run' = [run EXCEPT ![r] = Counted(Forget(x), n)]
    BY <1>12, SaveShape
  <2>2. goes
    BY <2>1, <1>11
  <2>. QED BY <2>2, <1>12
<1>13. CASE SaveFails(r)
  BY <1>2, <1>13 DEF SaveFails
<1>14. CASE RolledBack(r)
  <2>1. PICK n : run' = [run EXCEPT ![r] = Counted(Forget(x), n)]
    BY <1>1, <1>14 DEF RolledBack
  <2>2. goes
    BY <2>1, <1>11
  <2>. QED BY <2>2, <1>14
<1>. QED BY <1>3, <1>4, <1>5, <1>6, <1>7, <1>8, <1>9, <1>10, <1>12, <1>13, <1>14 DEF RunStep

LEMMA NamesKeep == ASSUME Inv, NamesOK, [Next]_<<vars, rep>> PROVE NamesOK' /\ roles \subseteq roles'
<1>1. CASE UNCHANGED vars
  BY <1>1 DEF vars, tables, history, NamesOK, Stranger
<1>2. ASSUME NEW p \in Person, Register(p) PROVE NamesOK' /\ roles \subseteq roles'
  BY <1>2 DEF Register, tables, history, NamesOK, Stranger
<1>3. ASSUME NEW r \in Runner, RunStep(r) PROVE NamesOK' /\ roles \subseteq roles'
  <2>1. known' = known
    BY <1>3 DEF RunStep, Start, NextCompany, Over, Arrive, NextChamber, SearchFails, Pick, Fetch, LookUp, Save,
       SaveFails, RolledBack, Stored
  <2>2. DOMAIN run = Runner /\ \A q \in Runner : DOMAIN run[q] = DOMAIN Rest
    BY DEF Inv, RunsShaped
  <2>3. \A q \in Runner : run'[q].pc # "off" => Known0 \subseteq run'[q].snapshot /\ run'[q].snapshot \subseteq Person
    <3>1. CASE Start(r)
      BY <2>2, <3>1 DEF Start, Rest, NamesOK
    <3>2. CASE ~Start(r)
      <4>1. run[r].pc # "off"
        BY <1>3, <3>2 DEF RunStep, At, NextCompany, Over, Arrive, NextChamber, SearchFails, Pick, Fetch, LookUp,
           Save, SaveFails, RolledBack, Stored
      <4>2. \A q \in Runner : run'[q].snapshot = run[q].snapshot /\ (q # r => run'[q] = run[q])
        BY <1>3, <3>2, SnapshotsKeep
      <4>. QED BY <4>1, <4>2 DEF NamesOK
    <3>. QED BY <3>1, <3>2
  <2>4. /\ roles \subseteq roles' /\ IsFiniteSet(roles')
        /\ \A s \in roles' : s.person = None => Stranger(s.raw)
    <3>1. CASE Save(r)
      BY <3>1, SavedNames
    <3>2. CASE ~Save(r)
      <4>1. roles' = roles
        BY <1>3, <3>2 DEF RunStep, tables, history, Start, NextCompany, Over, Arrive, NextChamber, SearchFails,
           Pick, Fetch, LookUp, SaveFails, RolledBack
      <4>. QED BY <4>1 DEF NamesOK
    <3>. QED BY <3>1, <3>2
  <2>. QED BY <2>1, <2>3, <2>4 DEF NamesOK, Stranger
<1>. QED BY <1>1, <1>2, <1>3 DEF Next, ScrapeStep, ScrapeNext, ReportStep, PickActors, ReadUnlisted,
       ReadAssociates, CountUnlisted, CountUnknown, vars

\* Of what was read, nothing is taken back by a later commit.
LEMMA PrintsGrow ==
    ASSUME roles \subseteq roles'
    PROVE  /\ LinkedRoles \subseteq LinkedRoles' /\ RolesOf(None) \subseteq RolesOf(None)'
           /\ roles' = roles => LinkedRoles' = LinkedRoles
BY DEF LinkedRoles, RolesOf

LEMMA PrintsKeep == ASSUME NamesOK, PrintsOK, [Next]_<<vars, rep>>, roles \subseteq roles' PROVE PrintsOK'
<1>1. /\ LinkedRoles \subseteq LinkedRoles' /\ RolesOf(None) \subseteq RolesOf(None)'
      /\ roles' = roles => LinkedRoles' = LinkedRoles
  BY PrintsGrow
<1>2. DOMAIN rep = {"pc", "todo", "actor", "cos", "prints", "unlisted", "unknown", "still"}
  BY DEF PrintsOK, NoReport
<1>3. CASE ScrapeStep \/ UNCHANGED <<vars, rep>>
  <2>1. /\ rep'.pc = rep.pc /\ rep'.todo = rep.todo /\ rep'.actor = rep.actor /\ rep'.cos = rep.cos
        /\ rep'.prints = rep.prints /\ rep'.unlisted = rep.unlisted /\ rep'.unknown = rep.unknown
        /\ DOMAIN rep' = DOMAIN rep
    BY <1>2, <1>3 DEF ScrapeStep
  <2>2. rep'.still /\ rep.pc # "idle" => rep.still /\ roles' = roles
    BY <1>2, <1>3 DEF ScrapeStep, vars, tables
  <2>. QED BY <1>1, <2>1, <2>2 DEF PrintsOK
<1>4. CASE PickActors
  <2>1. None \notin (Top \cap known) \cup Linked
    BY GivenAssumption DEF NamesOK, GivenAssumption, Linked
  <2>2. \A s \in LinkedRoles : s.person \in Linked
    BY DEF LinkedRoles, RolesOf, Linked
  <2>3. rep' = [rep EXCEPT !.pc = "actors", !.todo = (Top \cap known) \cup Linked] /\ roles' = roles
    BY <1>4 DEF PickActors, vars, tables
  <2>. QED BY <1>1, <1>2, <2>1, <2>2, <2>3 DEF PrintsOK
<1>5. CASE ReadUnlisted
  <2>1. PICK p \in rep.todo : rep' = [rep EXCEPT !.todo = @ \ {p}, !.actor = p, !.cos = RolesOf(p)]
    BY <1>5 DEF ReadUnlisted
  <2>2. RolesOf(p) \subseteq LinkedRoles
    BY DEF PrintsOK, LinkedRoles, RolesOf
  <2>3. rep.pc = "actors" /\ rep.actor = None /\ roles' = roles
    BY <1>5 DEF ReadUnlisted, vars, tables
  <2>4. /\ rep'.pc = "actors" /\ rep'.todo = rep.todo \ {p} /\ rep'.actor = p /\ rep'.cos = RolesOf(p)
        /\ rep'.prints = rep.prints /\ rep'.still = rep.still /\ DOMAIN rep' = DOMAIN rep
    BY <1>2, <2>1, <2>3
  <2>5. rep.cos = {} /\ p # None
    BY <2>3 DEF PrintsOK
  <2>6. ASSUME NEW s \in LinkedRoles, rep.still
        PROVE  s.person \in rep'.todo \/ s \in rep'.cos \/ \E f \in rep'.prints : s \in f.cos
    <3>1. s \in roles
      BY DEF LinkedRoles
    <3>. QED BY <2>3, <2>4, <2>5, <2>6, <3>1 DEF PrintsOK, RolesOf
  <2>. QED BY <1>1, <2>2, <2>3, <2>4, <2>5, <2>6 DEF PrintsOK
<1>6. CASE ReadAssociates
  <2> DEFINE lines == {e \in RolesOf(rep.actor) \X RolesOf(None) : e[1].co = e[2].co}
             print == [actor |-> rep.actor, cos |-> rep.cos, others |-> lines]
  <2>1. rep' = [rep EXCEPT !.actor = None, !.cos = {}, !.prints = @ \cup {print}]
    BY <1>6 DEF ReadAssociates
  <2>2. print.cos = rep.cos /\ print.cos \subseteq LinkedRoles /\ \A e \in print.others : e[2] \in RolesOf(None)
    BY DEF PrintsOK
  <2>3. rep.pc = "actors" /\ roles' = roles
    BY <1>6 DEF ReadAssociates, vars, tables
  <2> HIDE DEF print
  <2>4. /\ rep'.pc = "actors" /\ rep'.todo = rep.todo /\ rep'.actor = None /\ rep'.cos = {}
        /\ rep'.prints = rep.prints \cup {print} /\ rep'.still = rep.still /\ DOMAIN rep' = DOMAIN rep
    BY <1>2, <2>1, <2>3
  <2>5. ASSUME NEW s \in LinkedRoles, rep.still
        PROVE  s.person \in rep'.todo \/ \E f \in rep'.prints : s \in f.cos
    BY <2>2, <2>3, <2>4, <2>5 DEF PrintsOK
  <2>. QED BY <1>1, <2>2, <2>3, <2>4, <2>5 DEF PrintsOK
<1>7. CASE CountUnlisted
  <2>1. LinkedCos = {s.co : s \in roles \ RolesOf(None)}
    BY DEF LinkedCos, LinkedRoles
  <2>2. /\ rep' = [rep EXCEPT !.pc = "totals", !.unlisted = Cardinality(LinkedCos)]
        /\ rep.pc = "actors" /\ rep.actor = None /\ rep.todo = {}
    BY <1>7, <2>1 DEF CountUnlisted
  <2>3. /\ rep'.pc = "totals" /\ rep'.todo = rep.todo /\ rep'.actor = rep.actor /\ rep'.cos = rep.cos
        /\ rep'.prints = rep.prints /\ rep'.still = rep.still /\ DOMAIN rep' = DOMAIN rep
        /\ rep'.unlisted = Cardinality(LinkedCos)
    BY <1>2, <2>2
  <2>4. CompaniesIn(rep.prints) \in SUBSET LinkedCos
    BY DEF PrintsOK, LinkedCos, CompaniesIn
  <2>5. Cardinality(CompaniesIn(rep.prints)) <= Cardinality(LinkedCos)
    BY <2>4, RolesCount, FS_Subset DEF NamesOK
  <2>6. rep.still => CompaniesIn(rep.prints) = LinkedCos
    <3>1. SUFFICES ASSUME rep.still, NEW s \in LinkedRoles PROVE \E f \in rep.prints : s \in f.cos
      BY <2>4 DEF LinkedCos, CompaniesIn
    <3>. QED BY <2>2, <3>1 DEF PrintsOK
  <2>7. Cardinality(CompaniesIn(rep'.prints)) <= rep'.unlisted
        /\ (rep'.still => Cardinality(CompaniesIn(rep'.prints)) = rep'.unlisted)
    BY <2>3, <2>5, <2>6
  <2>. QED BY <1>1, <2>3, <2>7 DEF PrintsOK
<1>8. CASE CountUnknown
  <2>1. /\ rep' = [rep EXCEPT !.pc = "built", !.unknown = Cardinality(RolesOf(None))]
        /\ rep.pc = "totals"
    BY <1>8 DEF CountUnknown
  <2>2. UnknownIn(rep.prints) \in SUBSET RolesOf(None)
    BY DEF PrintsOK, UnknownIn
  <2>3. Cardinality(UnknownIn(rep.prints)) <= Cardinality(RolesOf(None))
    BY <2>2, RolesCount, FS_Subset DEF NamesOK
  <2>4. /\ rep'.pc = "built" /\ rep'.todo = rep.todo /\ rep'.actor = rep.actor /\ rep'.cos = rep.cos
        /\ rep'.prints = rep.prints /\ rep'.still = rep.still /\ DOMAIN rep' = DOMAIN rep
        /\ rep'.unlisted = rep.unlisted /\ rep'.unknown = Cardinality(RolesOf(None))
    BY <1>2, <2>1
  <2>5. Cardinality(UnknownIn(rep'.prints)) <= rep'.unknown
    BY <2>3, <2>4
  <2>. QED BY <1>1, <2>1, <2>4, <2>5 DEF PrintsOK
<1>. QED BY <1>3, <1>4, <1>5, <1>6, <1>7, <1>8 DEF Next, ReportStep

LEMMA ReportInvariant == Spec => [](NamesOK /\ PrintsOK)
<1>1. XInit => NamesOK /\ PrintsOK
  BY GivenAssumption, FS_EmptySet DEF XInit, Init, NamesOK, PrintsOK, NoReport, Rest, GivenAssumption
<1>2. Inv /\ NamesOK /\ PrintsOK /\ [Next]_<<vars, rep>> => NamesOK' /\ PrintsOK'
  BY NamesKeep, PrintsKeep
<1>. QED BY <1>1, <1>2, Invariant, PTL DEF Spec

LEMMA PrintsOfStrangers == NamesOK /\ PrintsOK => NotOwnAssociate
<1> SUFFICES ASSUME NamesOK, PrintsOK, NEW f \in rep.prints, f.actor \in Known0, NEW o \in f.others
             PROVE  Alike[o[2].raw][f.actor] < MatchThreshold
  BY DEF NotOwnAssociate
<1>1. o[2] \in roles /\ o[2].person = None
  BY DEF PrintsOK, RolesOf
<1>. QED BY <1>1 DEF NamesOK, Stranger

\* No actor known from the start is listed beside himself under another spelling,
\* however the report's statements fall between the commits of the runs.
THEOREM NeverBesideHimself == Spec => []NotOwnAssociate
BY ReportInvariant, PrintsOfStrangers, PTL

LEMMA PrintsCounted == PrintsOK => TotalsCoverActors
BY DEF PrintsOK, TotalsCoverActors

\* The totals of the report are never below the companies and unmatched roles its
\* footprints list, for they are read last and roles are only added; and if none was
\* stored while the report was built, it lists every company its total counts.
THEOREM TotalsCover == Spec => []TotalsCoverActors
BY ReportInvariant, PrintsCounted, PTL

-----------------------------------------------------------------------------
(* What the runs report is what is stored *)

Column(c) == [r \in Runner |-> run[r][c]]

\* What each counter of all runs must add up to.
Owed ==
    [companies |-> Len(companies) + refound + undone.companies,
     inserted |-> Cardinality(roles) + undone.inserted,
     matched |-> Cardinality({s \in roles : s.person # None}) + undone.matched,
     unmatched |-> Cardinality({s \in roles : s.person = None}) + undone.unmatched]

\* CountsMatchRows, of counters that are numbers and of a run that has yet to start.
CountsOK ==
    /\ refound \in Nat /\ undone \in [Counter -> Nat]
    /\ \A r \in Runner : run[r].pc = "off" => \A c \in Counter : run[r][c] = 0
    /\ \A c \in Counter : /\ Column(c) \in [Runner -> Nat] /\ IsFiniteSet(Units(Column(c)))
                          /\ SumOf(Column(c)) = Owed[c]

\* The column g is f with n more for r.
Raised(g, f, r, n) == g = [f EXCEPT ![r] = f[r] + n]

\* A counter that grows adds as much to the sum.
LEMMA SumGrows ==
    ASSUME NEW f \in [Runner -> Nat], IsFiniteSet(Units(f)), NEW r \in Runner, NEW n \in Nat,
           NEW g, Raised(g, f, r, n)
    PROVE  g \in [Runner -> Nat] /\ IsFiniteSet(Units(g)) /\ SumOf(g) = SumOf(f) + n
<1> DEFINE A == Units(f)
           I == (f[r] + 1)..(f[r] + n)
           B == {r} \X I
<1>1. IsFiniteSet(I) /\ Cardinality(I) = n
  <2>1. PICK a, b \in Int : a = f[r] + 1 /\ b = f[r] + n
    OBVIOUS
  <2>2. IsFiniteSet(a..b) /\ Cardinality(a..b) = IF a > b THEN 0 ELSE b - a + 1
    BY FS_Interval
  <2>3. (IF a > b THEN 0 ELSE b - a + 1) = n
    BY <2>1
  <2>. QED BY <2>1, <2>2, <2>3
<1>2. IsFiniteSet(B) /\ Cardinality(B) = n
  <2> HIDE DEF I
  <2>1. IsFiniteSet({r}) /\ Cardinality({r}) = 1
    BY FS_Singleton
  <2>. QED BY <1>1, <2>1, FS_Product
<1>3. g \in [Runner -> Nat] /\ g[r] = f[r] + n /\ \A q \in Runner \ {r} : g[q] = f[q]
  BY DEF Raised
<1>4. Units(g) = A \cup B
  <2>1. \A q \in Runner \ {r} : {q} \X (1..g[q]) = {q} \X (1..f[q])
    BY <1>3
  <2>2. {r} \X (1..g[r]) = ({r} \X (1..f[r])) \cup B
    <3>1. 1..g[r] = (1..f[r]) \cup I
      BY <1>3
    <3>. HIDE DEF I
    <3>. QED BY <3>1
  <2>3. \A u : u \in Units(g) <=> \E q \in Runner : u \in {q} \X (1..g[q])
    BY <1>3 DEF Units
  <2>4. \A u : u \in A <=> \E q \in Runner : u \in {q} \X (1..f[q])
    BY DEF Units
  <2>. HIDE DEF A, B
  <2>. QED BY <2>1, <2>2, <2>3, <2>4
<1>5. A \cap B = {}
  <2>1. SUFFICES ASSUME NEW u \in A, u \in B PROVE FALSE
    OBVIOUS
  <2>2. PICK q \in Runner : u \in {q} \X (1..f[q])
    BY DEF Units
  <2>3. u[2] \in 1..f[r] /\ u[2] \in I
    BY <2>1, <2>2
  <2>. QED BY <2>3
<1>6. IsFiniteSet(A) /\ Cardinality(A) \in Nat
  BY FS_CardinalityType
<1>. HIDE DEF A, B
<1>7. IsFiniteSet(A \cup B) /\ Cardinality(A \cup B) = Cardinality(A) + n - Cardinality({})
  BY <1>2, <1>5, <1>6, FS_Union
<1>8. Cardinality({}) = 0
  BY FS_EmptySet
<1>9. SumOf(g) = Cardinality(A \cup B) /\ SumOf(f) = Cardinality(A)
  BY <1>4 DEF SumOf, A
<1>10. IsFiniteSet(Units(g))
  BY <1>4, <1>7
<1>. QED BY <1>3, <1>6, <1>7, <1>8, <1>9, <1>10

\* What is stored beside some roles, one for one of as many others, adds as many.
LEMMA RolesAdd ==
    ASSUME NEW R, IsFiniteSet(R), NEW E, IsFiniteSet(E), NEW S, NEW h \in Bijection(E, S), R \cap S = {}
    PROVE  /\ Cardinality(R \cup S) = Cardinality(R) + Cardinality(E)
           /\ Cardinality(R) \in Nat /\ Cardinality(E) \in Nat
<1>1. IsFiniteSet(S) /\ Cardinality(S) = Cardinality(E)
  BY FS_Bijection DEF ExistsBijection
<1>2. Cardinality(R \cup S) = Cardinality(R) + Cardinality(S) - Cardinality({})
  BY <1>1, FS_Union
<1>3. Cardinality(R) \in Nat /\ Cardinality(E) \in Nat /\ Cardinality({}) = 0
  BY FS_EmptySet, FS_CardinalityType
<1>. QED BY <1>1, <1>2, <1>3

\* A run counts what is owed for its step.
LEMMA CountsAdd ==
    ASSUME CountsOK, NEW r \in Runner, NEW n,
           refound' \in Nat, undone' \in [Counter -> Nat], run'[r].pc # "off",
           \A q \in Runner : q # r => run'[q] = run[q],
           \A c \in Counter : /\ n[c] \in Nat
                             /\ run'[r][c] = run[r][c] + n[c]
                             /\ Owed'[c] = Owed[c] + n[c]
    PROVE  CountsOK'
<1>1. ASSUME NEW c \in Counter
      PROVE  /\ Column(c)' \in [Runner -> Nat] /\ IsFiniteSet(Units(Column(c)'))
             /\ SumOf(Column(c)') = Owed'[c]
  <2>. PICK f, k, g : f = Column(c) /\ k = n[c] /\ g = Column(c)'
    OBVIOUS
  <2>1. f \in [Runner -> Nat] /\ IsFiniteSet(Units(f)) /\ SumOf(f) = Owed[c] /\ k \in Nat
    BY <1>1 DEF CountsOK
  <2>2. Raised(g, f, r, k)
    BY <1>1 DEF Column, Raised
  <2>3. Owed'[c] = Owed[c] + k
    BY <1>1
  <2>4. g \in [Runner -> Nat] /\ IsFiniteSet(Units(g)) /\ SumOf(g) = SumOf(f) + k
    <3>1. f \in [Runner -> Nat] /\ IsFiniteSet(Units(f)) /\ k \in Nat
      BY <2>1
    <3>. QED BY ONLY r \in Runner, <3>1, <2>2, SumGrows
  <2>5. SumOf(g) = Owed'[c]
    BY <2>1, <2>3, <2>4
  <2>. QED BY <2>4, <2>5
<1>2. \A c \in Counter : Units(Column(c)') = Units(Column(c))'
  BY DEF Units
<1>3. ASSUME NEW q \in Runner, run'[q].pc = "off" PROVE \A c \in Counter : run'[q][c] = 0
  BY <1>3 DEF CountsOK
<1>. QED BY <1>1, <1>2, <1>3 DEF CountsOK, SumOf

\* Counters and rows that are left alone still match.
LEMMA CountsSame ==
    ASSUME CountsOK, roles' = roles, UNCHANGED <<companies, refound, undone>>,
           \A q \in Runner : (\A c \in Counter : run'[q][c] = run[q][c])
                             /\ (run'[q].pc = "off" => run[q].pc = "off")
    PROVE  CountsOK'
<1>1. \A c \in Counter : Column(c)' = Column(c)
  BY DEF Column
<1>2. Owed' = Owed
  BY DEF Owed
<1>3. \A q \in Runner : run'[q].pc = "off" => \A c \in Counter : run'[q][c] = 0
  BY DEF CountsOK
<1>. QED BY <1>1, <1>2, <1>3 DEF CountsOK

\* What a transaction counts of finitely many roles are numbers.
LEMMA CountsOfFinite ==
    ASSUME NEW E, IsFiniteSet(E), NEW who
    PROVE  \A c \in Counter : CountsOf(E, who)[c] \in Nat
<1> DEFINE hit == {e \in E : who[e] # None}
           miss == {e \in E : who[e] = None}
<1>1. hit \in SUBSET E /\ miss \in SUBSET E
  OBVIOUS
<1>2. CountsOf(E, who) = [companies |-> 1, inserted |-> Cardinality(E),
                          matched |-> Cardinality(hit), unmatched |-> Cardinality(miss)]
  BY DEF CountsOf
<1> HIDE DEF hit, miss
<1>3. Cardinality(E) \in Nat /\ Cardinality(hit) \in Nat /\ Cardinality(miss) \in Nat
  BY <1>1, FS_Subset, FS_CardinalityType
<1>. QED BY <1>2, <1>3 DEF Counter

\* A run that counted has counted that.
LEMMA CountedRun ==
    ASSUME DOMAIN run = Runner, NEW r \in Runner, DOMAIN run[r] = DOMAIN Rest, NEW n,
           run' = [run EXCEPT ![r] = Counted(Forget(run[r]), n)]
    PROVE  /\ \A c \in Counter : run'[r][c] = run[r][c] + n[c]
           /\ \A q \in Runner : q # r => run'[q] = run[q]
           /\ run'[r].pc = "next"
<1>1. run'[r] = Counted(Forget(run[r]), n) /\ \A q \in Runner : q # r => run'[q] = run[q]
  OBVIOUS
<1>2. \A c \in Counter : Counted(Forget(run[r]), n)[c] = run[r][c] + n[c]
  BY DEF Counted, Forget, Rest, Counter
<1>3. Counted(Forget(run[r]), n).pc = "next"
  BY DEF Counted, Forget, Rest
<1>. QED BY <1>1, <1>2, <1>3

\* A transaction counts the roles it stores: what it inserts is new, and each
\* is matched or not.
LEMMA SaveCounts ==
    ASSUME Inv, NamesOK, CountsOK, NEW r \in Runner, Save(r)
    PROVE  CountsOK'
<1> DEFINE x == run[r]
           new == NewRoles(x)
<1>1. PICK who \in [new -> Person \cup {None}] : Stored(r, who, Counted(Forget(x), CountsOf(new, who)))
  BY DEF Save, Matchings
<1> DEFINE Row(e) == [raw |-> e.raw, co |-> e.co, type |-> e.type, person |-> who[e]]
           hit == {e \in new : who[e] # None}
           miss == {e \in new : who[e] = None}
           RowsFor(E) == {Row(e) : e \in E}
<1>2. x.pc = "save" /\ undone' = undone /\ DOMAIN x = DOMAIN Rest /\ DOMAIN run = Runner
  BY RunFacts DEF Save, At, Inv, RunsShaped
<1>3. IsFiniteSet(new) /\ IsFiniteSet(roles)
  BY <1>2, NewRolesFinite DEF NamesOK
<1>4. ASSUME NEW E \in SUBSET new
      PROVE  [e \in E |-> Row(e)] \in Bijection(E, RowsFor(E)) /\ roles \cap RowsFor(E) = {}
  <2>1. \A e, d \in E : Row(e) = Row(d) => e = d
    <3>1. SUFFICES ASSUME NEW e \in E, NEW d \in E, Row(e) = Row(d) PROVE e = d
      OBVIOUS
    <3>2. e.raw = d.raw /\ e.co = d.co /\ e.type = d.type
      BY <3>1
    <3>3. PICK p : e = [raw |-> p.name, co |-> IdOf(x), type |-> RoleType(p.role)]
      BY DEF NewRoles
    <3>4. PICK q : d = [raw |-> q.name, co |-> IdOf(x), type |-> RoleType(q.role)]
      BY DEF NewRoles
    <3>. QED BY <3>2, <3>3, <3>4
  <2>2. ASSUME NEW e \in E PROVE Row(e) \notin roles
    <3>1. Row(e).raw = e.raw /\ Row(e).co = e.co /\ Row(e).type = e.type
      OBVIOUS
    <3>2. ~\E t \in roles : t.raw = e.raw /\ t.co = e.co /\ t.type = e.type
      BY DEF NewRoles
    <3>. QED BY <3>1, <3>2
  <2>. HIDE DEF Row
  <2>. QED BY <2>1, <2>2 DEF Bijection, Injection, Surjection, IsInjective
<1>5. \A e \in new : Row(e).person = who[e]
  OBVIOUS
<1>6. /\ roles' = roles \cup RowsFor(new)
      /\ {s \in roles' : s.person # None} = {s \in roles : s.person # None} \cup RowsFor(hit)
      /\ {s \in roles' : s.person = None} = {s \in roles : s.person = None} \cup RowsFor(miss)
  <2>1. roles' = roles \cup RowsFor(new)
    BY <1>1 DEF Stored
  <2>2. hit \subseteq new /\ miss \subseteq new
        /\ \A e \in new : (e \in hit <=> who[e] # None) /\ (e \in miss <=> who[e] = None)
    OBVIOUS
  <2>. HIDE DEF Row, hit, miss, new
  <2>. QED BY <1>5, <2>1, <2>2
<1>7. new \in SUBSET new /\ hit \in SUBSET new /\ miss \in SUBSET new
  OBVIOUS
<1> HIDE DEF RowsFor, Row
<1>8. Cardinality(roles') = Cardinality(roles) + Cardinality(new) /\ Cardinality(new) \in Nat
  BY <1>3, <1>4, <1>6, <1>7, RolesAdd
<1>9. /\ IsFiniteSet(hit) /\ IsFiniteSet(miss)
      /\ IsFiniteSet({s \in roles : s.person # None}) /\ IsFiniteSet({s \in roles : s.person = None})
  BY <1>3, FS_Subset
<1>10. /\ Cardinality({s \in roles' : s.person # None})
            = Cardinality({s \in roles : s.person # None}) + Cardinality(hit)
       /\ Cardinality(hit) \in Nat
  <2> DEFINE R == {s \in roles : s.person # None}
  <2>1. R \cap RowsFor(hit) = {} /\ IsFiniteSet(R)
    BY <1>4, <1>7, <1>9
  <2>2. [e \in hit |-> Row(e)] \in Bijection(hit, RowsFor(hit))
    BY <1>4, <1>7
  <2>3. {s \in roles' : s.person # None} = R \cup RowsFor(hit)
    BY <1>6
  <2>. HIDE DEF R, hit
  <2>4. Cardinality(R \cup RowsFor(hit)) = Cardinality(R) + Cardinality(hit) /\ Cardinality(hit) \in Nat
    BY <1>9, <2>1, <2>2, RolesAdd
  <2>. QED BY <2>3, <2>4 DEF R
<1>11. /\ Cardinality({s \in roles' : s.person = None})
            = Cardinality({s \in roles : s.person = None}) + Cardinality(miss)
       /\ Cardinality(miss) \in Nat
  <2> DEFINE R == {s \in roles : s.person = None}
  <2>1. R \cap RowsFor(miss) = {} /\ IsFiniteSet(R)
    BY <1>4, <1>7, <1>9
  <2>2. [e \in miss |-> Row(e)] \in Bijection(miss, RowsFor(miss))
    BY <1>4, <1>7
  <2>3. {s \in roles' : s.person = None} = R \cup RowsFor(miss)
    BY <1>6
  <2>. HIDE DEF R, miss
  <2>4. Cardinality(R \cup RowsFor(miss)) = Cardinality(R) + Cardinality(miss) /\ Cardinality(miss) \in Nat
    BY <1>9, <2>1, <2>2, RolesAdd
  <2>. QED BY <2>3, <2>4 DEF R
<1> DEFINE n == CountsOf(new, who)
<1>12. /\ n.companies = 1 /\ n.inserted = Cardinality(new)
       /\ n.matched = Cardinality(hit) /\ n.unmatched = Cardinality(miss)
  BY DEF CountsOf
<1>13. run' = [run EXCEPT ![r] = Counted(Forget(run[r]), n)]
  BY <1>1 DEF Stored
<1>14. \A c \in Counter : n[c] \in Nat
  BY <1>3, CountsOfFinite
<1>15. Len(companies') + refound' = Len(companies) + refound + 1 /\ refound' \in Nat
  <2>1. companies \in Seq([name : Names, number : Numbers]) /\ refound \in Nat
    BY DEF Inv, RowsOK, CountsOK
  <2>2. CASE x.found # 0
    BY <1>1, <2>1, <2>2 DEF Stored
  <2>3. CASE x.found = 0
    <3>1. PICK row : companies' = Append(companies, row)
      BY <1>1, <2>3 DEF Stored
    <3>2. refound' = refound
      BY <1>1, <2>1, <2>3 DEF Stored
    <3>. QED BY <2>1, <3>1, <3>2
  <2>. QED BY <2>2, <2>3
<1>16. undone \in [Counter -> Nat] /\ companies \in Seq([name : Names, number : Numbers]) /\ refound \in Nat
  BY DEF CountsOK, Inv, RowsOK
<1>17. /\ Cardinality(roles) \in Nat /\ Cardinality({s \in roles : s.person # None}) \in Nat
       /\ Cardinality({s \in roles : s.person = None}) \in Nat
  BY <1>3, <1>9, FS_CardinalityType
<1> HIDE DEF n
<1>18. /\ Owed'.companies = Owed.companies + n.companies
       /\ Owed'.inserted = Owed.inserted + n.inserted
       /\ Owed'.matched = Owed.matched + n.matched
       /\ Owed'.unmatched = Owed.unmatched + n.unmatched
  <2>1. Len(companies) \in Nat /\ Len(companies') + refound' \in Nat
    BY <1>15, <1>16
  <2>2. undone.companies \in Nat /\ undone.inserted \in Nat /\ undone.matched \in Nat /\ undone.unmatched \in Nat
    BY <1>16 DEF Counter
  <2>3. Owed'.companies = Owed.companies + n.companies
    BY <1>2, <1>12, <1>15, <1>16, <2>1, <2>2 DEF Owed
  <2>4. Owed'.inserted = Owed.inserted + n.inserted
    BY <1>2, <1>8, <1>12, <1>17, <2>2 DEF Owed
  <2>5. Owed'.matched = Owed.matched + n.matched
    BY <1>2, <1>10, <1>12, <1>17, <2>2 DEF Owed
  <2>6. Owed'.unmatched = Owed.unmatched + n.unmatched
    BY <1>2, <1>11, <1>12, <1>17, <2>2 DEF Owed
  <2>. QED BY <2>3, <2>4, <2>5, <2>6
<1>19. \A c \in Counter : Owed'[c] = Owed[c] + n[c]
  BY <1>18 DEF Counter
<1>20. /\ \A c \in Counter : run'[r][c] = run[r][c] + n[c]
       /\ \A q \in Runner : q # r => run'[q] = run[q]
       /\ run'[r].pc = "next"
  BY <1>2, <1>13, CountedRun
<1>. QED BY <1>2, <1>14, <1>15, <1>16, <1>19, <1>20, CountsAdd

\* So does one that is rolled back, of roles it does not store.
LEMMA RollbackCounts ==
    ASSUME Inv, NamesOK, CountsOK, NEW r \in Runner, RolledBack(r)
    PROVE  CountsOK'
<1>1. PICK done \in SUBSET NewRoles(run[r]) : \E who :
        /\ run' = [run EXCEPT ![r] = Counted(Forget(run[r]), CountsOf(done, who))]
        /\ undone' = [c \in Counter |-> undone[c] + CountsOf(done, who)[c]]
  BY DEF RolledBack, Inv, RunsShaped
<1>1a. PICK who :
        /\ run' = [run EXCEPT ![r] = Counted(Forget(run[r]), CountsOf(done, who))]
        /\ undone' = [c \in Counter |-> undone[c] + CountsOf(done, who)[c]]
  BY <1>1
<1> DEFINE n == CountsOf(done, who)
<1>2. run[r].pc = "save" /\ DOMAIN run[r] = DOMAIN Rest /\ DOMAIN run = Runner
      /\ roles' = roles /\ companies' = companies /\ refound' = refound
  BY RunFacts DEF RolledBack, At, Inv, RunsShaped, tables
<1>3. IsFiniteSet(done)
  BY <1>1, <1>2, NewRolesFinite, FS_Subset
<1>4. \A c \in Counter : n[c] \in Nat
  BY <1>3, CountsOfFinite
<1>5. undone' = [c \in Counter |-> undone[c] + n[c]] /\ run' = [run EXCEPT ![r] = Counted(Forget(run[r]), n)]
  BY <1>1a
<1> HIDE DEF n
<1>6. refound \in Nat /\ undone \in [Counter -> Nat] /\ undone' \in [Counter -> Nat]
  BY <1>4, <1>5 DEF CountsOK
<1>7. /\ Cardinality(roles) \in Nat /\ Cardinality({s \in roles : s.person # None}) \in Nat
      /\ Cardinality({s \in roles : s.person = None}) \in Nat /\ Len(companies) \in Nat
  <2>1. IsFiniteSet(roles) /\ companies \in Seq([name : Names, number : Numbers])
    BY DEF NamesOK, Inv, RowsOK
  <2>2. {s \in roles : s.person # None} \in SUBSET roles /\ {s \in roles : s.person = None} \in SUBSET roles
    OBVIOUS
  <2>3. IsFiniteSet({s \in roles : s.person # None}) /\ IsFiniteSet({s \in roles : s.person = None})
    BY <2>1, <2>2, FS_Subset
  <2>. QED BY <2>1, <2>3, FS_CardinalityType
<1>8. \A c \in Counter : Owed'[c] = Owed[c] + n[c]
  <2>1. \A c \in Counter : undone[c] \in Nat /\ n[c] \in Nat /\ undone'[c] = undone[c] + n[c]
    BY <1>4, <1>5, <1>6
  <2> DEFINE length == Len(companies)
  <2>6. length' = length /\ length \in Nat
    BY <1>2, <1>7
  <2>7. Owed.companies = length + refound + undone.companies
        /\ Owed'.companies = length' + refound' + undone'.companies
    BY DEF Owed
  <2>8. "companies" \in Counter
    BY DEF Counter
  <2>9. undone.companies \in Nat /\ n.companies \in Nat /\ undone'.companies = undone.companies + n.companies
    BY <2>1, <2>8
  <2> HIDE DEF length
  <2>2. Owed'.companies = Owed.companies + n.companies
    BY <1>2, <1>6, <2>6, <2>7, <2>9
  <2>3. Owed'.inserted = Owed.inserted + n.inserted
    BY <1>2, <1>7, <2>1 DEF Owed, Counter
  <2>4. Owed'.matched = Owed.matched + n.matched
    BY <1>2, <1>7, <2>1 DEF Owed, Counter
  <2>5. Owed'.unmatched = Owed.unmatched + n.unmatched
    BY <1>2, <1>7, <2>1 DEF Owed, Counter
  <2>. QED BY <2>2, <2>3, <2>4, <2>5 DEF Counter
<1>9. /\ \A c \in Counter : run'[r][c] = run[r][c] + n[c]
      /\ \A q \in Runner : q # r => run'[q] = run[q]
      /\ run'[r].pc = "next"
  BY <1>2, <1>5, CountedRun
<1>. QED BY <1>2, <1>4, <1>6, <1>8, <1>9, CountsAdd

LEMMA CountsKeep == ASSUME Inv, NamesOK, CountsOK, [Next]_<<vars, rep>> PROVE CountsOK'
<1>1. DOMAIN run = Runner /\ \A q \in Runner : DOMAIN run[q] = DOMAIN Rest
  BY DEF Inv, RunsShaped
<1>2. CASE UNCHANGED vars
  BY <1>2, CountsSame DEF vars, tables, history
<1>3. ASSUME NEW p \in Person, Register(p) PROVE CountsOK'
  BY <1>3, CountsSame DEF Register, tables, history
<1>4. ASSUME NEW r \in Runner, RunStep(r) PROVE CountsOK'
  <2>1. CASE Start(r)
    <3>1. PICK seeds, pc : run' = [run EXCEPT ![r] = [Rest EXCEPT !.pc = pc, !.todo = seeds, !.snapshot = known]]
                           /\ pc \in {"next", "over"}
      BY <2>1 DEF Start
    <3>2. (\A c \in Counter : run'[r][c] = 0) /\ run'[r].pc # "off"
      BY <1>1, <3>1 DEF Rest, Counter
    <3>3. (\A c \in Counter : run[r][c] = 0) /\ roles' = roles /\ UNCHANGED <<companies, refound, undone>>
      BY <2>1 DEF Start, At, tables, history, CountsOK
    <3>4. \A q \in Runner \ {r} : run'[q] = run[q]
      BY <1>1, <3>1
    <3>. QED BY <3>2, <3>3, <3>4, CountsSame
  <2>2. CASE ~Start(r) /\ ~Save(r) /\ ~RolledBack(r)
    <3>1. roles' = roles /\ UNCHANGED <<companies, refound, undone>>
      BY <1>4, <2>2 DEF RunStep, tables, history, NextCompany, Over, Arrive, NextChamber, SearchFails, Pick,
         Fetch, LookUp, SaveFails
    <3>2. /\ \A q \in Runner : q # r => run'[q] = run[q]
          /\ run'[r].pc # "off" /\ Counts(run'[r]) = Counts(run[r])
      BY <1>4, <2>2, SnapshotsKeep
    <3>3. \A c \in Counter : run'[r][c] = run[r][c]
      BY <3>2 DEF Counts
    <3>. QED BY <3>1, <3>2, <3>3, CountsSame
  <2>. QED BY <2>1, <2>2, SaveCounts, RollbackCounts
<1>. QED BY <1>2, <1>3, <1>4 DEF Next, ScrapeStep, ScrapeNext, ReportStep, PickActors, ReadUnlisted,
       ReadAssociates, CountUnlisted, CountUnknown, vars

\* What the runs say they inserted, matched and left unmatched is what is stored,
\* for any number of overlapping runs, and what was rolled back or, of companies,
\* only found.
THEOREM CountsMatch == Spec => []CountsMatchRows
<1>1. XInit => CountsOK
  <2>1. SUFFICES ASSUME XInit PROVE CountsOK
    OBVIOUS
  <2>2. /\ roles = {} /\ run = [r \in Runner |-> Rest] /\ companies = <<>> /\ refound = 0
        /\ undone = [c \in Counter |-> 0]
    BY <2>1 DEF XInit, Init
  <2>3. \A r \in Runner : \A c \in Counter : run[r][c] = 0
    BY <2>2 DEF Rest, Counter
  <2>4. \A c \in Counter : Column(c) \in [Runner -> Nat] /\ \A r \in Runner : Column(c)[r] = 0
    BY <2>3 DEF Column
  <2>5. \A c \in Counter : Units(Column(c)) = {}
    BY <2>4 DEF Units
  <2>6. \A c \in Counter : IsFiniteSet(Units(Column(c))) /\ SumOf(Column(c)) = 0
    BY <2>5, FS_EmptySet DEF SumOf
  <2>7. {s \in roles : s.person # None} = {} /\ {s \in roles : s.person = None} = {} /\ Cardinality({}) = 0
    BY <2>2, FS_EmptySet
  <2>8. \A c \in Counter : Owed[c] = 0
    BY <2>2, <2>7 DEF Owed, Counter
  <2>. QED BY <2>2, <2>3, <2>4, <2>6, <2>8 DEF CountsOK
<1>2. Inv /\ NamesOK /\ CountsOK /\ [Next]_<<vars, rep>> => CountsOK'
  BY CountsKeep
<1>3. CountsOK => CountsMatchRows
  BY DEF CountsOK, CountsMatchRows, Total, Column, Owed, Counter
<1>. QED BY <1>1, <1>2, <1>3, Invariant, ReportInvariant, PTL DEF Spec

=============================================================================
