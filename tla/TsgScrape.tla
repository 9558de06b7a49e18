----------------------------- MODULE TsgScrape -----------------------------
(***************************************************************************)
(* The seed runs of the trade registry gazette scraper: an operator logs   *)
(* in once, then each company name of the run is searched in a browser     *)
(* page, chamber by chamber, the best notice is fetched and read, and the  *)
(* company with its officers is stored.  Runs are started by hand and may  *)
(* overlap.                                                                *)
(*                                                                         *)
(* The registry is given: which notices each search would find, which      *)
(* companies' blocks stand on the page of a notice, and how alike names    *)
(* are.  A company's name also stands for its registry number.             *)
(***************************************************************************)
EXTENDS Integers, Sequences, FiniteSets, Sums

CONSTANTS
    Runner,     \* the seed runs, which may overlap,
    Actors,     \* actor_seeds.yaml: the company names listed for each actor,
    TooShort,   \* and the names among them below five characters
    Chambers,   \* how many chambers a search asks in turn
    Answer,     \* Answer[seed][chamber]: the notices found there
    Block,      \* Block[page]: [company, persons] for each company on a page
    Score,      \* Score[seed][company]: how alike their names are, in percent
    Person,     \* persons the KAP side may know,
    Known0,     \* and does at the start
    Alike       \* Alike[name][person], in percent

None == "none"
BlockThreshold == 60
MatchThreshold == 80

Notices == UNION {Answer[s][c] : s \in DOMAIN Answer, c \in 1..Chambers}

ASSUME GivenAssumption ==
    /\ Chambers \in Nat \ {0}
    /\ Known0 \subseteq Person /\ None \notin Person
    /\ \A a \in DOMAIN Actors : Actors[a] \ TooShort \subseteq DOMAIN Answer
    /\ \A n \in Notices : n.page \in DOMAIN Block /\ n.of # None
    /\ \A page \in DOMAIN Block : \A b \in Block[page] :
        IsFiniteSet(b.persons) /\ \A p \in b.persons : \A q \in Person : Alike[p.name][q] \in Int

VARIABLES
    companies,  \* unlisted_companies: rows [name, number], by id
    roles,      \* person_unlisted_roles: [raw, co, type, person]
    known,      \* persons
    run,        \* the state of each run
    mixed,      \* history: rows stored from one company's notice, another's block
    refound,    \* history: how often a company was counted that was only found,
    undone      \* and what transactions had counted that were rolled back

tables == <<companies, roles>>
history == <<mixed, refound, undone>>
vars == <<companies, roles, known, run, history>>

Counter == {"companies", "inserted", "matched", "unmatched"}

\* A run at rest: it has nothing to do, no page and no notice.
Rest ==
    [pc |-> "off", todo |-> {}, seed |-> None, snapshot |-> {}, chamber |-> 0,
     flight |-> {}, div |-> {}, rows |-> {}, notice |-> None,
     record |-> None, found |-> 0,
     companies |-> 0, inserted |-> 0, matched |-> 0, unmatched |-> 0]

Init ==
    /\ companies = <<>> /\ roles = {} /\ known = Known0
    /\ run = [r \in Runner |-> Rest]
    /\ mixed = {} /\ refound = 0 /\ undone = [c \in Counter |-> 0]

At(r, pc) == run[r].pc = pc

\* Mutant: the page of the last search is used again.
ForgetKeepingPage(x) ==
    [x EXCEPT !.pc = "next", !.seed = None, !.chamber = 0, !.rows = {},
              !.notice = None, !.record = None, !.found = 0]

\* The company is done with, well or not.  The page is loaded anew before the next
\* search, which drops what the page held or still waited for.
Forget(x) ==
    [x EXCEPT !.pc = "next", !.seed = None, !.chamber = 0, !.rows = {},
              !.notice = None, !.record = None, !.found = 0, !.flight = {}, !.div = {}]

-----------------------------------------------------------------------------
(* The run *)

\* validate_actor_seeds: the names long enough to search for.
Valid(a) == Actors[a] \ TooShort

\* The persons are loaded, then the operator logs in; if he does not in time, the
\* run is over.
Start(r) ==
    /\ At(r, "off")
    /\ \E seeds \in {Valid(a) : a \in DOMAIN Actors} \cup {UNION {Valid(a) : a \in DOMAIN Actors}},
          pc \in {"next", "over"} :
        /\ seeds # {}
        /\ run' = [run EXCEPT ![r] = [Rest EXCEPT !.pc = pc, !.todo = seeds, !.snapshot = known]]
    /\ UNCHANGED <<tables, known, history>>

\* The page is loaded, and the first chamber asked.
NextCompany(r) ==
    /\ At(r, "next") /\ run[r].todo # {}
    /\ \E s \in run[r].todo :
        run' = [run EXCEPT ![r].pc = "search", ![r].seed = s, ![r].todo = @ \ {s},
                           ![r].chamber = 1, ![r].flight = @ \cup {<<s, 1>>}]
    /\ UNCHANGED <<tables, known, history>>

Over(r) ==
    /\ At(r, "next") /\ run[r].todo = {}
    /\ run' = [run EXCEPT ![r].pc = "over"]
    /\ UNCHANGED <<tables, known, history>>

\* The browser or the page fails in a search: the error is logged, the company
\* skipped.
SearchFails(r) ==
    /\ At(r, "search")
    /\ run' = [run EXCEPT ![r] = Forget(@)]
    /\ UNCHANGED <<tables, known, history>>

-----------------------------------------------------------------------------
(* search_company: the answer of each chamber is put into one element of the *)
(* page whenever it arrives                                                  *)

\* An answer arrives, in place of what the element held.
Arrive(r) ==
    /\ At(r, "search")
    /\ \E f \in run[r].flight :
        run' = [run EXCEPT ![r].flight = @ \ {f}, ![r].div = {Answer[f[1]][f[2]]}]
    /\ UNCHANGED <<tables, known, history>>

\* The element is read and the next chamber asked; after the last the search is done.
AfterRead(x) ==
    LET read == [x EXCEPT !.rows = @ \cup UNION x.div]
    IN IF x.chamber = Chambers THEN [read EXCEPT !.pc = "pick"]
       ELSE [read EXCEPT !.chamber = @ + 1, !.flight = @ \cup {<<x.seed, x.chamber + 1>>}]

\* Something is there to read, or fifteen seconds have passed; the element is
\* emptied.  An answer that comes between these calls is read, lost or left for
\* the next chamber, as if it came before, never or after.
NextChamber(r) ==
    /\ At(r, "search")
    /\ run' = [run EXCEPT ![r] = [AfterRead(@) EXCEPT !.div = {}]]
    /\ UNCHANGED <<tables, known, history>>

-----------------------------------------------------------------------------
(* scrape_company: the notice and its page *)

\* _pick_notice: the latest of the notices about management, or of all if none is.
Candidates(rows) == IF \E n \in rows : n.mgmt THEN {n \in rows : n.mgmt} ELSE rows
Latest(rows) == {n \in rows : \A m \in rows : m.date <= n.date}

Pick(r) ==
    /\ At(r, "pick")
    /\ IF run[r].rows = {} THEN run' = [run EXCEPT ![r] = Forget(@)]
       ELSE \E n \in Latest(Candidates(run[r].rows)) :
                run' = [run EXCEPT ![r].pc = "fetch", ![r].notice = n, ![r].rows = {},
                                   ![r].flight = {}, ![r].div = {}]
    /\ UNCHANGED <<tables, known, history>>

\* parse_gazette_ocr: the block whose company is most like the name sought.
BestBlocks(page, seed) ==
    {b \in Block[page] : /\ Score[seed][b.company] >= BlockThreshold
                         /\ \A o \in Block[page] : Score[seed][o.company] <= Score[seed][b.company]}

\* The page is fetched and read; nothing may come of it.
Fetch(r) ==
    /\ At(r, "fetch")
    /\ \/ run' = [run EXCEPT ![r] = Forget(@)]
       \/ \E b \in BestBlocks(run[r].notice.page, run[r].seed) :
            run' = [run EXCEPT ![r].pc = "look", ![r].record = b]
    /\ UNCHANGED <<tables, known, history>>

-----------------------------------------------------------------------------
(* _upsert_company, _upsert_role: one transaction *)

NumberOf(notice) == IF notice.numbered THEN notice.of ELSE None

\* Mutant: no number is a number like any other.
MatchingRowsByNull(notice, name) == {i \in DOMAIN companies : companies[i].number = NumberOf(notice)}

\* The rows with the notice's number; without one, with the company's name.
MatchingRows(notice, name) ==
    {i \in DOMAIN companies : IF notice.numbered THEN companies[i].number = notice.of
                              ELSE companies[i].name = name}

\* A second row is an error (scalar_one_or_none), and the company is skipped.
LookUp(r) ==
    /\ At(r, "look")
    /\ LET rows == MatchingRows(run[r].notice, run[r].record.company)
       IN IF Cardinality(rows) > 1 THEN run' = [run EXCEPT ![r] = Forget(@)]
          ELSE run' = [run EXCEPT ![r].pc = "save",
                                  ![r].found = IF rows = {} THEN 0 ELSE CHOOSE i \in rows : TRUE]
    /\ UNCHANGED <<tables, known, history>>

\* _infer_tsg_role_type, of the words a role is told by.
RoleType(words) ==
    IF "yonetim kurulu" \in words THEN "BOARD"
    ELSE IF "denet" \in words THEN "AUDITOR"
    ELSE IF words \cap {"temsil", "mudur", "imza"} # {} THEN "EXEC"
    ELSE "FOUNDER"

\* Mutant: only a name spelt alike matches.
MatchesExactly(name, persons) ==
    IF \E p \in persons : Alike[name][p] = 100 THEN {p \in persons : Alike[name][p] = 100} ELSE {None}

\* match_person_name: the person most like the name, of those alike enough.
Matches(name, persons) ==
    LET near == {p \in persons : Alike[name][p] >= MatchThreshold}
    IN IF near = {} THEN {None}
       ELSE {p \in near : \A q \in near : Alike[name][q] <= Alike[name][p]}

\* Where the run's company is, or goes.
IdOf(x) == IF x.found = 0 THEN Len(companies) + 1 ELSE x.found

\* The roles of the block that are not stored, each with a match.
NewRoles(x) ==
    {e \in {[raw |-> p.name, co |-> IdOf(x), type |-> RoleType(p.role)] : p \in x.record.persons} :
        ~\E s \in roles : s.raw = e.raw /\ s.co = e.co /\ s.type = e.type}

\* uq_unlisted_sicil: an overlapping run has stored the number since.
NumberTaken(x) ==
    x.found = 0 /\ x.notice.numbered /\ \E i \in DOMAIN companies : companies[i].number = x.notice.of

\* What a transaction counts once it has its company, of the roles it inserts.
CountsOf(new, who) ==
    [companies |-> 1, inserted |-> Cardinality(new),
     matched |-> Cardinality({e \in new : who[e] # None}),
     unmatched |-> Cardinality({e \in new : who[e] = None})]

\* The counters are the run's; the transaction does not take them back.
Counted(x, n) ==
    [x EXCEPT !.companies = @ + n.companies, !.inserted = @ + n.inserted,
              !.matched = @ + n.matched, !.unmatched = @ + n.unmatched]

\* A match for each role.
Matchings(new, persons) ==
    {who \in [new -> Person \cup {None}] : \A e \in new : who[e] \in Matches(e.raw, persons)}

\* The company and its roles are stored, and run r goes on with y.
Stored(r, who, y) ==
    LET x == run[r]
        rows == {[raw |-> e.raw, co |-> e.co, type |-> e.type, person |-> who[e]] : e \in NewRoles(x)}
    IN /\ companies' = IF x.found # 0 THEN companies
                       ELSE Append(companies, [name |-> x.record.company, number |-> NumberOf(x.notice)])
       /\ roles' = roles \cup rows
       /\ mixed' = mixed \cup (IF NumberOf(x.notice) \in {None, x.record.company} THEN {} ELSE {IdOf(x)})
       /\ refound' = refound + (IF x.found # 0 THEN 1 ELSE 0)
       /\ run' = [run EXCEPT ![r] = y]

\* Mutant: a role stored before counts as well.
SaveCountingAll(r) ==
    /\ At(r, "save") /\ ~NumberTaken(run[r])
    /\ \E who \in Matchings(NewRoles(run[r]), run[r].snapshot) :
        Stored(r, who, [Counted(Forget(run[r]), CountsOf(NewRoles(run[r]), who)) EXCEPT
                            !.inserted = run[r].inserted + Cardinality(run[r].record.persons)])
    /\ UNCHANGED <<known, undone>>

Save(r) ==
    /\ At(r, "save") /\ ~NumberTaken(run[r])
    /\ \E who \in Matchings(NewRoles(run[r]), run[r].snapshot) :
        Stored(r, who, Counted(Forget(run[r]), CountsOf(NewRoles(run[r]), who)))
    /\ UNCHANGED <<known, undone>>

\* The transaction fails before it counts: it has no company, for an overlapping
\* run has stored the number since, or the connection is lost.
SaveFails(r) ==
    /\ At(r, "save")
    /\ run' = [run EXCEPT ![r] = Forget(@)]
    /\ UNCHANGED <<tables, known, history>>

\* The connection is lost behind the company and some of its roles: they are
\* rolled back, the counters keep what they counted.  Bound: that happens once.
RolledBack(r) ==
    /\ At(r, "save") /\ ~NumberTaken(run[r])
    /\ undone.companies = 0
    /\ \E done \in SUBSET NewRoles(run[r]) : \E who \in Matchings(done, run[r].snapshot) :
        LET n == CountsOf(done, who)
        IN /\ run' = [run EXCEPT ![r] = Counted(Forget(@), n)]
           /\ undone' = [c \in Counter |-> undone[c] + n[c]]
    /\ UNCHANGED <<tables, known, mixed, refound>>

-----------------------------------------------------------------------------

\* The KAP scrapers add a person.
Register(p) ==
    /\ p \notin known
    /\ known' = known \cup {p}
    /\ UNCHANGED <<tables, run, history>>

RunStep(r) ==
    \/ Start(r) \/ NextCompany(r) \/ Over(r) \/ Arrive(r) \/ NextChamber(r) \/ SearchFails(r)
    \/ Pick(r) \/ Fetch(r) \/ LookUp(r) \/ Save(r) \/ SaveFails(r) \/ RolledBack(r)

ScrapeNext == (\E r \in Runner : RunStep(r)) \/ \E p \in Person : Register(p)

-----------------------------------------------------------------------------
(* Properties *)

Names == {b.company : b \in UNION {Block[page] : page \in DOMAIN Block}}
Numbers == {n.of : n \in Notices} \cup {None}

\* Every variable has its type, and a run knows its notice, its block and its row
\* from the step that found them.
TypeOK ==
    /\ companies \in Seq([name : Names, number : Numbers])
    /\ \A s \in roles : s.co \in DOMAIN companies
    /\ DOMAIN run = Runner
    /\ \A r \in Runner :
        /\ DOMAIN run[r] = DOMAIN Rest
        /\ run[r].todo \subseteq DOMAIN Answer
        /\ run[r].pc = "search" => run[r].seed \in DOMAIN Answer /\ run[r].chamber \in 1..Chambers
        /\ run[r].pc \in {"fetch", "look", "save"} => run[r].notice \in Notices
        /\ run[r].pc \in {"look", "save"} => run[r].record \in Block[run[r].notice.page]
        /\ run[r].found \in {0} \cup DOMAIN companies

\* "This prevents attributing another company's directors to the target": a role
\* belongs to the company its row names, unless the row was once stored or found
\* by another company's notice whose page holds both.
RolesOfTheirCompany ==
    \A s \in roles : s.co \in mixed \/
        \E page \in DOMAIN Block : \E b \in Block[page] :
            /\ b.company = companies[s.co].name
            /\ \E p \in b.persons : p.name = s.raw /\ RoleType(p.role) = s.type

Total(c) == SumOf([r \in Runner |-> run[r][c]])

\* What the runs say they inserted is what is stored, each role counted once and as
\* matched or not, however they overlap; but what a transaction counted that was
\* rolled back stays counted, and a company counts as inserted each time it is found
\* (scrape_company counts within the transaction, run_seed goes on).
CountsMatchRows ==
    /\ Total("companies") = Len(companies) + refound + undone.companies
    /\ Total("inserted") = Cardinality(roles) + undone.inserted
    /\ Total("matched") = Cardinality({s \in roles : s.person # None}) + undone.matched
    /\ Total("unmatched") = Cardinality({s \in roles : s.person = None}) + undone.unmatched

\* An answer that comes too late never ends up in another company's search.
NoForeignRows ==
    \A r \in Runner : run[r].seed # None =>
        run[r].rows \subseteq UNION {Answer[run[r].seed][c] : c \in 1..Chambers}

=============================================================================
