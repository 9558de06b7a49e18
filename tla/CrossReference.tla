--------------------------- MODULE CrossReference ---------------------------
(***************************************************************************)
(* The report that joins the two worlds, built while seed runs may be      *)
(* storing: the actors are picked, each actor's unlisted companies and the *)
(* unmatched names beside them are read, and the totals of the tables.     *)
(* Every statement reads what is committed when it runs.                   *)
(***************************************************************************)
EXTENDS TsgScrape

CONSTANTS
    Top,     \* the persons the KAP tables rank as actors of high value
    Beside   \* bound: a report is read beside so many seed runs, at most

VARIABLES
    rep     \* the report: its step, the actors to come, the actor being read with the
            \* unlisted companies found, the footprints and the totals; and, a history,
            \* whether the roles are as they were when it was begun

NoReport == [pc |-> "idle", todo |-> {}, actor |-> None, cos |-> {}, prints |-> {},
             unlisted |-> 0, unknown |-> 0, still |-> TRUE]

XInit == Init /\ rep = NoReport

Linked == {s.person : s \in roles} \ {None}

\* The actors of high value, and those with an unlisted company.
PickActors ==
    /\ rep.pc = "idle"
    /\ rep' = [rep EXCEPT !.pc = "actors", !.todo = (Top \cap known) \cup Linked]
    /\ UNCHANGED vars

RolesOf(p) == {s \in roles : s.person = p}

\* get_actor_footprint, one statement each, without DISTINCT: a line for each role
\* of the actor,
ReadUnlisted ==
    /\ rep.pc = "actors" /\ rep.actor = None
    /\ \E p \in rep.todo :
        rep' = [rep EXCEPT !.todo = @ \ {p}, !.actor = p, !.cos = RolesOf(p)]
    /\ UNCHANGED vars

\* and one for each unmatched role beside each role that is the actor's by then.
ReadAssociates ==
    /\ rep.pc = "actors" /\ rep.actor # None
    /\ LET lines == {e \in RolesOf(rep.actor) \X RolesOf(None) : e[1].co = e[2].co}
       IN rep' = [rep EXCEPT !.actor = None, !.cos = {},
                             !.prints = @ \cup {[actor |-> rep.actor, cos |-> rep.cos, others |-> lines]}]
    /\ UNCHANGED vars

\* Mutant: the companies are told apart by their numbers, which not all have.
CountUnlistedByNumber ==
    /\ rep.pc = "actors" /\ rep.actor = None /\ rep.todo = {}
    /\ rep' = [rep EXCEPT !.pc = "totals",
                          !.unlisted = Cardinality({companies[s.co].number : s \in roles \ RolesOf(None)} \ {None})]
    /\ UNCHANGED vars

CountUnlisted ==
    /\ rep.pc = "actors" /\ rep.actor = None /\ rep.todo = {}
    /\ rep' = [rep EXCEPT !.pc = "totals",
                          !.unlisted = Cardinality({s.co : s \in roles \ RolesOf(None)})]
    /\ UNCHANGED vars

CountUnknown ==
    /\ rep.pc = "totals"
    /\ rep' = [rep EXCEPT !.pc = "built", !.unknown = Cardinality(RolesOf(None))]
    /\ UNCHANGED vars

ReportStep == PickActors \/ ReadUnlisted \/ ReadAssociates \/ CountUnlisted \/ CountUnknown

ScrapeStep == ScrapeNext /\ rep' = [rep EXCEPT !.still = (rep.pc = "idle" \/ (@ /\ roles' = roles))]

Begun == {r \in Runner : run[r].pc # "off"}

Next ==
    \/ ScrapeStep /\ (rep.pc # "idle" => Cardinality(Begun') <= Beside)
    \/ Cardinality(Begun) <= Beside /\ ReportStep

Spec == XInit /\ [][Next]_<<vars, rep>>

-----------------------------------------------------------------------------
(* Properties *)

CompaniesIn(prints) == {s.co : s \in UNION {f.cos : f \in prints}}
UnknownIn(prints) == {e[2] : e \in UNION {f.others : f \in prints}}

\* The totals, read last, are never below the companies and the unmatched roles that
\* the footprints above them list, each counted once although an actor with two roles
\* in a company lists it and all beside him twice; and of companies the total is just
\* those listed, if nothing was stored in between ("avoids double-counting shared
\* companies").
TotalsCoverActors ==
    rep.pc = "built" =>
        /\ Cardinality(CompaniesIn(rep.prints)) <= rep.unlisted
        /\ Cardinality(UnknownIn(rep.prints)) <= rep.unknown
        /\ rep.still => Cardinality(CompaniesIn(rep.prints)) = rep.unlisted

\* A person known from the start is never listed among the unknown associates
\* beside himself, by another spelling of his name.
NotOwnAssociate ==
    \A f \in rep.prints : f.actor \in Known0 =>
        \A e \in f.others : Alike[e[2].raw][f.actor] < MatchThreshold

=============================================================================
