---------------------------- MODULE AuditedStore ----------------------------
(***************************************************************************)
(* What an audited ingest promises, with nothing of how it keeps it: a     *)
(* store of disclosures that only grows, and an audit row per scraper run  *)
(* that may say SUCCESS only when every disclosure the run promised to     *)
(* bring in is in the store, or was asked for and answered with nothing.   *)
(***************************************************************************)

CONSTANTS Run,      \* scraper runs (rows of scraper_runs)
          Disc      \* disclosures

VARIABLES stored,   \* the disclosures in the store
          promised, \* promised[r]: what run r set out to bring in
          unanswered, \* unanswered[r]: what it asked for and got nothing
          status    \* status[r]: the audit row of run r

abstractVars == <<stored, promised, unanswered, status>>

Closed == {"SUCCESS", "PARTIAL", "FAILED"}

AbstractTypeOK ==
    /\ stored \in SUBSET Disc
    /\ promised \in [Run -> SUBSET Disc]
    /\ unanswered \in [Run -> SUBSET Disc]
    /\ status \in [Run -> {"none", "RUNNING"} \cup Closed]

AbstractInit ==
    /\ stored = {}
    /\ promised = [r \in Run |-> {}]
    /\ unanswered = [r \in Run |-> {}]
    /\ status = [r \in Run |-> "none"]

Begin(r) ==
    /\ status[r] = "none"
    /\ status' = [status EXCEPT ![r] = "RUNNING"]
    /\ UNCHANGED <<stored, promised, unanswered>>

Promise(r) ==
    /\ status[r] = "RUNNING"
    /\ promised[r] = {}
    /\ \E S \in SUBSET Disc : promised' = [promised EXCEPT ![r] = S]
    /\ UNCHANGED <<stored, unanswered, status>>

Learn(d) ==
    /\ stored' = stored \cup {d}
    /\ UNCHANGED <<promised, unanswered, status>>

AskInVain(r) ==
    /\ status[r] = "RUNNING"
    /\ \E d \in promised[r] : unanswered' = [unanswered EXCEPT ![r] = @ \cup {d}]
    /\ UNCHANGED <<stored, promised, status>>

Close(r) ==
    /\ status[r] = "RUNNING"
    /\ \E s \in Closed :
          /\ s = "SUCCESS" => promised[r] \subseteq stored \cup unanswered[r]
          /\ status' = [status EXCEPT ![r] = s]
    /\ UNCHANGED <<stored, promised, unanswered>>

AbstractNext ==
    \/ \E r \in Run : Begin(r) \/ Promise(r) \/ AskInVain(r) \/ Close(r)
    \/ \E d \in Disc : Learn(d)

AbstractSpec == AbstractInit /\ [][AbstractNext]_abstractVars

\* A run that says SUCCESS has brought in everything it promised but what it
\* got no answer about, and the store keeps it.
SuccessKeepsItsPromise ==
    \A r \in Run : status[r] = "SUCCESS" => promised[r] \subseteq stored \cup unanswered[r]

=============================================================================
