-------------------------- MODULE KapIngestProofs ---------------------------
(***************************************************************************)
(* Proofs about KapIngest, for any number of overlapping runs, any set of  *)
(* disclosures and any number of corrections: type correctness, SUCCESS    *)
(* means stored or answered with a blank, what the audit rows count, where *)
(* the evidence is, and the refinement of AuditedStore.                    *)
(*                                                                         *)
(* SuccessMeansStored is not inductive: a run closes with SUCCESS because  *)
(* of what its sweeps did long before.  The inductive invariant follows    *)
(* every listed disclosure of a run past its snapshot: it is stored, or    *)
(* waiting in the current sweep, deferred, in flight or blank.  That rests *)
(* on the snapshot being sound (what was stored stays stored) and on       *)
(* every version in flight being a published one.                          *)
(***************************************************************************)
EXTENDS KapIngest, FiniteSetTheorems, TLAPS

\* Where the audit row stands for each place of the run.
Phases ==
    \A r \in Run :
        /\ pc[r] = "idle" <=> status[r] = "none"
        /\ pc[r] \in {"listing", "snapshot", "loop", "pdf", "store"} => status[r] = "RUNNING"
        /\ pc[r] = "dead" => status[r] = "RUNNING"

\* Nothing is listed before the list is fetched, nothing swept before the
\* snapshot; what is listed was published.
ListOK ==
    \A r \in Run :
        /\ pc[r] \in {"idle", "listing"} => Listed(r) = {}
        /\ \A d \in Disc : listed[r][d] <= kap[d]
        /\ todo[r] \subseteq Listed(r)
        /\ deferred[r] \subseteq Listed(r)
        /\ pc[r] \in {"pdf", "store"} => cur[r] \in Listed(r)

\* The snapshot only names stored disclosures.
KnownOK == \A r \in Run : known[r] \subseteq Stored

InFlight(r) == IF pc[r] \in {"pdf", "store"} THEN {cur[r]} ELSE {}

\* Where each listed disclosure of a sweeping run is.
SweepOK ==
    \A r \in Run :
        /\ pc[r] \in {"loop", "pdf", "store"} =>
              Listed(r) \subseteq Stored \cup blank[r] \cup todo[r] \cup deferred[r] \cup InFlight(r)
        /\ status[r] = "SUCCESS" => Listed(r) \subseteq Stored \cup blank[r]

\* The repair only reads files that exist.
RepairOK ==
    /\ repair.pc \in {"commit", "unlink"} =>
          repair.cur \in Disc /\ repair.got \in Version /\ repair.cur \notin repair.todo
    /\ \A d \in repair.todo : file[d] \in Version

IInv == TypeOK /\ Phases /\ ListOK /\ KnownOK /\ SweepOK /\ RepairOK

USE DEF worldVars, storeVars, loopVars, flightVars, runVars, repairVars

-----------------------------------------------------------------------------
(* Operators *)

LEMMA VersionFacts == Version \subseteq 0..MaxVer /\ Version \subseteq Nat /\ 0 \notin Version
BY BoundAssumption DEF Version

\* The parser reads a finite set of known trades, whatever its generation.
LEMMA ParseType ==
    ASSUME NEW d \in Disc, NEW v \in Version, NEW better \in BOOLEAN
    PROVE  Parse(<<d, v>>, better) \in SUBSET Key /\ IsFiniteSet(Parse(<<d, v>>, better))
BY TradesAssumption, FS_EmptySet DEF Parse, Filing

\* Nothing is parsed of a blank detail.
LEMMA ParsedType ==
    ASSUME TypeOK, NEW r \in Run, cur[r] \in Disc
    PROVE  Parsed(r) \in SUBSET Key /\ IsFiniteSet(Parsed(r))
<1>1. CASE got[r] = 0
  BY <1>1, FS_EmptySet DEF Parsed
<1>2. CASE got[r] # 0
  <2>1. got[r] \in Version
    BY <1>2, BoundAssumption DEF TypeOK, RunTypeOK, Version
  <2>. QED BY <1>2, <2>1, ParseType DEF TypeOK, RunTypeOK, Parsed
<1>. QED BY <1>1, <1>2

LEMMA NewTradesType ==
    ASSUME NEW d, NEW keys, IsFiniteSet(keys)
    PROVE  NewTrades(d, keys) \in Nat
<1>1. IsFiniteSet({d} \X keys)
  BY FS_Singleton, FS_Product
<1>2. IsFiniteSet(({d} \X keys) \ txs)
  BY <1>1, FS_Difference
<1>. QED BY <1>2, FS_CardinalityType DEF NewTrades

LEMMA InitTypeOK == Init => TypeOK
<1> SUFFICES ASSUME Init PROVE TypeOK
  OBVIOUS
<1>1. 0 \in 0..MaxVer
  BY BoundAssumption
<1>2. WorldTypeOK /\ StoreTypeOK
  BY <1>1 DEF Init, WorldTypeOK, StoreTypeOK
<1>3. RunTypeOK
  BY <1>1 DEF Init, RunTypeOK, PC
<1>4. CountTypeOK
  BY DEF Init, CountTypeOK, ZeroCount
<1>5. RepairTypeOK
  BY <1>1 DEF Init, RepairTypeOK, IdleRepair
<1>6. FlightOK
  BY DEF Init, FlightOK
<1>. QED BY <1>2, <1>3, <1>4, <1>5, <1>6 DEF TypeOK

LEMMA InitIInv == Init => IInv
<1> SUFFICES ASSUME Init PROVE IInv
  OBVIOUS
<1>1. TypeOK
  BY InitTypeOK
<1>2. Phases /\ ListOK /\ KnownOK /\ SweepOK /\ RepairOK
  BY DEF Init, Phases, ListOK, KnownOK, SweepOK, RepairOK, Listed, Stored, IdleRepair
<1>. QED BY <1>1, <1>2 DEF IInv

-----------------------------------------------------------------------------
(* Type correctness, one lemma per group of actions *)

LEMMA WorldTypes == ASSUME TypeOK, World PROVE TypeOK'
<1>1. CASE DeployParser
  BY <1>1 DEF DeployParser, TypeOK, WorldTypeOK, StoreTypeOK, RunTypeOK, CountTypeOK,
    RepairTypeOK, FlightOK
<1>2. ASSUME NEW d \in Disc, Publish(d) PROVE TypeOK'
  <2>1. WorldTypeOK'
    BY <1>2, BoundAssumption DEF Publish, TypeOK, WorldTypeOK
  <2>. QED BY <1>2, <2>1 DEF Publish, TypeOK, StoreTypeOK, RunTypeOK, CountTypeOK, RepairTypeOK, FlightOK
<1>. QED BY <1>1, <1>2 DEF World

\* Starting, listing, snapshot, cooldown and the two ways to close a run.
LEMMA PhaseTypes ==
    ASSUME TypeOK, NEW r \in Run,
           Start(r) \/ FetchList(r) \/ Snapshot(r) \/ Fail(r) \/ Cooldown(r) \/ Finish(r)
    PROVE  TypeOK'
<1>1. UNCHANGED <<kap, improved, row, txs, emptyId, file, cut, count, cur, got, blank, repair, repaired>>
  BY DEF Start, FetchList, Snapshot, Fail, Cooldown, Finish
<1>2. RunTypeOK'
  <2>1. CASE Start(r)
    BY <2>1 DEF Start, TypeOK, WorldTypeOK, RunTypeOK, PC
  <2>2. CASE FetchList(r)
    BY <2>2 DEF FetchList, TypeOK, WorldTypeOK, RunTypeOK, PC
  <2>3. CASE Snapshot(r)
    BY <2>3 DEF Snapshot, TypeOK, RunTypeOK, PC, Listed
  <2>4. CASE Fail(r)
    BY <2>4 DEF Fail, TypeOK, RunTypeOK, PC
  <2>5. CASE Cooldown(r)
    BY <2>5 DEF Cooldown, TypeOK, RunTypeOK
  <2>6. CASE Finish(r)
    BY <2>6 DEF Finish, TypeOK, RunTypeOK, PC
  <2>. QED BY <2>1, <2>2, <2>3, <2>4, <2>5, <2>6
<1>3. FlightOK'
  BY <1>1 DEF Start, FetchList, Snapshot, Fail, Cooldown, Finish, TypeOK, RunTypeOK, FlightOK
<1>. QED BY <1>1, <1>2, <1>3 DEF TypeOK, WorldTypeOK, StoreTypeOK, CountTypeOK, RepairTypeOK

\* Skipping, fetching and deferring a disclosure of the sweep.  A detail
\* fetched has a version, because what is listed has been published.
LEMMA SweepTypes ==
    ASSUME TypeOK, ListOK, NEW r \in Run, NEW d \in Disc,
           Skip(r, d) \/ FetchDetail(r, d) \/ FetchBlank(r, d) \/ DeferDetail(r, d)
    PROVE  TypeOK'
<1>1. UNCHANGED <<kap, improved, row, txs, emptyId, file, cut, status, parser, listed, known, retried,
                  repair, repaired>>
  BY DEF Skip, FetchDetail, FetchBlank, DeferDetail
<1>2. RunTypeOK'
  <2>1. CASE Skip(r, d)
    BY <2>1 DEF Skip, TypeOK, RunTypeOK
  <2>2. CASE FetchDetail(r, d)
    BY <2>2 DEF FetchDetail, TypeOK, WorldTypeOK, RunTypeOK, PC
  <2>3. CASE DeferDetail(r, d)
    BY <2>3 DEF DeferDetail, TypeOK, RunTypeOK
  <2>4. CASE FetchBlank(r, d)
    BY <2>4 DEF FetchBlank, TypeOK, RunTypeOK, PC
  <2>. QED BY <2>1, <2>2, <2>3, <2>4
<1>3. CountTypeOK'
  BY DEF Skip, FetchDetail, FetchBlank, DeferDetail, TypeOK, CountTypeOK
<1>4. FlightOK'
  <2>1. CASE Skip(r, d) \/ DeferDetail(r, d)
    BY <2>1 DEF Skip, DeferDetail, TypeOK, FlightOK
  <2>2. CASE FetchDetail(r, d)
    <3>1. kap[d] \in Version
      BY <2>2, BoundAssumption DEF FetchDetail, TypeOK, WorldTypeOK, RunTypeOK, ListOK, Listed, Version
    <3>. QED BY <2>2, <3>1, VersionFacts DEF FetchDetail, TypeOK, RunTypeOK, FlightOK
  <2>3. CASE FetchBlank(r, d)
    BY <2>3 DEF FetchBlank, TypeOK, RunTypeOK, FlightOK
  <2>. QED BY <2>1, <2>2, <2>3
<1>. QED BY <1>1, <1>2, <1>3, <1>4 DEF TypeOK, WorldTypeOK, StoreTypeOK, RepairTypeOK

LEMMA CommitTypes ==
    ASSUME TypeOK, NEW r \in Run, pc[r] = "store", CommitFiling(r)
    PROVE  StoreTypeOK'
<1>1. cur[r] \in Disc /\ got[r] \in 0..MaxVer
  BY DEF TypeOK, RunTypeOK, FlightOK
<1>2. Parsed(r) \in SUBSET Key
  BY <1>1, ParsedType
<1>. QED BY <1>1, <1>2 DEF CommitFiling, TypeOK, StoreTypeOK

\* A file written, whole or cut off.
LEMMA WriteTypes ==
    ASSUME TypeOK, NEW r \in Run, pc[r] = "pdf", WriteWhole(r) \/ WriteCut(r)
    PROVE  StoreTypeOK'
<1>1. PICK d \in Disc : d = cur[r]
  BY DEF TypeOK, FlightOK
<1>2. PICK v \in 0..MaxVer : v = got[r] /\ v # 0
  BY DEF TypeOK, RunTypeOK, FlightOK
<1>3. file' = [file EXCEPT ![d] = v] /\ cut' \subseteq cut \cup {d} /\ UNCHANGED <<row, txs, emptyId>>
  BY <1>1, <1>2 DEF WriteWhole, WriteCut
<1>. QED BY <1>2, <1>3 DEF TypeOK, StoreTypeOK

\* What follows a fetched detail: the PDF, the commit, and every failure.
LEMMA FlightTypes ==
    ASSUME TypeOK, NEW r \in Run,
           FetchPdf(r) \/ Store(r) \/ DeferFlight(r) \/ DeferQuarantine(r) \/ DeferCommitted(r)
    PROVE  TypeOK'
<1>1. UNCHANGED <<kap, improved, status, parser, listed, known, todo, retried, blank, repair, repaired>>
  BY DEF FetchPdf, Store, DeferFlight, DeferQuarantine, DeferCommitted, DeferCurrent
<1>2. pc[r] \in {"pdf", "store"} /\ cur[r] \in Disc /\ got[r] \in 0..MaxVer
  BY DEF FetchPdf, Store, DeferFlight, DeferQuarantine, DeferCommitted, TypeOK, RunTypeOK, FlightOK
<1>3. RunTypeOK'
  <2>1. CASE FetchPdf(r)
    BY <1>1, <2>1 DEF FetchPdf, TypeOK, RunTypeOK, PC
  <2>2. CASE Store(r)
    BY <1>1, <2>2, BoundAssumption DEF Store, Land, TypeOK, RunTypeOK, PC
  <2>3. CASE DeferFlight(r) \/ DeferQuarantine(r) \/ DeferCommitted(r)
    <3>1. /\ deferred' = [deferred EXCEPT ![r] = @ \cup {cur[r]}]
          /\ Land(r)
      BY <2>3 DEF DeferFlight, DeferQuarantine, DeferCommitted, DeferCurrent
    <3>2. pc' \in [Run -> PC] /\ cur' \in [Run -> Disc \cup {NoDisc}] /\ got' \in [Run -> 0..MaxVer]
      BY <3>1, BoundAssumption DEF Land, TypeOK, RunTypeOK, PC
    <3>3. deferred' \in [Run -> SUBSET Disc]
      BY <1>2, <3>1 DEF TypeOK, RunTypeOK
    <3>. QED BY <1>1, <3>2, <3>3 DEF TypeOK, RunTypeOK
  <2>. QED BY <2>1, <2>2, <2>3
<1>4. CountTypeOK'
  <2>1. CASE FetchPdf(r)
    BY <2>1 DEF FetchPdf, TypeOK, CountTypeOK
  <2>2. CASE Store(r)
    <3>1. NewTrades(cur[r], Parsed(r)) \in Nat
      BY <1>2, ParsedType, NewTradesType
    <3> DEFINE i == count[r].inserted + NewTrades(cur[r], Parsed(r)) + IF Created(r) THEN 1 ELSE 0
               u == count[r].updated + IF Created(r) THEN 0 ELSE 1
    <3>2. count' = [count EXCEPT ![r].inserted = i, ![r].updated = u]
      BY <2>2 DEF Store, TypeOK, CountTypeOK
    <3>3. i \in Nat /\ u \in Nat
      BY <3>1 DEF TypeOK, CountTypeOK
    <3> HIDE DEF i, u
    <3> QED BY <3>2, <3>3 DEF TypeOK, CountTypeOK
  <2>3. CASE DeferFlight(r) \/ DeferQuarantine(r) \/ DeferCommitted(r)
    BY <2>3 DEF DeferFlight, DeferQuarantine, DeferCommitted, TypeOK, CountTypeOK
  <2>. QED BY <2>1, <2>2, <2>3
<1>5. StoreTypeOK'
  <2>1. CASE FetchPdf(r)
    BY <2>1, WriteTypes DEF FetchPdf, TypeOK, StoreTypeOK
  <2>2. CASE Store(r) \/ DeferCommitted(r)
    BY <2>2, CommitTypes DEF Store, DeferCommitted
  <2>3. CASE DeferFlight(r) \/ DeferQuarantine(r)
    BY <2>3, WriteTypes DEF DeferFlight, DeferQuarantine, TypeOK, StoreTypeOK
  <2>. QED BY <2>1, <2>2, <2>3
<1>6. FlightOK'
  <2>1. CASE FetchPdf(r)
    BY <1>2, <2>1 DEF FetchPdf, TypeOK, RunTypeOK, FlightOK
  <2>2. CASE Store(r) \/ DeferFlight(r) \/ DeferQuarantine(r) \/ DeferCommitted(r)
    BY <2>2 DEF Store, DeferFlight, DeferQuarantine, DeferCommitted, DeferCurrent, Land,
      TypeOK, RunTypeOK, FlightOK
  <2>. QED BY <2>1, <2>2
<1>. QED BY <1>1, <1>3, <1>4, <1>5, <1>6 DEF TypeOK, WorldTypeOK, RepairTypeOK

LEMMA AbandonTypes == ASSUME TypeOK, NEW r \in Run, Abandon(r) PROVE TypeOK'
<1>1. StoreTypeOK'
  BY CommitTypes, WriteTypes DEF Abandon, TypeOK, StoreTypeOK
<1>. QED BY <1>1 DEF Abandon, TypeOK, WorldTypeOK, RunTypeOK, CountTypeOK, RepairTypeOK, FlightOK, PC

LEMMA RepairTypes == ASSUME TypeOK, RepairOK, Repair PROVE TypeOK'
<1>1. CASE RepairStart \/ RepairStop
  <2>1. 0 \in 0..MaxVer /\ improved \in BOOLEAN
    BY BoundAssumption DEF TypeOK, WorldTypeOK
  <2>2. ASSUME RepairStart PROVE RepairTypeOK'
    BY <2>1, <2>2 DEF RepairStart, TypeOK, RepairTypeOK
  <2>3. ASSUME RepairStop PROVE RepairTypeOK'
    BY <2>1, <2>3 DEF RepairStop, IdleRepair, TypeOK, RepairTypeOK
  <2>4. RepairTypeOK'
    BY <1>1, <2>2, <2>3
  <2>. QED BY <1>1, <2>4 DEF RepairStart, RepairStop, TypeOK, WorldTypeOK, StoreTypeOK,
    RunTypeOK, CountTypeOK, FlightOK
<1>2. ASSUME NEW d \in Disc, RepairKeep(d) \/ RepairRead(d) PROVE TypeOK'
  <2>1. ASSUME RepairKeep(d) PROVE RepairTypeOK'
    BY <2>1 DEF RepairKeep, TypeOK, RepairTypeOK
  <2>2. ASSUME RepairRead(d) PROVE RepairTypeOK'
    <3>1. PICK v \in 0..MaxVer : v = file[d]
      BY DEF TypeOK, StoreTypeOK
    <3>2. repair' = [repair EXCEPT !.pc = "commit", !.todo = @ \ {d}, !.cur = d, !.got = v]
      BY <2>2, <3>1 DEF RepairRead
    <3>3. repaired' = repaired /\ repair.todo \ {d} \subseteq Disc
      BY <2>2 DEF RepairRead, TypeOK, RepairTypeOK
    <3>4. repair' = [pc |-> "commit", better |-> repair.better, todo |-> repair.todo \ {d},
                     cur |-> d, got |-> v]
      BY <3>2 DEF TypeOK, RepairTypeOK
    <3>. QED BY <3>3, <3>4 DEF TypeOK, RepairTypeOK
  <2>3. RepairTypeOK'
    BY <1>2, <2>1, <2>2
  <2>. QED BY <1>2, <2>3 DEF RepairKeep, RepairRead, TypeOK, WorldTypeOK, StoreTypeOK,
    RunTypeOK, CountTypeOK, FlightOK
<1>3. CASE RepairCommit
  <2> DEFINE keys == Parse(<<repair.cur, repair.got>>, repair.better)
  <2>1. repair.cur \in Disc /\ repair.got \in Version /\ repair.better \in BOOLEAN
    BY <1>3 DEF RepairCommit, RepairOK, TypeOK, RepairTypeOK
  <2>2. keys \in SUBSET Key /\ NewTrades(repair.cur, keys) \in Nat
    BY <2>1, ParseType, NewTradesType
  <2>3. StoreTypeOK' /\ RepairTypeOK'
    BY <1>3, <2>1, <2>2 DEF RepairCommit, TypeOK, StoreTypeOK, RepairTypeOK
  <2>. QED BY <1>3, <2>3 DEF RepairCommit, TypeOK, WorldTypeOK, RunTypeOK, CountTypeOK, FlightOK
<1>4. CASE RepairUnlink
  <2>1. 0 \in 0..MaxVer
    BY BoundAssumption
  <2>2. StoreTypeOK'
    BY <1>4, <2>1 DEF RepairUnlink, TypeOK, StoreTypeOK
  <2>3. RepairTypeOK'
    BY <1>4, <2>1 DEF RepairUnlink, TypeOK, RepairTypeOK
  <2>. QED BY <1>4, <2>2, <2>3 DEF RepairUnlink, TypeOK, WorldTypeOK, RunTypeOK, CountTypeOK, FlightOK
<1>. QED BY <1>1, <1>2, <1>3, <1>4 DEF Repair

LEMMA TypeKeeps == ASSUME TypeOK, ListOK, RepairOK, [Next]_vars PROVE TypeOK'
<1>1. CASE UNCHANGED vars
  BY <1>1 DEF vars, TypeOK, WorldTypeOK, StoreTypeOK, RunTypeOK, CountTypeOK, RepairTypeOK, FlightOK
<1>. QED BY <1>1, WorldTypes, PhaseTypes, SweepTypes, FlightTypes, AbandonTypes, RepairTypes DEF Next, RunStep
-----------------------------------------------------------------------------
(* The rest of the invariant *)

\* Only the ingest's commit adds a row, and it adds the disclosure in flight,
\* unless its detail was blank.
LEMMA CommitStores ==
    ASSUME TypeOK, NEW r \in Run, pc[r] = "store", CommitFiling(r)
    PROVE  /\ cur[r] \in Disc
           /\ got[r] # 0 => Stored' = Stored \cup {cur[r]}
           /\ got[r] = 0 => Stored' = Stored /\ cur[r] \in blank[r]
<1>1. cur[r] \in Disc /\ (got[r] = 0 => cur[r] \in blank[r])
  BY DEF TypeOK, FlightOK
<1>. QED BY <1>1 DEF CommitFiling, TypeOK, StoreTypeOK, Stored

\* Steps that are not a run's leave the runs alone, and steps without a
\* commit leave the rows alone.
LEMMA OutsideSteps ==
    ASSUME World \/ Repair \/ UNCHANGED vars
    PROVE  UNCHANGED <<row, runVars>>
BY DEF World, DeployParser, Publish, Repair, RepairStart, RepairKeep, RepairRead, RepairCommit,
    RepairUnlink, RepairStop, vars

LEMMA QuietSteps ==
    ASSUME NEW r \in Run,
           \/ Start(r) \/ FetchList(r) \/ Snapshot(r) \/ Fail(r) \/ Cooldown(r) \/ Finish(r)
           \/ \E d \in Disc : Skip(r, d) \/ FetchDetail(r, d) \/ FetchBlank(r, d) \/ DeferDetail(r, d)
           \/ FetchPdf(r) \/ DeferFlight(r) \/ DeferQuarantine(r)
    PROVE  UNCHANGED <<kap, row, txs, emptyId>>
BY DEF Start, FetchList, Snapshot, Fail, Cooldown, Finish, Skip, FetchDetail, FetchBlank, DeferDetail, FetchPdf,
    DeferFlight, DeferQuarantine, DeferCurrent, WriteWhole, WriteCut

\* What is stored stays stored.
LEMMA StoredGrows == ASSUME TypeOK, [Next]_vars PROVE Stored \subseteq Stored'
<1>1. CASE World \/ Repair \/ UNCHANGED vars
  BY <1>1, OutsideSteps DEF Stored
<1>2. ASSUME NEW r \in Run, Store(r) \/ DeferCommitted(r) PROVE Stored \subseteq Stored'
  BY <1>2, CommitStores DEF Store, DeferCommitted
<1>3. ASSUME NEW r \in Run, Abandon(r) PROVE Stored \subseteq Stored'
  BY <1>3, CommitStores DEF Abandon, WriteCut, Stored
<1>4. ASSUME NEW r \in Run, RunStep(r) PROVE Stored \subseteq Stored'
  <2>1. CASE UNCHANGED <<kap, row, txs, emptyId>>
    BY <2>1 DEF Stored
  <2>. QED BY <1>2, <1>4, <2>1, QuietSteps DEF RunStep
<1>. QED BY <1>1, <1>3, <1>4 DEF Next

LEMMA PhasesKeep == ASSUME TypeOK, Phases, [Next]_vars PROVE Phases'
<1>1. CASE World \/ Repair \/ UNCHANGED vars
  BY <1>1, OutsideSteps DEF Phases
<1>2. ASSUME NEW r \in Run, RunStep(r) \/ Abandon(r) PROVE Phases'
  <2>1. CASE Start(r) \/ Fail(r) \/ Finish(r)
    BY <2>1 DEF Start, Fail, Finish, TypeOK, RunTypeOK, Phases
  <2>2. CASE FetchList(r) \/ Snapshot(r) \/ Cooldown(r)
    BY <2>2 DEF FetchList, Snapshot, Cooldown, TypeOK, RunTypeOK, Phases
  <2>3. CASE \E d \in Disc : Skip(r, d) \/ FetchDetail(r, d) \/ FetchBlank(r, d) \/ DeferDetail(r, d)
    BY <2>3 DEF Skip, FetchDetail, FetchBlank, DeferDetail, TypeOK, RunTypeOK, Phases
  <2>4. CASE FetchPdf(r)
    BY <2>4 DEF FetchPdf, TypeOK, RunTypeOK, Phases
  <2>5. CASE Store(r) \/ DeferFlight(r) \/ DeferQuarantine(r) \/ DeferCommitted(r)
    BY <2>5 DEF Store, DeferFlight, DeferQuarantine, DeferCommitted, DeferCurrent, Land,
      TypeOK, RunTypeOK, Phases
  <2>6. CASE Abandon(r)
    BY <2>6 DEF Abandon, TypeOK, RunTypeOK, Phases, PC
  <2>. QED BY <1>2, <2>1, <2>2, <2>3, <2>4, <2>5, <2>6 DEF RunStep
<1>. QED BY <1>1, <1>2 DEF Next

LEMMA KnownKeeps == ASSUME TypeOK, KnownOK, [Next]_vars PROVE KnownOK'
<1>1. Stored \subseteq Stored'
  BY StoredGrows
<1>2. ASSUME NEW r \in Run, Snapshot(r) PROVE KnownOK'
  BY <1>1, <1>2 DEF Snapshot, TypeOK, RunTypeOK, KnownOK, Listed
<1>3. CASE known' = known
  BY <1>1, <1>3 DEF KnownOK
<1>4. ASSUME World \/ Repair \/ UNCHANGED vars PROVE known' = known
  BY <1>4, OutsideSteps
<1>5. ASSUME NEW r \in Run, RunStep(r) \/ Abandon(r), ~Snapshot(r) PROVE known' = known
  BY <1>5 DEF RunStep, Start, FetchList, Fail, Skip, FetchDetail, FetchBlank, DeferDetail, FetchPdf, Store,
    DeferFlight, DeferQuarantine, DeferCommitted, DeferCurrent, Cooldown, Finish, Abandon
<1>. QED BY <1>2, <1>3, <1>4, <1>5 DEF Next

\* A run leaves the repair alone, and a file a file.
LEMMA FileSteps ==
    ASSUME TypeOK, NEW r \in Run, RunStep(r) \/ Abandon(r)
    PROVE  repair' = repair /\ \A d \in Disc : file[d] \in Version => file'[d] \in Version
<1>1. repair' = repair
  BY DEF RunStep, Start, FetchList, Snapshot, Fail, Skip, FetchDetail, FetchBlank, DeferDetail, FetchPdf, Store,
    DeferFlight, DeferQuarantine, DeferCommitted, DeferCurrent, Cooldown, Finish, Abandon
<1>2. CASE FetchPdf(r) \/ DeferQuarantine(r) \/ Abandon(r)
  <2>1. file' = file \/ (pc[r] = "pdf" /\ file' = [file EXCEPT ![cur[r]] = got[r]])
    BY <1>2 DEF FetchPdf, DeferQuarantine, Abandon, WriteWhole, WriteCut, CommitFiling
  <2>2. pc[r] = "pdf" => got[r] \in Version
    BY BoundAssumption DEF TypeOK, RunTypeOK, FlightOK, Version
  <2>. QED BY <1>1, <2>1, <2>2 DEF TypeOK, StoreTypeOK
<1>3. CASE ~(FetchPdf(r) \/ DeferQuarantine(r) \/ Abandon(r))
  <2>1. file' = file
    BY <1>3 DEF RunStep, Start, FetchList, Snapshot, Fail, Skip, FetchDetail, FetchBlank, DeferDetail, Store,
      DeferFlight, DeferCommitted, CommitFiling, Cooldown, Finish
  <2>. QED BY <1>1, <2>1
<1>. QED BY <1>2, <1>3

LEMMA RepairKeeps == ASSUME TypeOK, RepairOK, [Next]_vars PROVE RepairOK'
<1>1. CASE World \/ UNCHANGED vars
  BY <1>1 DEF World, DeployParser, Publish, vars, RepairOK
<1>2. CASE Repair
  <2>1. CASE RepairStart \/ RepairStop
    BY <2>1, BoundAssumption DEF RepairStart, RepairStop, IdleRepair, TypeOK, StoreTypeOK, RepairOK, Version
  <2>2. ASSUME NEW d \in Disc, RepairKeep(d) PROVE RepairOK'
    BY <2>2 DEF RepairKeep, TypeOK, RepairTypeOK, RepairOK
  <2>3. ASSUME NEW d \in Disc, RepairRead(d) PROVE RepairOK'
    BY <2>3 DEF RepairRead, TypeOK, RepairTypeOK, RepairOK
  <2>4. CASE RepairCommit
    BY <2>4 DEF RepairCommit, TypeOK, RepairTypeOK, RepairOK
  <2>5. CASE RepairUnlink
    BY <2>5 DEF RepairUnlink, TypeOK, StoreTypeOK, RepairTypeOK, RepairOK
  <2>. QED BY <1>2, <2>1, <2>2, <2>3, <2>4, <2>5 DEF Repair
<1>3. ASSUME NEW r \in Run, RunStep(r) \/ Abandon(r) PROVE RepairOK'
  <2>1. repair' = repair /\ \A d \in Disc : file[d] \in Version => file'[d] \in Version
    BY <1>3, FileSteps
  <2>. QED BY <2>1 DEF TypeOK, RepairTypeOK, RepairOK
<1>. QED BY <1>1, <1>2, <1>3 DEF Next

LEMMA ListKeeps == ASSUME TypeOK, Phases, ListOK, [Next]_vars PROVE ListOK'
<1>1. CASE Repair \/ UNCHANGED vars \/ DeployParser
  BY <1>1, OutsideSteps DEF World, Repair, RepairStart, RepairKeep, RepairRead, RepairCommit, RepairUnlink,
    RepairStop, DeployParser, vars, ListOK, Listed
<1>2. ASSUME NEW d \in Disc, Publish(d) PROVE ListOK'
  <2>1. \A e \in Disc : kap[e] <= kap'[e] /\ kap[e] \in Int /\ kap'[e] \in Int
    BY <1>2, BoundAssumption DEF Publish, TypeOK, WorldTypeOK
  <2>2. \A q \in Run, e \in Disc : listed[q][e] \in Int
    BY BoundAssumption DEF TypeOK, RunTypeOK
  <2>. QED BY <1>2, <2>1, <2>2 DEF Publish, ListOK, Listed
<1>3. ASSUME NEW r \in Run, RunStep(r) \/ Abandon(r) PROVE ListOK'
  <2>1. CASE Start(r) \/ Fail(r) \/ Finish(r)
    BY <2>1 DEF Start, Fail, Finish, TypeOK, RunTypeOK, ListOK, Listed
  <2>2. CASE FetchList(r)
    BY <2>2, BoundAssumption DEF FetchList, TypeOK, WorldTypeOK, RunTypeOK, ListOK, Listed
  <2>3. CASE Snapshot(r)
    BY <2>3 DEF Snapshot, TypeOK, RunTypeOK, ListOK, Listed
  <2>4. CASE Cooldown(r)
    BY <2>4 DEF Cooldown, TypeOK, RunTypeOK, ListOK, Listed
  <2>5. ASSUME NEW d \in Disc, Skip(r, d) \/ FetchDetail(r, d) \/ FetchBlank(r, d) \/ DeferDetail(r, d)
        PROVE  ListOK'
    <3>1. CASE Skip(r, d)
      BY <3>1 DEF Skip, TypeOK, RunTypeOK, ListOK, Listed
    <3>2. CASE FetchDetail(r, d)
      BY <3>2 DEF FetchDetail, TypeOK, RunTypeOK, ListOK, Listed
    <3>3. CASE DeferDetail(r, d)
      BY <3>3 DEF DeferDetail, TypeOK, RunTypeOK, ListOK, Listed
    <3>4. CASE FetchBlank(r, d)
      BY <3>4 DEF FetchBlank, TypeOK, RunTypeOK, ListOK, Listed
    <3>. QED BY <2>5, <3>1, <3>2, <3>3, <3>4
  <2>6. CASE FetchPdf(r)
    BY <2>6 DEF FetchPdf, TypeOK, RunTypeOK, ListOK, Listed
  <2>7. CASE Store(r) \/ DeferFlight(r) \/ DeferQuarantine(r) \/ DeferCommitted(r)
    <3>1. /\ Land(r)
          /\ UNCHANGED <<kap, listed, todo>>
          /\ deferred' = deferred \/ deferred' = [deferred EXCEPT ![r] = @ \cup {cur[r]}]
      BY <2>7 DEF Store, DeferFlight, DeferQuarantine, DeferCommitted, DeferCurrent
    <3>2. cur[r] \in Listed(r)
      BY <2>7 DEF Store, DeferFlight, DeferQuarantine, DeferCommitted, ListOK
    <3>. QED BY <3>1, <3>2 DEF Land, TypeOK, RunTypeOK, ListOK, Listed
  <2>8. CASE Abandon(r)
    BY <2>8 DEF Abandon, TypeOK, RunTypeOK, ListOK, Listed
  <2>. QED BY <1>3, <2>1, <2>2, <2>3, <2>4, <2>5, <2>6, <2>7, <2>8 DEF RunStep
<1>. QED BY <1>1, <1>2, <1>3 DEF Next, World

\* The heart of the argument: no step takes a listed disclosure of a sweeping
\* run out of sight.
LEMMA SweepKeeps ==
    ASSUME TypeOK, Phases, ListOK, KnownOK, SweepOK, [Next]_vars
    PROVE  SweepOK'
<1>1. Stored \subseteq Stored'
  BY StoredGrows
<1>2. CASE World \/ Repair \/ UNCHANGED vars
  BY <1>2, OutsideSteps DEF SweepOK, Listed, Stored, InFlight
<1>3. ASSUME NEW r \in Run, RunStep(r) \/ Abandon(r) PROVE SweepOK'
  <2>1. CASE Start(r) \/ Fail(r) \/ FetchList(r) \/ Snapshot(r)
    <3>1. CASE Start(r) \/ Fail(r)
      BY <1>1, <3>1 DEF Start, Fail, TypeOK, RunTypeOK, SweepOK, Listed, InFlight
    <3>2. CASE FetchList(r)
      BY <1>1, <3>2 DEF FetchList, TypeOK, RunTypeOK, Phases, SweepOK, Listed, InFlight
    <3>3. CASE Snapshot(r)
      BY <1>1, <3>3 DEF Snapshot, TypeOK, RunTypeOK, SweepOK, Listed, InFlight
    <3>. QED BY <2>1, <3>1, <3>2, <3>3
  <2>2. CASE Finish(r) \/ Cooldown(r)
    <3>1. CASE Finish(r)
      BY <1>1, <3>1 DEF Finish, TypeOK, RunTypeOK, SweepOK, Listed, InFlight
    <3>2. CASE Cooldown(r)
      BY <1>1, <3>2 DEF Cooldown, TypeOK, RunTypeOK, SweepOK, Listed, InFlight
    <3>. QED BY <2>2, <3>1, <3>2
  <2>3. ASSUME NEW d \in Disc, Skip(r, d) PROVE SweepOK'
    <3>1. d \in Stored /\ \A q \in Run : \A e \in todo[q] : e \in todo'[q] \/ e = d
      BY <2>3 DEF Skip, Skippable, TypeOK, RunTypeOK, KnownOK
    <3>2. UNCHANGED <<pc, status, listed, deferred, cur, blank>>
      BY <2>3 DEF Skip, flightVars
    <3>. QED BY <1>1, <3>1, <3>2 DEF SweepOK, Listed, InFlight
  <2>4. ASSUME NEW d \in Disc, FetchDetail(r, d) \/ FetchBlank(r, d) \/ DeferDetail(r, d) PROVE SweepOK'
    <3>1. CASE FetchDetail(r, d)
      BY <1>1, <3>1 DEF FetchDetail, TypeOK, RunTypeOK, SweepOK, Listed, InFlight
    <3>2. CASE FetchBlank(r, d)
      BY <1>1, <3>2 DEF FetchBlank, TypeOK, RunTypeOK, SweepOK, Listed, InFlight
    <3>3. CASE DeferDetail(r, d)
      BY <1>1, <3>3 DEF DeferDetail, TypeOK, RunTypeOK, SweepOK, Listed, InFlight
    <3>. QED BY <2>4, <3>1, <3>2, <3>3
  <2>5. CASE FetchPdf(r)
    BY <1>1, <2>5 DEF FetchPdf, TypeOK, RunTypeOK, SweepOK, Listed, InFlight
  <2>6. CASE Store(r)
    <3>1. cur[r] \in Stored' \cup blank[r]
      BY <2>6, CommitStores DEF Store
    <3>. QED BY <1>1, <2>6, <3>1 DEF Store, Land, TypeOK, RunTypeOK, SweepOK, Listed, InFlight
  <2>7. CASE DeferFlight(r) \/ DeferQuarantine(r) \/ DeferCommitted(r)
    <3>1. pc[r] \in {"pdf", "store"} /\ DeferCurrent(r)
      BY <2>7 DEF DeferFlight, DeferQuarantine, DeferCommitted
    <3>. QED BY <1>1, <3>1 DEF DeferCurrent, Land, TypeOK, RunTypeOK, SweepOK, Listed, InFlight
  <2>8. CASE Abandon(r)
    BY <1>1, <2>8 DEF Abandon, TypeOK, RunTypeOK, SweepOK, Listed, InFlight
  <2>. QED BY <1>3, <2>1, <2>2, <2>3, <2>4, <2>5, <2>6, <2>7, <2>8 DEF RunStep
<1>. QED BY <1>2, <1>3 DEF Next

LEMMA Invariant == Spec => []IInv
<1>1. IInv /\ [Next]_vars => IInv'
  BY TypeKeeps, PhasesKeep, ListKeeps, KnownKeeps, SweepKeeps, RepairKeeps DEF IInv
<1>. QED BY <1>1, InitIInv, PTL DEF Spec

-----------------------------------------------------------------------------
(* Theorems *)

\* Every variable keeps its type, and a run has a disclosure in flight
\* exactly between the detail and the end of _ingest_one.
THEOREM TypeCorrect == Spec => []TypeOK
<1>1. IInv => TypeOK
  BY DEF IInv
<1>. QED BY <1>1, Invariant, PTL

\* What a SUCCESS row of scraper_runs means, for any number of overlapping runs,
\* corrections, failures and lost commit answers: everything the run listed is
\* in kap_disclosures, except what KAP answered with a blank, which is the one
\* way for a run to lose a disclosure unnoticed.
THEOREM SuccessStored == Spec => []SuccessMeansStored
<1>1. IInv => SuccessMeansStored
  BY DEF IInv, SweepOK, SuccessMeansStored
<1>. QED BY <1>1, Invariant, PTL
-----------------------------------------------------------------------------
(* The evidence *)

HasTrades(d) == \E k \in Key : <<d, k>> \in txs

\* The trades of a disclosure are there, or its PDF.
Evident(d) == HasTrades(d) \/ file[d] # 0

\* The repair has trades in hand, and removes a file once they are in.
RepairSound ==
    /\ repair.pc \in {"commit", "unlink"} =>
          Parse(<<repair.cur, repair.got>>, repair.better) # {}
    /\ repair.pc = "unlink" => HasTrades(repair.cur)

\* EvidenceKept is not inductive: the quarantine file is written before the
\* row, and a repair may take it away between the two, so what a run is about
\* to commit has to be evident already; and the repair removes a file, whatever
\* version it holds by then, only once trades of its disclosure are in.
EvidenceOK ==
    /\ \A d \in Stored : Evident(d) \/ <<d, row[d]>> \in NoPdf
    /\ \A r \in Run : pc[r] = "store" /\ got[r] # 0 /\ Parsed(r) = {} =>
          Evident(cur[r]) \/ <<cur[r], got[r]>> \in NoPdf
    /\ RepairSound

\* Trades are only ever added.
LEMMA TradesGrow == ASSUME [Next]_vars PROVE txs \subseteq txs'
<1>1. CASE World \/ Repair \/ UNCHANGED vars
  BY <1>1 DEF World, DeployParser, Publish, Repair, RepairStart, RepairKeep, RepairRead, RepairCommit,
    RepairUnlink, RepairStop, vars
<1>2. ASSUME NEW r \in Run, RunStep(r) \/ Abandon(r) PROVE txs \subseteq txs'
  <2>1. CASE Store(r) \/ DeferCommitted(r) \/ Abandon(r)
    BY <2>1 DEF Store, DeferCommitted, Abandon, CommitFiling, WriteCut
  <2>. QED BY <1>2, <2>1, QuietSteps DEF RunStep
<1>. QED BY <1>1, <1>2 DEF Next

\* A file only goes when the trades of its disclosure are in.
LEMMA FilesStay ==
    ASSUME TypeOK, RepairOK, EvidenceOK, [Next]_vars, NEW d \in Disc, file[d] # 0
    PROVE  file'[d] # 0 \/ HasTrades(d)
<1>1. CASE RepairUnlink
  <2>1. PICK e \in Disc : e = repair.cur
    BY <1>1 DEF RepairUnlink, RepairOK
  <2>. QED BY <1>1, <2>1 DEF RepairUnlink, EvidenceOK, RepairSound, TypeOK, StoreTypeOK
<1>2. CASE World \/ (Repair /\ ~RepairUnlink) \/ UNCHANGED vars
  BY <1>2 DEF World, DeployParser, Publish, Repair, RepairStart, RepairKeep, RepairRead, RepairCommit,
    RepairStop, vars
<1>3. ASSUME NEW r \in Run, RunStep(r) \/ Abandon(r) PROVE file'[d] # 0
  BY <1>3, FileSteps, BoundAssumption DEF TypeOK, StoreTypeOK, Version
<1>. QED BY <1>1, <1>2, <1>3 DEF Next

LEMMA EvidentStays ==
    ASSUME TypeOK, RepairOK, EvidenceOK, [Next]_vars, NEW d \in Disc, Evident(d)
    PROVE  Evident(d)'
<1>1. HasTrades(d) => HasTrades(d)'
  BY TradesGrow DEF HasTrades
<1>. QED BY <1>1, FilesStay DEF Evident

\* A row moves when a run commits a filing, and to its version.
LEMMA RowMoves ==
    ASSUME TypeOK, [Next]_vars, NEW d \in Disc, row'[d] # row[d]
    PROVE  \E r \in Run : /\ pc[r] = "store" /\ got[r] # 0 /\ cur[r] = d /\ row'[d] = got[r]
                          /\ CommitFiling(r)
<1>1. ~(World \/ Repair \/ UNCHANGED vars)
  BY OutsideSteps
<1>2. PICK r \in Run : RunStep(r) \/ Abandon(r)
  BY <1>1 DEF Next
<1>3. pc[r] = "store" /\ CommitFiling(r)
  <2>1. CASE Store(r) \/ DeferCommitted(r) \/ Abandon(r)
    BY <2>1 DEF Store, DeferCommitted, Abandon, WriteCut
  <2>. QED BY <1>2, <2>1, QuietSteps DEF RunStep
<1>4. got[r] # 0 /\ row' = [row EXCEPT ![cur[r]] = got[r]]
  BY <1>3 DEF CommitFiling
<1>. QED BY <1>3, <1>4 DEF TypeOK, StoreTypeOK

\* A run comes to have a filing in hand by fetching its PDF.
LEMMA InHand ==
    ASSUME TypeOK, [Next]_vars, NEW r \in Run, pc'[r] = "store", got'[r] # 0
    PROVE  /\ cur'[r] = cur[r] /\ got'[r] = got[r] /\ parser'[r] = parser[r]
           /\ pc[r] = "store" \/ FetchPdf(r)
<1>1. CASE World \/ Repair \/ UNCHANGED vars
  BY <1>1, OutsideSteps
<1>2. ASSUME NEW q \in Run, RunStep(q) \/ Abandon(q)
      PROVE  /\ cur'[r] = cur[r] /\ got'[r] = got[r] /\ parser'[r] = parser[r]
             /\ pc[r] = "store" \/ FetchPdf(r)
  <2>1. CASE q # r
    BY <1>2, <2>1 DEF RunStep, Start, FetchList, Snapshot, Fail, Skip, FetchDetail, FetchBlank, DeferDetail,
      FetchPdf, Store, DeferFlight, DeferQuarantine, DeferCommitted, DeferCurrent, Land, Cooldown, Finish, Abandon,
      TypeOK, RunTypeOK
  <2>2. CASE q = r
    <3>1. CASE FetchPdf(r)
      BY <3>1 DEF FetchPdf
    <3>2. ASSUME NEW d \in Disc, FetchBlank(r, d) PROVE FALSE
      BY <3>2 DEF FetchBlank, TypeOK, RunTypeOK, FlightOK
    <3>3. CASE ~FetchPdf(r)
      BY <1>2, <2>2, <3>2, <3>3 DEF RunStep, Start, FetchList, Snapshot, Fail, Skip, FetchDetail, DeferDetail,
        Store, DeferFlight, DeferQuarantine, DeferCommitted, DeferCurrent, Land, Cooldown, Finish, Abandon,
        TypeOK, RunTypeOK
    <3>. QED BY <3>1, <3>3
  <2>. QED BY <2>1, <2>2
<1>. QED BY <1>1, <1>2 DEF Next

LEMMA EvidenceKeeps == ASSUME TypeOK, RepairOK, EvidenceOK, [Next]_vars PROVE EvidenceOK'
<1>1. ASSUME NEW d \in Stored' PROVE Evident(d)' \/ <<d, row'[d]>> \in NoPdf
  <2>1. CASE row'[d] = row[d]
    BY <1>1, <2>1, EvidentStays DEF EvidenceOK, Stored
  <2>2. CASE row'[d] # row[d]
    <3>1. PICK r \in Run : /\ pc[r] = "store" /\ got[r] # 0 /\ cur[r] = d /\ row'[d] = got[r]
                           /\ CommitFiling(r)
      BY <1>1, <2>2, RowMoves DEF Stored
    <3>2. CASE Parsed(r) = {}
      BY <1>1, <3>1, <3>2, EvidentStays DEF EvidenceOK, Stored
    <3>3. CASE Parsed(r) # {}
      <4>1. PICK k : k \in Parsed(r)
        BY <3>3
      <4>2. k \in Key
        BY <1>1, <3>1, <4>1, ParsedType DEF Stored
      <4>3. <<d, k>> \in txs'
        BY <3>1, <4>1 DEF CommitFiling
      <4>. QED BY <4>2, <4>3 DEF Evident, HasTrades
    <3>. QED BY <3>2, <3>3
  <2>. QED BY <2>1, <2>2
<1>2. ASSUME NEW r \in Run, pc'[r] = "store", got'[r] # 0, Parsed(r)' = {}
      PROVE  Evident(cur[r])' \/ <<cur'[r], got'[r]>> \in NoPdf
  <2>1. /\ cur'[r] = cur[r] /\ got'[r] = got[r] /\ parser'[r] = parser[r]
        /\ pc[r] = "store" \/ FetchPdf(r)
    BY <1>2, InHand
  <2>2. Parsed(r) = {}
    BY <1>2, <2>1 DEF Parsed
  <2>3. PICK d \in Disc : d = cur[r]
    BY <2>1 DEF FetchPdf, TypeOK, FlightOK
  <2>4. CASE pc[r] = "store"
    <3>1. Evident(d) \/ <<d, got[r]>> \in NoPdf
      BY <1>2, <2>1, <2>2, <2>3, <2>4 DEF EvidenceOK
    <3>2. Evident(d)' \/ <<d, got[r]>> \in NoPdf
      BY <3>1, EvidentStays
    <3>. QED BY <2>1, <2>3, <3>2 DEF Evident, HasTrades
  <2>5. CASE FetchPdf(r) /\ <<d, got[r]>> \notin NoPdf
    <3>1. file' = [file EXCEPT ![d] = got[r]]
      BY <2>2, <2>3, <2>5 DEF FetchPdf, Quarantined, WriteWhole
    <3>2. file'[d] # 0
      BY <1>2, <2>1, <3>1 DEF TypeOK, StoreTypeOK
    <3>. QED BY <2>1, <2>3, <3>2 DEF Evident
  <2>. QED BY <2>1, <2>3, <2>4, <2>5
<1>3. RepairSound'
  <2>1. CASE repair' = repair
    BY <2>1, TradesGrow DEF EvidenceOK, RepairSound, HasTrades
  <2>2. CASE RepairStart \/ RepairStop
    BY <2>2 DEF RepairStart, RepairStop, IdleRepair, RepairSound
  <2>3. ASSUME NEW d \in Disc, RepairKeep(d) \/ RepairRead(d) PROVE RepairSound'
    BY <2>3 DEF RepairKeep, RepairRead, TypeOK, RepairTypeOK, EvidenceOK, RepairSound
  <2>4. CASE RepairCommit
    <3>1. PICK k : k \in Parse(<<repair.cur, repair.got>>, repair.better)
      BY <2>4 DEF RepairCommit, EvidenceOK, RepairSound
    <3>2. k \in Key
      BY <2>4, <3>1, ParseType DEF RepairCommit, RepairOK, TypeOK, RepairTypeOK
    <3>3. <<repair.cur, k>> \in txs'
      BY <2>4, <3>1 DEF RepairCommit
    <3>4. /\ repair'.cur = repair.cur /\ repair'.got = repair.got /\ repair'.better = repair.better
      BY <2>4 DEF RepairCommit, TypeOK, RepairTypeOK
    <3>. QED BY <2>4, <3>2, <3>3, <3>4 DEF HasTrades, RepairCommit, EvidenceOK, RepairSound
  <2>5. CASE RepairUnlink
    BY <2>5 DEF RepairUnlink, TypeOK, RepairTypeOK, RepairSound
  <2>6. ASSUME NEW r \in Run, RunStep(r) \/ Abandon(r) PROVE repair' = repair
    BY <2>6, FileSteps
  <2>7. World \/ UNCHANGED vars => repair' = repair
    BY DEF World, DeployParser, Publish, vars
  <2>. QED BY <2>1, <2>2, <2>3, <2>4, <2>5, <2>6, <2>7 DEF Next, Repair
<1>. QED BY <1>1, <1>2, <1>3 DEF EvidenceOK

\* No trade report is lost between the quarantine, the repair and the
\* database, for any number of overlapping runs and corrections, however the
\* processes are killed and whichever file they overwrite or remove: a stored
\* disclosure has trades, or a PDF in the quarantine, or never had one.
THEOREM EvidenceStays == Spec => []EvidenceKept
<1>1. Init => EvidenceOK
  BY DEF Init, EvidenceOK, RepairSound, Stored, IdleRepair
<1>2. IInv /\ EvidenceOK /\ [Next]_vars => EvidenceOK'
  BY EvidenceKeeps DEF IInv
<1>3. EvidenceOK => EvidenceKept
  BY DEF EvidenceOK, Evident, HasTrades, EvidenceKept
<1>. QED BY <1>1, <1>2, <1>3, Invariant, PTL DEF Spec

-----------------------------------------------------------------------------
(* The audit row adds up *)

Sweeping == {"loop", "pdf", "store"}

\* The disclosures of a run that are not counted yet.
Outstanding(r) ==
    Cardinality(todo[r]) + Cardinality(deferred[r]) + IF pc[r] \in {"pdf", "store"} THEN 1 ELSE 0

\* AuditAddsUp speaks of finished runs; while a run sweeps, what it has counted
\* and what is outstanding make up the list, and nothing is outstanding twice.
Tally(r) ==
    /\ pc[r] \in {"idle", "listing", "snapshot"} =>
          todo[r] = {} /\ deferred[r] = {} /\ count[r] = ZeroCount
    /\ todo[r] \cap deferred[r] = {}
    /\ pc[r] \in {"pdf", "store"} => cur[r] \notin todo[r] \cup deferred[r]
    /\ status[r] \in {"SUCCESS", "PARTIAL"} => pc[r] = "done" /\ todo[r] = {}
    /\ pc[r] \in Sweeping \/ status[r] \in {"SUCCESS", "PARTIAL"} =>
          /\ count[r].updated + count[r].skipped + Outstanding(r) <= Cardinality(Listed(r))
          /\ Cardinality(Listed(r)) <=
                count[r].inserted + count[r].updated + count[r].skipped + Outstanding(r)

TallyOK == \A r \in Run : Tally(r)

\* A run's tally depends on its own variables only.
LEMMA TallyOwn ==
    ASSUME NEW r \in Run, Tally(r),
           pc'[r] = pc[r], status'[r] = status[r], todo'[r] = todo[r], deferred'[r] = deferred[r],
           cur'[r] = cur[r], count'[r] = count[r], listed'[r] = listed[r]
    PROVE  Tally(r)'
BY DEF Tally, Outstanding, Listed

LEMMA FiniteTally ==
    ASSUME IsFiniteSet(Disc), TypeOK, NEW r \in Run
    PROVE  /\ IsFiniteSet(todo[r]) /\ Cardinality(todo[r]) \in Nat
           /\ IsFiniteSet(deferred[r]) /\ Cardinality(deferred[r]) \in Nat
           /\ IsFiniteSet(Listed(r)) /\ Cardinality(Listed(r)) \in Nat
           /\ count[r].inserted \in Nat /\ count[r].updated \in Nat /\ count[r].skipped \in Nat
<1>1. todo[r] \in SUBSET Disc /\ deferred[r] \in SUBSET Disc /\ Listed(r) \in SUBSET Disc
  BY DEF TypeOK, RunTypeOK, Listed
<1>2. IsFiniteSet(todo[r]) /\ IsFiniteSet(deferred[r]) /\ IsFiniteSet(Listed(r))
  BY <1>1, FS_Subset
<1>. QED BY <1>2, FS_CardinalityType DEF TypeOK, CountTypeOK

\* Before the sweep and after it.
LEMMA TallyPhases ==
    ASSUME IsFiniteSet(Disc), TypeOK, Phases, NEW r \in Run, Tally(r),
           Start(r) \/ FetchList(r) \/ Snapshot(r) \/ Fail(r) \/ Finish(r) \/ Abandon(r)
    PROVE  Tally(r)'
<1>1. CASE Start(r)
  BY <1>1 DEF Start, TypeOK, RunTypeOK, Tally, Sweeping
<1>2. CASE FetchList(r)
  BY <1>2 DEF FetchList, TypeOK, RunTypeOK, Phases, Tally, Sweeping
<1>3. CASE Fail(r)
  BY <1>3 DEF Fail, TypeOK, RunTypeOK, Tally, Sweeping
<1>4. CASE Snapshot(r)
  <2>1. /\ todo'[r] = Listed(r) /\ deferred'[r] = {} /\ pc'[r] = "loop" /\ count'[r] = ZeroCount
        /\ status'[r] = "RUNNING" /\ listed' = listed
    BY <1>4 DEF Snapshot, TypeOK, RunTypeOK, Phases, Tally
  <2>2. Cardinality({}) = 0 /\ Cardinality(Listed(r)) \in Nat
    BY FiniteTally, FS_EmptySet
  <2>3. Listed(r)' = Listed(r)
    BY <2>1 DEF Listed
  <2>4. Outstanding(r)' = Cardinality(Listed(r))
    BY <2>1, <2>2 DEF Outstanding
  <2>. QED BY <2>1, <2>2, <2>3, <2>4 DEF Tally, ZeroCount, Sweeping
<1>5. CASE Finish(r)
  <2>1. /\ pc[r] = "loop" /\ pc'[r] = "done" /\ todo[r] = {}
        /\ UNCHANGED <<todo, deferred, count, listed, cur>>
    BY <1>5 DEF Finish, TypeOK, RunTypeOK
  <2>2. Outstanding(r)' = Outstanding(r) /\ Listed(r)' = Listed(r)
    BY <2>1 DEF Outstanding, Listed
  <2>. QED BY <2>1, <2>2 DEF Tally, Sweeping
<1>6. CASE Abandon(r)
  BY <1>6 DEF Abandon, TypeOK, RunTypeOK, Phases, Tally, Sweeping
<1>. QED BY <1>1, <1>2, <1>3, <1>4, <1>5, <1>6

\* A sweep takes a disclosure up, counts it as skipped, or defers it.
LEMMA TallySweep ==
    ASSUME IsFiniteSet(Disc), TypeOK, Phases, NEW r \in Run, Tally(r), NEW d \in Disc,
           Skip(r, d) \/ FetchDetail(r, d) \/ FetchBlank(r, d) \/ DeferDetail(r, d)
    PROVE  Tally(r)'
<1>1. /\ pc[r] = "loop" /\ status[r] = "RUNNING" /\ d \in todo[r] /\ UNCHANGED <<listed, status>>
      /\ todo'[r] = todo[r] \ {d}
  BY DEF Skip, FetchDetail, FetchBlank, DeferDetail, Phases, TypeOK, RunTypeOK
<1>2. Cardinality(todo[r] \ {d}) = Cardinality(todo[r]) - 1 /\ Listed(r)' = Listed(r)
  BY <1>1, FiniteTally, FS_RemoveElement DEF Listed
<1>3. CASE Skip(r, d)
  <2>1. /\ pc' = pc /\ deferred' = deferred
        /\ count'[r].skipped = count[r].skipped + 1
        /\ count'[r].inserted = count[r].inserted /\ count'[r].updated = count[r].updated
    BY <1>3 DEF Skip, TypeOK, CountTypeOK
  <2>2. Outstanding(r)' = Outstanding(r) - 1 /\ Outstanding(r) \in Int
    BY <1>1, <1>2, <2>1, FiniteTally DEF Outstanding
  <2>. QED BY <1>1, <1>2, <2>1, <2>2, FiniteTally DEF Tally, Sweeping
<1>4. CASE FetchDetail(r, d) \/ FetchBlank(r, d)
  <2>1. /\ pc'[r] \in {"pdf", "store"} /\ deferred' = deferred /\ cur'[r] = d
        /\ count'[r].inserted = count[r].inserted
        /\ count'[r].updated = count[r].updated /\ count'[r].skipped = count[r].skipped
    BY <1>4 DEF FetchDetail, FetchBlank, TypeOK, RunTypeOK, CountTypeOK
  <2>2. Outstanding(r)' = Outstanding(r)
    BY <1>1, <1>2, <2>1, FiniteTally DEF Outstanding
  <2>. QED BY <1>1, <1>2, <2>1, <2>2 DEF Tally, Sweeping
<1>5. CASE DeferDetail(r, d)
  <2>1. pc' = pc /\ deferred'[r] = deferred[r] \cup {d} /\ count' = count /\ d \notin deferred[r]
    BY <1>1, <1>5 DEF DeferDetail, TypeOK, RunTypeOK, Tally
  <2>2. Cardinality(deferred[r] \cup {d}) = Cardinality(deferred[r]) + 1
    BY <2>1, FiniteTally, FS_AddElement
  <2>3. Outstanding(r)' = Outstanding(r)
    BY <1>1, <1>2, <2>1, <2>2, FiniteTally DEF Outstanding
  <2>. QED BY <1>1, <1>2, <2>1, <2>3 DEF Tally, Sweeping
<1>. QED BY <1>3, <1>4, <1>5

\* What is in flight is counted by the commit, or goes back to the deferred.
LEMMA TallyFlight ==
    ASSUME IsFiniteSet(Disc), TypeOK, Phases, NEW r \in Run, Tally(r),
           \/ FetchPdf(r) \/ Store(r) \/ DeferFlight(r) \/ DeferQuarantine(r)
           \/ DeferCommitted(r) \/ Cooldown(r)
    PROVE  Tally(r)'
<1>1. /\ status[r] = "RUNNING" /\ UNCHANGED <<listed, status>> /\ Listed(r)' = Listed(r)
  BY DEF FetchPdf, Store, DeferFlight, DeferQuarantine, DeferCommitted, DeferCurrent, Cooldown,
    Phases, Listed
<1>2. CASE FetchPdf(r)
  <2>1. /\ pc[r] = "pdf" /\ pc'[r] = "store" /\ UNCHANGED <<todo, deferred, cur>>
        /\ count'[r].inserted = count[r].inserted
        /\ count'[r].updated = count[r].updated /\ count'[r].skipped = count[r].skipped
    BY <1>2 DEF FetchPdf, TypeOK, RunTypeOK, CountTypeOK
  <2>2. Outstanding(r)' = Outstanding(r)
    BY <2>1 DEF Outstanding
  <2>. QED BY <1>1, <2>1, <2>2 DEF Tally, Sweeping
<1>3. CASE Store(r)
  <2>1. pc[r] = "store" /\ pc'[r] = "loop" /\ UNCHANGED <<todo, deferred>>
    BY <1>3 DEF Store, Land, TypeOK, RunTypeOK
  <2>2. NewTrades(cur[r], Parsed(r)) \in Nat
    BY <2>1, ParsedType, NewTradesType DEF TypeOK, FlightOK
  <2>3. /\ count'[r].inserted = count[r].inserted + NewTrades(cur[r], Parsed(r))
                                    + IF Created(r) THEN 1 ELSE 0
        /\ count'[r].updated = count[r].updated + IF Created(r) THEN 0 ELSE 1
        /\ count'[r].skipped = count[r].skipped
    BY <1>3 DEF Store, TypeOK, CountTypeOK
  <2>4. Outstanding(r)' = Outstanding(r) - 1 /\ Outstanding(r) \in Int
    BY <2>1, FiniteTally DEF Outstanding
  <2> HIDE DEF Outstanding
  <2>5. CASE Created(r)
    BY <1>1, <2>1, <2>2, <2>3, <2>4, <2>5, FiniteTally DEF Tally, Sweeping
  <2>6. CASE ~Created(r)
    BY <1>1, <2>1, <2>2, <2>3, <2>4, <2>6, FiniteTally DEF Tally, Sweeping
  <2>. QED BY <2>5, <2>6
<1>4. CASE DeferFlight(r) \/ DeferQuarantine(r) \/ DeferCommitted(r)
  <2>1. /\ pc[r] \in {"pdf", "store"} /\ pc'[r] = "loop" /\ todo' = todo
        /\ deferred'[r] = deferred[r] \cup {cur[r]} /\ cur[r] \notin todo[r] \cup deferred[r]
    BY <1>4 DEF DeferFlight, DeferQuarantine, DeferCommitted, DeferCurrent, Land, TypeOK, RunTypeOK, Tally
  <2>2. /\ count'[r].inserted = count[r].inserted
        /\ count'[r].updated = count[r].updated /\ count'[r].skipped = count[r].skipped
    BY <1>4 DEF DeferFlight, DeferQuarantine, DeferCommitted, TypeOK, CountTypeOK
  <2>3. Cardinality(deferred[r] \cup {cur[r]}) = Cardinality(deferred[r]) + 1
    BY <2>1, FiniteTally, FS_AddElement
  <2>4. Outstanding(r)' = Outstanding(r)
    BY <2>1, <2>3, FiniteTally DEF Outstanding
  <2>. QED BY <1>1, <2>1, <2>2, <2>4 DEF Tally, Sweeping
<1>5. CASE Cooldown(r)
  <2>1. /\ pc[r] = "loop" /\ todo[r] = {} /\ UNCHANGED <<pc, count>>
        /\ todo'[r] = deferred[r] /\ deferred'[r] = {}
    BY <1>5 DEF Cooldown, TypeOK, RunTypeOK
  <2>2. Outstanding(r)' = Outstanding(r)
    BY <2>1, FiniteTally, FS_EmptySet DEF Outstanding
  <2>. QED BY <1>1, <2>1, <2>2 DEF Tally, Sweeping
<1>. QED BY <1>2, <1>3, <1>4, <1>5

LEMMA TallyKeeps ==
    ASSUME IsFiniteSet(Disc), TypeOK, Phases, TallyOK, [Next]_vars
    PROVE  TallyOK'
<1>1. CASE World \/ Repair \/ UNCHANGED vars
  BY <1>1, OutsideSteps, TallyOwn DEF TallyOK
<1>2. ASSUME NEW r \in Run, RunStep(r) \/ Abandon(r) PROVE TallyOK'
  <2>1. Tally(r)'
    BY <1>2, TallyPhases, TallySweep, TallyFlight DEF RunStep, TallyOK
  <2>2. ASSUME NEW q \in Run, q # r PROVE Tally(q)'
    <3>1. /\ pc'[q] = pc[q] /\ status'[q] = status[q] /\ listed'[q] = listed[q]
      BY <1>2, <2>2 DEF RunStep, Start, FetchList, Snapshot, Fail, Skip, FetchDetail, FetchBlank, DeferDetail, FetchPdf,
        Store, DeferFlight, DeferQuarantine, DeferCommitted, DeferCurrent, Land, Cooldown, Finish, Abandon,
        TypeOK, RunTypeOK
    <3>2. todo'[q] = todo[q] /\ deferred'[q] = deferred[q] /\ cur'[q] = cur[q]
      BY <1>2, <2>2 DEF RunStep, Start, FetchList, Snapshot, Fail, Skip, FetchDetail, FetchBlank, DeferDetail, FetchPdf,
        Store, DeferFlight, DeferQuarantine, DeferCommitted, DeferCurrent, Land, Cooldown, Finish, Abandon,
        TypeOK, RunTypeOK
    <3>3. count'[q] = count[q]
      BY <1>2, <2>2 DEF RunStep, Start, FetchList, Snapshot, Fail, Skip, FetchDetail, FetchBlank, DeferDetail, FetchPdf,
        Store, DeferFlight, DeferQuarantine, DeferCommitted, DeferCurrent, Cooldown, Finish, Abandon,
        TypeOK, CountTypeOK
    <3>. QED BY <3>1, <3>2, <3>3, TallyOwn DEF TallyOK
  <2>. QED BY <2>1, <2>2 DEF TallyOK
<1>. QED BY <1>1, <1>2 DEF Next

\* The counters of a closed audit row account for every disclosure of its list
\* that was not lost, once each, for any number of overlapping runs and
\* whatever was deferred, retried, or committed without an answer.
THEOREM AuditRowAddsUp == ASSUME IsFiniteSet(Disc) PROVE Spec => []AuditAddsUp
<1>1. Init => TallyOK
  BY DEF Init, TallyOK, Tally, Sweeping
<1>2. IInv /\ TallyOK /\ [Next]_vars => TallyOK'
  BY TallyKeeps DEF IInv
<1>3. IInv /\ TallyOK => AuditAddsUp
  <2>1. SUFFICES ASSUME IInv, TallyOK, NEW r \in Run, status[r] \in {"SUCCESS", "PARTIAL"}
        PROVE  LET handled == Cardinality(Listed(r)) - Cardinality(deferred[r])
               IN /\ count[r].updated + count[r].skipped <= handled
                  /\ handled <= count[r].inserted + count[r].updated + count[r].skipped
    BY DEF AuditAddsUp
  <2>2. pc[r] = "done" /\ todo[r] = {}
    BY <2>1 DEF TallyOK, Tally
  <2>3. Outstanding(r) = Cardinality(deferred[r])
    BY <2>1, <2>2, FiniteTally, FS_EmptySet DEF Outstanding, IInv
  <2>. QED BY <2>1, <2>3, FiniteTally DEF TallyOK, Tally, IInv
<1>. QED BY <1>1, <1>2, <1>3, Invariant, PTL DEF Spec

-----------------------------------------------------------------------------
(* What is counted is there *)

\* A counter that grows adds as much to the sum.
LEMMA SumGrows ==
    ASSUME NEW f, IsFiniteSet(Units(f)), NEW x \in DOMAIN f, f[x] \in Nat, NEW n \in Nat,
           NEW g, DOMAIN g = DOMAIN f, g[x] = f[x] + n, \A y \in DOMAIN f \ {x} : g[y] = f[y]
    PROVE  IsFiniteSet(Units(g)) /\ SumOf(g) = SumOf(f) + n
<1> DEFINE A == Units(f)
           I == (f[x] + 1)..(f[x] + n)
           B == {x} \X I
<1>1. IsFiniteSet(I) /\ Cardinality(I) = n
  <2>1. PICK a, b \in Int : a = f[x] + 1 /\ b = f[x] + n
    OBVIOUS
  <2>2. IsFiniteSet(a..b) /\ Cardinality(a..b) = IF a > b THEN 0 ELSE b - a + 1
    BY FS_Interval
  <2>3. (IF a > b THEN 0 ELSE b - a + 1) = n
    BY <2>1
  <2>. QED BY <2>1, <2>2, <2>3
<1>2. IsFiniteSet(B) /\ Cardinality(B) = n
  <2> HIDE DEF I
  <2>1. IsFiniteSet({x}) /\ Cardinality({x}) = 1
    BY FS_Singleton
  <2>. QED BY <1>1, <2>1, FS_Product
<1>3. Units(g) = A \cup B
  <2>1. \A y \in DOMAIN f \ {x} : {y} \X (1..g[y]) = {y} \X (1..f[y])
    OBVIOUS
  <2>2. {x} \X (1..g[x]) = ({x} \X (1..f[x])) \cup B
    <3>1. 1..g[x] = (1..f[x]) \cup I
      OBVIOUS
    <3>. HIDE DEF I
    <3>. QED BY <3>1
  <2>3. \A u : u \in Units(g) <=> \E y \in DOMAIN f : u \in {y} \X (1..g[y])
    BY DEF Units
  <2>4. \A u : u \in A <=> \E y \in DOMAIN f : u \in {y} \X (1..f[y])
    BY DEF Units
  <2>. HIDE DEF A, B
  <2>. QED BY <2>1, <2>2, <2>3, <2>4
<1>4. A \cap B = {}
  <2>1. SUFFICES ASSUME NEW u \in A, u \in B PROVE FALSE
    OBVIOUS
  <2>2. PICK y \in DOMAIN f : u \in {y} \X (1..f[y])
    BY DEF Units
  <2>3. y = x
    BY <2>1, <2>2
  <2>4. u[2] \in 1..f[x] /\ u[2] \in I
    BY <2>1, <2>2, <2>3
  <2>. QED BY <2>4
<1>5. IsFiniteSet(A) /\ Cardinality(A) \in Nat
  BY FS_CardinalityType
<1>. HIDE DEF A, B
<1>6. IsFiniteSet(A \cup B) /\ Cardinality(A \cup B) = Cardinality(A) + n - Cardinality({})
  BY <1>2, <1>4, <1>5, FS_Union
<1>. QED BY <1>3, <1>5, <1>6, FS_EmptySet DEF SumOf, A

Claims == [r \in Run |-> count[r].inserted]

\* NothingCountedTwice, of finite tables.
ClaimsOK ==
    /\ IsFiniteSet(Stored) /\ IsFiniteSet(txs) /\ IsFiniteSet(Units(Claims))
    /\ NothingCountedTwice

LEMMA RowsType ==
    ASSUME IsFiniteSet(Stored), emptyId \in BOOLEAN
    PROVE  Rows \in Nat /\ Cardinality(Stored) \in Nat
BY FS_CardinalityType DEF Rows

\* Tables that grow with the claims as they are cover them.
LEMMA ClaimsCovered ==
    ASSUME ClaimsOK, TypeOK, TypeOK', Claims' = Claims, repaired' = repaired,
           Stored \subseteq Stored', txs \subseteq txs', IsFiniteSet(Stored'), IsFiniteSet(txs'),
           emptyId => emptyId'
    PROVE  ClaimsOK'
<1> DEFINE old == Cardinality(Stored)
           new == Cardinality(Stored')
           e == IF emptyId THEN 1 ELSE 0
           f == IF emptyId' THEN 1 ELSE 0
<1>1. old <= new /\ Cardinality(txs) <= Cardinality(txs')
  BY FS_Subset
<1>2. /\ old \in Nat /\ new \in Nat
      /\ Cardinality(txs) \in Nat /\ Cardinality(txs') \in Nat
      /\ SumOf(Claims) \in Nat /\ repaired \in Nat
  BY FS_CardinalityType DEF ClaimsOK, SumOf, TypeOK, RepairTypeOK
<1>3. SumOf(Claims) + repaired <= Rows + Cardinality(txs)
  BY DEF ClaimsOK, NothingCountedTwice, Claims
<1>4. Rows = old + e /\ Rows' = new + f
  BY DEF Rows
<1>5. e \in Nat /\ f \in Nat /\ e <= f
  BY DEF TypeOK, StoreTypeOK
<1>. HIDE DEF old, new, e, f
<1>6. SumOf(Claims') + repaired' <= Rows' + Cardinality(txs')
  BY <1>1, <1>2, <1>3, <1>4, <1>5
<1>. QED BY <1>6 DEF ClaimsOK, NothingCountedTwice, Claims

\* What is new among some trades is what they add to the table.
LEMMA NewTradesAdd ==
    ASSUME IsFiniteSet(txs), NEW d, NEW keys, IsFiniteSet(keys)
    PROVE  /\ IsFiniteSet(txs \cup ({d} \X keys))
           /\ Cardinality(txs \cup ({d} \X keys)) = Cardinality(txs) + NewTrades(d, keys)
           /\ Cardinality(txs) \in Nat /\ NewTrades(d, keys) \in Nat
<1> DEFINE N == ({d} \X keys) \ txs
<1>1. IsFiniteSet({d} \X keys)
  BY FS_Singleton, FS_Product
<1>2. IsFiniteSet(N)
  BY <1>1, FS_Difference
<1>3. txs \cup ({d} \X keys) = txs \cup N /\ txs \cap N = {}
  OBVIOUS
<1>4. Cardinality(N) = NewTrades(d, keys)
  BY DEF NewTrades
<1>. HIDE DEF N
<1>5. IsFiniteSet(txs \cup N) /\ Cardinality(txs \cup N) = Cardinality(txs) + Cardinality(N) - Cardinality({})
  BY <1>2, <1>3, FS_Union
<1>6. Cardinality(txs) \in Nat /\ Cardinality(N) \in Nat /\ Cardinality({}) = 0
  BY <1>2, FS_EmptySet, FS_CardinalityType
<1>7. Cardinality(txs \cup N) = Cardinality(txs) + Cardinality(N)
  BY <1>5, <1>6
<1>. QED BY <1>3, <1>4, <1>5, <1>6, <1>7

\* A commit adds the rows it reports as new, and no others.
LEMMA CommitAdds ==
    ASSUME TypeOK, ClaimsOK, NEW r \in Run, pc[r] = "store", CommitFiling(r)
    PROVE  /\ Stored \subseteq Stored' /\ txs \subseteq txs' /\ IsFiniteSet(Stored') /\ IsFiniteSet(txs')
           /\ emptyId => emptyId'
           /\ NewTrades(cur[r], Parsed(r)) \in Nat
           /\ Rows \in Nat /\ Cardinality(txs) \in Nat
           /\ Cardinality(txs') = Cardinality(txs) + NewTrades(cur[r], Parsed(r))
           /\ Rows' = Rows + IF Created(r) THEN 1 ELSE 0
<1>1. /\ cur[r] \in Disc
      /\ got[r] # 0 => Stored' = Stored \cup {cur[r]}
      /\ got[r] = 0 => Stored' = Stored
  BY CommitStores
<1>2. IsFiniteSet(Parsed(r))
  BY <1>1, ParsedType
<1>3. txs' = txs \cup ({cur[r]} \X Parsed(r)) /\ emptyId' = (emptyId \/ got[r] = 0)
  BY DEF CommitFiling
<1>4. IsFiniteSet(Stored) /\ IsFiniteSet(txs) /\ emptyId \in BOOLEAN
  BY DEF ClaimsOK, TypeOK, StoreTypeOK
<1>5. Rows \in Nat /\ Cardinality(Stored) \in Nat
  BY <1>4, RowsType
<1>6. IsFiniteSet(Stored') /\ Rows' = Rows + IF Created(r) THEN 1 ELSE 0
  <2>1. CASE got[r] = 0
    <3>1. Stored' = Stored /\ emptyId' = TRUE
      BY <1>1, <1>3, <2>1
    <3>2. Rows' = Cardinality(Stored) + 1
      BY <3>1 DEF Rows
    <3>. QED BY <1>4, <1>5, <2>1, <3>1, <3>2 DEF Rows, Created
  <2>2. CASE got[r] # 0
    <3>1. cur[r] \in Stored <=> row[cur[r]] # 0
      BY <1>1 DEF Stored
    <3>2. /\ IsFiniteSet(Stored')
          /\ Cardinality(Stored') = IF cur[r] \in Stored THEN Cardinality(Stored) ELSE Cardinality(Stored) + 1
      BY <1>1, <1>4, <2>2, FS_AddElement
    <3>3. emptyId' = emptyId
      BY <1>3, <1>4, <2>2
    <3>4. Rows' = Cardinality(Stored') + IF emptyId THEN 1 ELSE 0
      BY <3>3 DEF Rows
    <3>. QED BY <1>5, <2>2, <3>1, <3>2, <3>4 DEF Rows, Created
  <2>. QED BY <2>1, <2>2
<1>7. /\ IsFiniteSet(txs') /\ Cardinality(txs) \in Nat /\ NewTrades(cur[r], Parsed(r)) \in Nat
      /\ Cardinality(txs') = Cardinality(txs) + NewTrades(cur[r], Parsed(r))
  BY <1>2, <1>3, <1>4, NewTradesAdd
<1>8. Stored \subseteq Stored' /\ txs \subseteq txs' /\ (emptyId => emptyId')
  BY <1>1, <1>3
<1>. QED BY <1>5, <1>6, <1>7, <1>8

LEMMA StoreClaims == ASSUME TypeOK, ClaimsOK, NEW r \in Run, Store(r) PROVE ClaimsOK'
<1> DEFINE t == NewTrades(cur[r], Parsed(r))
           c == IF Created(r) THEN 1 ELSE 0
           n == t + c
<1>1. pc[r] = "store" /\ CommitFiling(r) /\ repaired' = repaired
  BY DEF Store
<1>2. /\ IsFiniteSet(Stored') /\ IsFiniteSet(txs')
      /\ t \in Nat /\ Rows \in Nat /\ Cardinality(txs) \in Nat
      /\ Cardinality(txs') = Cardinality(txs) + t
      /\ Rows' = Rows + c
  BY <1>1, CommitAdds
<1>3. count[r].inserted \in Nat /\ repaired \in Nat
  BY DEF TypeOK, CountTypeOK, RepairTypeOK
<1>4. count'[r].inserted = count[r].inserted + t + c /\ \A q \in Run \ {r} : count'[q] = count[q]
  BY DEF Store, TypeOK, CountTypeOK
<1>5. c \in Nat
  OBVIOUS
<1>. HIDE DEF t, c
<1>6. n \in Nat /\ count'[r].inserted = count[r].inserted + n
  BY <1>2, <1>3, <1>4, <1>5
<1>7. /\ DOMAIN Claims = Run /\ DOMAIN Claims' = Run
      /\ Claims[r] \in Nat /\ Claims'[r] = Claims[r] + n
      /\ \A q \in Run \ {r} : Claims'[q] = Claims[q]
  BY <1>3, <1>4, <1>6 DEF Claims
<1>8. IsFiniteSet(Units(Claims))
  BY DEF ClaimsOK
<1>. HIDE DEF n
<1>9. IsFiniteSet(Units(Claims')) /\ SumOf(Claims') = SumOf(Claims) + n /\ SumOf(Claims) \in Nat
  BY <1>6, <1>7, <1>8, SumGrows, FS_CardinalityType DEF SumOf
<1>10. SumOf(Claims) + repaired <= Rows + Cardinality(txs)
  BY DEF ClaimsOK, NothingCountedTwice, Claims
<1>11. SumOf(Claims') + repaired' <= Rows' + Cardinality(txs')
  BY <1>1, <1>2, <1>3, <1>5, <1>9, <1>10 DEF n
<1>. QED BY <1>2, <1>9, <1>11 DEF ClaimsOK, NothingCountedTwice, Claims

LEMMA RepairClaims == ASSUME TypeOK, RepairOK, ClaimsOK, RepairCommit PROVE ClaimsOK'
<1> DEFINE keys == Parse(<<repair.cur, repair.got>>, repair.better)
           t == NewTrades(repair.cur, keys)
<1>1. /\ txs' = txs \cup ({repair.cur} \X keys) /\ repaired' = repaired + t
      /\ UNCHANGED <<row, emptyId, count>>
  BY DEF RepairCommit
<1>2. IsFiniteSet(keys)
  BY ParseType DEF RepairCommit, RepairOK, TypeOK, RepairTypeOK
<1>. HIDE DEF keys
<1>3. IsFiniteSet(txs') /\ Cardinality(txs') = Cardinality(txs) + t /\ Cardinality(txs) \in Nat /\ t \in Nat
  BY <1>1, <1>2, NewTradesAdd DEF ClaimsOK
<1>4. Stored' = Stored /\ Rows' = Rows /\ Claims' = Claims
  BY <1>1 DEF Stored, Rows, Claims
<1>. HIDE DEF t
<1>5. SumOf(Claims) \in Nat /\ repaired \in Nat /\ Rows \in Nat
  BY RowsType, FS_CardinalityType DEF ClaimsOK, SumOf, TypeOK, StoreTypeOK, RepairTypeOK
<1>6. SumOf(Claims) + repaired <= Rows + Cardinality(txs)
  BY DEF ClaimsOK, NothingCountedTwice, Claims
<1>7. SumOf(Claims') + repaired' <= Rows' + Cardinality(txs')
  BY <1>1, <1>3, <1>4, <1>5, <1>6
<1>. QED BY <1>3, <1>4, <1>7 DEF ClaimsOK, NothingCountedTwice, Claims

LEMMA ClaimsKeep == ASSUME TypeOK, ListOK, RepairOK, ClaimsOK, [Next]_vars PROVE ClaimsOK'
<1>. TypeOK'
  BY TypeKeeps
<1>1. CASE UNCHANGED <<row, txs, emptyId, repaired>> /\ Claims' = Claims
  <2>1. Stored' = Stored
    BY <1>1 DEF Stored
  <2>. QED BY <1>1, <2>1, ClaimsCovered DEF ClaimsOK
<1>2. ASSUME NEW r \in Run, DeferCommitted(r) \/ Abandon(r) PROVE ClaimsOK'
  <2>1. Claims' = Claims /\ repaired' = repaired
    BY <1>2 DEF DeferCommitted, DeferCurrent, Abandon, Claims
  <2>2. CASE UNCHANGED <<row, txs, emptyId>>
    BY <1>1, <2>1, <2>2
  <2>3. CASE pc[r] = "store" /\ CommitFiling(r)
    BY <2>1, <2>3, CommitAdds, ClaimsCovered
  <2>. QED BY <1>2, <2>2, <2>3 DEF DeferCommitted, Abandon, WriteCut
<1>3. CASE World \/ (Repair /\ ~RepairCommit) \/ UNCHANGED vars
  BY <1>1, <1>3 DEF World, DeployParser, Publish, Repair, RepairStart, RepairKeep, RepairRead,
    RepairUnlink, RepairStop, vars, Claims
<1>4. ASSUME NEW r \in Run, RunStep(r), ~Store(r), ~DeferCommitted(r) PROVE ClaimsOK'
  <2>1. UNCHANGED <<row, txs, emptyId>>
    BY <1>4, QuietSteps DEF RunStep
  <2>2. repaired' = repaired
    BY <1>4 DEF RunStep, Start, FetchList, Snapshot, Fail, Skip, FetchDetail, FetchBlank, DeferDetail, FetchPdf,
        DeferFlight, DeferQuarantine, DeferCurrent, Cooldown, Finish
  <2>3. \A q \in Run : count'[q].inserted = count[q].inserted
    BY <1>4 DEF RunStep, Start, FetchList, Snapshot, Fail, Skip, FetchDetail, FetchBlank, DeferDetail, FetchPdf,
        DeferFlight, DeferQuarantine, DeferCurrent, Cooldown, Finish, TypeOK, CountTypeOK
  <2>4. Claims' = Claims
    BY <2>3 DEF Claims
  <2>. QED BY <1>1, <2>1, <2>2, <2>4
<1>. QED BY <1>2, <1>3, <1>4, StoreClaims, RepairClaims DEF Next, Repair

\* What all audit rows and repairs report as inserted is in the two tables,
\* for any number of overlapping runs, and however retries, corrections and
\* lost commit answers interleave.
THEOREM CountedOnce == Spec => []NothingCountedTwice
<1>1. Init => ClaimsOK
  <2>1. SUFFICES ASSUME Init PROVE ClaimsOK
    OBVIOUS
  <2>2. Stored = {} /\ txs = {} /\ emptyId = FALSE /\ repaired = 0
    BY <2>1 DEF Init, Stored
  <2>3. Units(Claims) = {}
    BY <2>1 DEF Init, Units, Claims, ZeroCount
  <2>. QED BY <2>2, <2>3, FS_EmptySet DEF ClaimsOK, NothingCountedTwice, Rows, SumOf, Claims
<1>2. IInv /\ ClaimsOK /\ [Next]_vars => ClaimsOK'
  BY ClaimsKeep DEF IInv
<1>3. ClaimsOK => NothingCountedTwice
  BY DEF ClaimsOK
<1>. QED BY <1>1, <1>2, <1>3, Invariant, PTL DEF Spec

-----------------------------------------------------------------------------
(* The refinement of AuditedStore *)

Promised == [r \in Run |-> Listed(r)]

LEMMA InitRefines == Init => Audited!AbstractInit
BY DEF Init, Audited!AbstractInit, Stored, Listed

\* Every step is a step of the abstract ingest, or changes nothing of it.
LEMMA StepRefines == ASSUME IInv, [Next]_vars PROVE [Audited!AbstractNext]_(Audited!abstractVars)
<1> DEFINE Silent == UNCHANGED <<Stored, Promised, blank, status>>
           Step == [Audited!AbstractNext]_(Audited!abstractVars)
<1>1. Silent => Step
  BY DEF Promised, Audited!abstractVars
<1>2. CASE World \/ Repair \/ UNCHANGED vars
  BY <1>1, <1>2, OutsideSteps DEF Stored, Promised, Listed
<1>3. ASSUME NEW r \in Run, pc[r] = "store", CommitFiling(r), UNCHANGED <<status, listed, blank>> PROVE Step
  <2>1. Promised' = Promised
    BY <1>3 DEF Promised, Listed
  <2>2. CASE got[r] = 0
    <3>1. Stored' = Stored
      BY <1>3, <2>2, CommitStores DEF IInv
    <3>. QED BY <1>1, <1>3, <2>1, <3>1
  <2>3. CASE got[r] # 0
    <3>1. cur[r] \in Disc /\ Stored' = Stored \cup {cur[r]}
      BY <1>3, <2>3, CommitStores DEF IInv
    <3>2. Audited!Learn(cur[r])
      BY <1>3, <2>1, <3>1 DEF Audited!Learn, Promised
    <3>. QED BY <3>1, <3>2 DEF Audited!AbstractNext
  <2>. QED BY <2>2, <2>3
<1>4. ASSUME NEW r \in Run, RunStep(r) \/ Abandon(r) PROVE Step
  <2>1. CASE Start(r)
    <3>1. Audited!Begin(r)
      BY <2>1 DEF Start, Audited!Begin, IInv, Phases, Stored, Listed
    <3>. QED BY <3>1 DEF Audited!AbstractNext
  <2>2. CASE FetchList(r)
    <3>1. status[r] = "RUNNING" /\ Listed(r) = {}
      BY <2>2 DEF FetchList, IInv, Phases, ListOK
    <3>2. Promised' = [Promised EXCEPT ![r] = Listed(r)']
      BY <2>2 DEF FetchList, IInv, TypeOK, RunTypeOK, Promised, Listed
    <3>3. Listed(r)' \in SUBSET Disc
      BY DEF Listed
    <3>4. Audited!Promise(r)
      BY <2>2, <3>1, <3>2, <3>3 DEF FetchList, Audited!Promise, Promised, Stored
    <3>. QED BY <3>4 DEF Audited!AbstractNext
  <2>3. CASE Fail(r) \/ Finish(r)
    <3>1. status[r] = "RUNNING" /\ UNCHANGED <<row, listed, blank>>
      BY <2>3 DEF Fail, Finish, IInv, Phases
    <3>2. ASSUME Fail(r) PROVE Audited!Close(r)
      <4>1. status' = [status EXCEPT ![r] = "FAILED"] /\ "FAILED" \in Audited!Closed
        BY <3>2 DEF Fail, Audited!Closed
      <4>. QED BY <3>1, <4>1 DEF Audited!Close, Listed, Stored
    <3>3. ASSUME Finish(r) PROVE Audited!Close(r)
      <4>1. deferred[r] = {} => Listed(r) \subseteq Stored \cup blank[r]
        BY <3>3 DEF Finish, IInv, SweepOK, InFlight
      <4>2. CASE deferred[r] = {}
        <5>1. status' = [status EXCEPT ![r] = "SUCCESS"] /\ "SUCCESS" \in Audited!Closed
          BY <3>3, <4>2 DEF Finish, Audited!Closed
        <5>. QED BY <3>1, <4>1, <4>2, <5>1 DEF Audited!Close, Listed, Stored
      <4>3. CASE deferred[r] # {}
        <5>1. status' = [status EXCEPT ![r] = "PARTIAL"] /\ "PARTIAL" \in Audited!Closed
          BY <3>3, <4>3 DEF Finish, Audited!Closed
        <5>. QED BY <3>1, <5>1 DEF Audited!Close, Listed, Stored
      <4>. QED BY <4>2, <4>3
    <3>4. Audited!Close(r)
      BY <2>3, <3>2, <3>3
    <3>. QED BY <3>4 DEF Audited!AbstractNext
  <2>4. CASE Store(r) \/ DeferCommitted(r)
    BY <1>3, <2>4 DEF Store, DeferCommitted, DeferCurrent
  <2>5. CASE Abandon(r)
    BY <1>1, <1>3, <2>5 DEF Abandon, WriteCut, Stored, Promised, Listed
  <2>6. ASSUME NEW d \in Disc, FetchBlank(r, d) PROVE Step
    <3>1. status[r] = "RUNNING" /\ d \in Listed(r)
      BY <2>6 DEF FetchBlank, IInv, Phases, ListOK
    <3>2. Audited!AskInVain(r)
      BY <2>6, <3>1 DEF FetchBlank, Audited!AskInVain, Stored, Listed
    <3>. QED BY <3>2 DEF Audited!AbstractNext
  <2>7. CASE \/ Snapshot(r) \/ Cooldown(r) \/ FetchPdf(r) \/ DeferFlight(r) \/ DeferQuarantine(r)
             \/ \E d \in Disc : Skip(r, d) \/ FetchDetail(r, d) \/ DeferDetail(r, d)
    <3>1. UNCHANGED row
      BY <2>7, QuietSteps
    <3>2. UNCHANGED <<listed, blank, status>>
      BY <2>7 DEF Snapshot, Cooldown, FetchPdf, DeferFlight, DeferQuarantine, DeferCurrent,
        Skip, FetchDetail, DeferDetail
    <3>. QED BY <1>1, <3>1, <3>2 DEF Stored, Promised, Listed
  <2>. QED BY <1>4, <2>1, <2>2, <2>3, <2>4, <2>5, <2>6, <2>7 DEF RunStep
<1>. QED BY <1>2, <1>4 DEF Next

\* The ingest implements the audited store: SUCCESS is only ever written once
\* the promise of the run is kept, and what is stored is never lost.
THEOREM IngestIsAudited == Spec => AuditedSpec
BY InitRefines, StepRefines, Invariant, PTL DEF Spec, AuditedSpec, Audited!AbstractSpec

\* The abstract ingest keeps its word, for any store that begins empty: SUCCESS
\* is only written once the promise is kept, promises are made once, before,
\* and the store never loses a disclosure.
THEOREM PromiseKept == AuditedSpec => [](Audited!AbstractTypeOK /\ Audited!SuccessKeepsItsPromise)
<1> DEFINE Kept == Audited!AbstractTypeOK /\ Audited!SuccessKeepsItsPromise
<1> USE DEF Audited!AbstractTypeOK, Audited!SuccessKeepsItsPromise, Audited!Closed
<1>1. Audited!AbstractInit => Kept
  BY DEF Audited!AbstractInit
<1>2. ASSUME Kept, [Audited!AbstractNext]_(Audited!abstractVars) PROVE Kept'
  <2>1. ASSUME NEW r \in Run, Audited!Begin(r) PROVE Kept'
    BY <1>2, <2>1 DEF Audited!Begin
  <2>2. ASSUME NEW r \in Run, Audited!Promise(r) PROVE Kept'
    BY <1>2, <2>2 DEF Audited!Promise
  <2>3. ASSUME NEW r \in Run, Audited!Close(r) PROVE Kept'
    BY <1>2, <2>3 DEF Audited!Close
  <2>4. ASSUME NEW d \in Disc, Audited!Learn(d) PROVE Kept'
    BY <1>2, <2>4 DEF Audited!Learn
  <2>5. ASSUME NEW r \in Run, Audited!AskInVain(r) PROVE Kept'
    BY <1>2, <2>5 DEF Audited!AskInVain
  <2>6. CASE UNCHANGED Audited!abstractVars
    BY <1>2, <2>6 DEF Audited!abstractVars
  <2>. QED BY <1>2, <2>1, <2>2, <2>3, <2>4, <2>5, <2>6 DEF Audited!AbstractNext
<1> HIDE DEF Audited!AbstractTypeOK, Audited!SuccessKeepsItsPromise, Audited!Closed
<1>. QED BY <1>1, <1>2, PTL DEF AuditedSpec, Audited!AbstractSpec

=============================================================================
