---------------------------- MODULE VictorDriver ----------------------------
(***************************************************************************)
(* The driver above the vehicle: VictorDriver, TopologicalVictorDriver and *)
(* VictorSovereignDriver, with the outcome resolver and the route learning *)
(* of the topology kernel.  One process with one owner; every command is   *)
(* one step, except that a kill may leave a snapshot half rewritten.       *)
(*                                                                         *)
(* Abstractions.  Of the Chronos ledger is kept how its history relates to *)
(* the one saved in the snapshot.  Identity signatures, the lease's        *)
(* actions and the world model's graph change no other state.              *)
(***************************************************************************)
EXTENDS Vehicle, Sequences

CONSTANTS
    Qualities,      \* what an artifact may turn out to be
    Ledgers,        \* "file": the ledger persists; "empty": it is in memory
    MaxMissions,    \* bound: missions with a route
    MaxTroubles     \* bound: rejections, kills, saves, loads, pauses and
                    \* continues while somebody works, all together

ASSUME DriverAssumption ==
    /\ Qualities \subseteq Artifacts /\ "good" \in Qualities
    /\ Ledgers \subseteq {"file", "empty"}
    /\ {MaxMissions, MaxTroubles} \subseteq Nat

VARIABLES
    vehicle,      \* DriverControlledVille
    mission,      \* MissionState, or NoMission
    paused,       \* the scheduler is paused
    predictions,  \* OutcomeResolver.predictions: by id, what became of each
    active,       \* active_prediction_id; 0 for None
    activeRoute,  \* the route class of active_route; "none" without a plan
    learned,      \* LearningEdgeUpdater: the outcomes recorded, in order
    calibrated,   \* ConfidenceCalibrator: the resolutions recorded
    file,         \* the snapshot on disk
    ledger,       \* "file", "empty", "continues" the snapshot's, "other"
    used          \* how much of each bound was used

driverVars == <<vehicle, mission, paused, predictions, active, activeRoute,
                learned, calibrated, file, ledger, used>>
topology == <<predictions, active, activeRoute, learned, calibrated>>

Ids == 1..MaxMissions
NoMission == [directive |-> NoDirective, status |-> "none"]
NoPrediction == [route |-> "none", outcome |-> "none"]
NoFile == [level |-> 0]
Observed == IF ledger = "empty" THEN "other" ELSE ledger
HasProject == vehicle.project.directive # NoDirective

Attempts(r) == Cardinality({i \in DOMAIN learned : learned[i].route = r})
Successes(r) ==
    Cardinality({i \in DOMAIN learned : learned[i].route = r /\ learned[i].success})
LearnedRates == [r \in Routes |-> Preference(Attempts(r), Successes(r))]

Trouble ==
    /\ used.troubles < MaxTroubles
    /\ used' = [used EXCEPT !.troubles = @ + 1]

Init ==
    /\ vehicle = NewVehicle
    /\ mission = NoMission
    /\ paused = FALSE
    /\ predictions = [i \in Ids |-> NoPrediction]
    /\ active = 0
    /\ activeRoute = "none"
    /\ learned = <<>>
    /\ calibrated = <<>>
    /\ file = NoFile
    /\ ledger \in Ledgers
    /\ used = [missions |-> 0, troubles |-> 0]

(* start_project: no route, the mission is halted, the project stays.      *)
RejectRoute(d) ==
    /\ Chosen(d, LearnedRates) = NoPlan
    /\ Trouble
    /\ mission' = [directive |-> d, status |-> "halted"]
    /\ activeRoute' = "none"
    /\ ledger' = Observed
    /\ UNCHANGED <<vehicle, paused, predictions, active, learned, calibrated, file>>

(* start_project: the plan goes to the vehicle, a prediction is registered. *)
StartProject(d) ==
    LET plan == Chosen(d, LearnedRates)
        id == used.missions + 1
    IN  /\ plan # NoPlan
        /\ id \in Ids
        /\ used' = [used EXCEPT !.missions = id]
        /\ vehicle' = StartFromPlan(vehicle, d, plan)
        /\ mission' = [directive |-> d, status |-> "running"]
        /\ predictions' = [predictions EXCEPT
                ![id] = [route |-> plan.name, outcome |-> "open"]]
        /\ active' = id
        /\ activeRoute' = plan.name
        /\ ledger' = Observed
        /\ UNCHANGED <<paused, learned, calibrated, file>>

UnresolvedAlways == active # 0                     \* mutant: resolved twice

Unresolved == active # 0 /\ predictions[active].outcome = "open"

(* Mutant: without a look at the active plan.                              *)
LearnAlways(success) ==
    Append(learned, [id |-> active, route |-> activeRoute, success |-> success])

(* LearningEdgeUpdater.record, under the route that is active now.         *)
Learn(success) ==
    IF activeRoute = "none" THEN learned
    ELSE Append(learned, [id |-> active, route |-> activeRoute, success |-> success])

(* _resolve_route_once, resolve_active_route, OutcomeResolver.resolve.     *)
ResolveRoute(success) ==
    IF Unresolved
    THEN /\ predictions' = [predictions EXCEPT
                ![active].outcome = IF success THEN "verified" ELSE "halted"]
         /\ calibrated' = Append(calibrated, active)
         /\ learned' = Learn(success)
         /\ UNCHANGED <<active, activeRoute>>
    ELSE UNCHANGED topology

(* heartbeat: one work cycle; an exception of the vehicle ends it early.   *)
Heartbeat(ends, old, tested, first, second) ==
    /\ ~paused
    /\ mission # NoMission /\ HasProject
    /\ MayComplete(vehicle, ends, old)
    /\ ledger' = Observed
    /\ UNCHANGED <<paused, file, used>>
    /\ \E worked \in WorkCycle(vehicle, ends, old, tested, first, second) :
           /\ vehicle' = worked
           /\ IF BuildComplete(worked)
              THEN /\ mission' = [mission EXCEPT !.status = "complete"]
                   /\ ResolveRoute(TRUE)
              ELSE UNCHANGED mission /\ UNCHANGED topology

(* heartbeat while paused: only a finished build is noticed.               *)
PausedHeartbeat ==
    /\ paused /\ BuildComplete(vehicle)
    /\ ResolveRoute(TRUE)
    /\ ledger' = Observed
    /\ UNCHANGED <<vehicle, mission, paused, file, used>>

(* run: max_cycles heartbeats did not finish the build.                    *)
ExhaustRun ==
    /\ mission # NoMission /\ (paused \/ HasProject)
    /\ ~BuildComplete(vehicle)
    /\ mission' = [mission EXCEPT !.status = "halted"]
    /\ ResolveRoute(FALSE)
    /\ ledger' = Observed
    /\ UNCHANGED <<vehicle, paused, file, used>>

(* Nobody holds a task of an unfinished project that he could bring to its *)
(* end: none after a load, or only a beta test that waits for artifacts.   *)
Stalled ==
    /\ ~BuildComplete(vehicle)
    /\ Endable(vehicle, vehicle.held) = {}

Continue ==
    /\ HasProject
    /\ IF Stalled THEN UNCHANGED used ELSE Trouble
    /\ vehicle' = ContinueProject(vehicle)
    /\ ledger' = Observed
    /\ UNCHANGED <<mission, paused, topology, file>>

Pause ==
    /\ ~paused
    /\ Trouble
    /\ paused' = TRUE
    /\ ledger' = Observed
    /\ UNCHANGED <<vehicle, mission, topology, file>>

Unpause ==
    /\ paused
    /\ paused' = FALSE
    /\ ledger' = Observed
    /\ UNCHANGED <<vehicle, mission, topology, file, used>>

(* The snapshot after so many of its rewrites: the company's, the machine  *)
(* labor section, the driver's, the topology's.                            *)
Snapshot(level) ==
    [level |-> level, project |-> vehicle.project, calibrated |-> calibrated,
     mission |-> mission, paused |-> paused, predictions |-> predictions,
     active |-> active, learned |-> learned]

Save ==
    /\ HasProject
    /\ Trouble
    /\ file' = Snapshot(4)
    /\ ledger' = IF ledger = "file" THEN ledger ELSE "continues"
    /\ UNCHANGED <<vehicle, mission, paused, topology>>

(* The process is killed, between two rewrites of the snapshot or outside  *)
(* save_project; the next one starts.                                      *)
Kill ==
    /\ Trouble
    /\ \/ UNCHANGED file
       \/ /\ HasProject
          /\ \E level \in 0..3 :
                file' = IF level = 0 THEN NoFile ELSE Snapshot(level)
    /\ vehicle' = NewVehicle
    /\ mission' = NoMission
    /\ paused' = FALSE
    /\ predictions' = [i \in Ids |-> NoPrediction]
    /\ active' = 0 /\ activeRoute' = "none"
    /\ learned' = <<>> /\ calibrated' = <<>>
    /\ ledger' = IF ledger = "file" THEN ledger ELSE "empty"

(* Project.from_dict: new task dictionaries, held by no agent.             *)
Restored(receipts) ==
    [vehicle EXCEPT !.project = [file.project EXCEPT !.receipts = receipts],
                    !.held = {}, !.stale = Orphaned(vehicle)]

(* load_project: without the machine section the receipts in memory stay,  *)
(* which may or may not have the numbers of the tickets that were read.    *)
Load ==
    /\ file.level > 0
    /\ Trouble
    /\ ~(file.level >= 2 /\ ledger = "other")
    /\ \E kept \in {{}, vehicle.project.receipts} :
            vehicle' = Restored(IF file.level >= 2 THEN file.project.receipts ELSE kept)
    /\ calibrated' = IF file.level >= 2 THEN file.calibrated ELSE calibrated
    /\ IF file.level >= 3 /\ file.mission # NoMission
       THEN mission' = file.mission /\ paused' = file.paused
       ELSE /\ mission' = [directive |-> file.project.directive, status |-> "running"]
            /\ UNCHANGED paused
    /\ IF file.level = 4
       THEN /\ predictions' = file.predictions
            /\ active' = file.active
            /\ learned' = file.learned
       ELSE UNCHANGED <<predictions, active, learned>>
    /\ ledger' = IF ledger # "empty" THEN ledger
                 ELSE IF file.level >= 2 THEN "continues" ELSE "other"
    /\ UNCHANGED <<activeRoute, file>>

(* load_project refuses a history that is not a prefix of the ledger's,    *)
(* after the company has taken the project.                                *)
RefuseLoad ==
    /\ file.level >= 2 /\ ledger = "other"
    /\ Trouble
    /\ \E kept \in {{}, vehicle.project.receipts} : vehicle' = Restored(kept)
    /\ UNCHANGED <<mission, paused, topology, file, ledger>>

(* Only code tickets have their artifacts verified: the n-th supervisor    *)
(* meets one if so many are in review or come to it in this cycle.         *)
Inspected(ends, old, n) ==
    LET reviewed == {t \in CodeTypes \intersect Present(vehicle) :
            \/ t \in InReview(vehicle)
            \/ t \in {c[1] : c \in ends \union old} /\ vehicle.project.status[t] = "in_progress"}
    IN  IF Cardinality(reviewed) >= n THEN Qualities ELSE {"good"}

(* Whoever ends a beta test has his own report of it.                      *)
TestersOf(ends, old) == {c[2] : c \in {e \in ends \union old : e[1] = "beta_testing"}}
Reports(ends, old) == [TestersOf(ends, old) -> BOOLEAN]

AnyHeartbeat ==
    \E ends \in SUBSET vehicle.held, old \in SUBSET SameTitle(vehicle) :
    \E tested \in Reports(ends, old) :
    \E first \in Inspected(ends, old, 1), second \in Inspected(ends, old, 2) :
        Heartbeat(ends, old, tested, first, second)

Next ==
    \/ \E d \in Directives : RejectRoute(d) \/ StartProject(d)
    \/ AnyHeartbeat
    \/ PausedHeartbeat
    \/ ExhaustRun
    \/ Continue
    \/ Pause
    \/ Unpause
    \/ Save
    \/ Kill
    \/ Load
    \/ RefuseLoad

(* A cycle in which somebody who can finishes what he holds, if anybody    *)
(* can, and all evidence is good: cycles go on, efforts are finite and a   *)
(* task that failed is done again.                                         *)
GoodCycle ==
    LET own == Endable(vehicle, vehicle.held)
        same == Endable(vehicle, SameTitle(vehicle))
    IN  \E ends \in SUBSET own, old \in SUBSET same :
        /\ ends \union old = {} => own \union same = {}
        /\ Heartbeat(ends, old, [i \in TestersOf(ends, old) |-> TRUE], "good", "good")

(* The owner continues a project nobody makes progress on.                 *)
ContinueStalled == Stalled /\ Continue

Fairness == SF_driverVars(GoodCycle) /\ SF_driverVars(ContinueStalled)

Spec == Init /\ [][Next]_driverVars /\ Fairness

-----------------------------------------------------------------------------
Project == [directive : Directives \union {NoDirective}, types : SUBSET TaskTypes,
            status : [TaskTypes -> Statuses], full : SUBSET TaskTypes,
            assigned : SUBSET TaskTypes, receipts : SUBSET TaskTypes]
MissionStates == [directive : Directives \union {NoDirective},
                  status : {"none", "running", "halted", "complete"}]

DriverTypeOK ==
    /\ vehicle \in [project : Project, held : SUBSET Copies, stale : [Directives -> SUBSET Copies],
                    findings : SUBSET Directives,
                    beta : [Directives -> [Workers -> {"none", "passed", "failed"}]]]
    /\ mission \in MissionStates
    /\ paused \in BOOLEAN
    /\ predictions \in [Ids -> [route : Routes \union {"none"},
                                outcome : {"none", "open", "verified", "halted"}]]
    /\ active \in 0..MaxMissions
    /\ activeRoute \in Routes \union {"none"}
    /\ learned \in Seq([id : Ids, route : Routes, success : BOOLEAN])
    /\ calibrated \in Seq(Ids)
    /\ file.level \in 0..4
    /\ ledger \in {"file", "empty", "continues", "other"}

(* VICTOR_DRIVER.md "Phase law": a task leaves `open` only when the tickets *)
(* of its prerequisites are done, and they stay done, whatever continues,  *)
(* loads, rejected reviews, stale workers and half-written snapshots came  *)
(* in between.                                                             *)
DependencyGate ==
    \A t \in Present(vehicle) :
        vehicle.project.status[t] # "open" =>
            \A p \in Prerequisites[t] \intersect Present(vehicle) : Done(vehicle, p)

(* A prediction is resolved into the calibration and into what the routes  *)
(* learned at most once, and only with the outcome it got: halted runs     *)
(* that are resumed, repeated heartbeats on a finished build and reloaded  *)
(* snapshots do not count it again.                                        *)
OutcomesCountOnce ==
    /\ \A i, j \in DOMAIN calibrated : i # j => calibrated[i] # calibrated[j]
    /\ \A i, j \in DOMAIN learned : i # j => learned[i].id # learned[j].id
    /\ \A i \in DOMAIN learned :
            predictions[learned[i].id].outcome =
                IF learned[i].success THEN "verified" ELSE "halted"

(* The evidence the testing ticket needs is there: a snapshot whose        *)
(* machine labor section was never written brings back done tickets        *)
(* without their receipts, and the testing task waits for them forever.    *)
EvidenceHeld ==
    \A t \in CodeTypes \intersect Present(vehicle) :
        Done(vehicle, t) => t \in vehicle.project.receipts

Running == HasProject /\ mission # NoMission /\ ~paused /\ EvidenceHeld

(* A tester reports that the build passes, and the failure an earlier one  *)
(* of the roster reported is the report that is looked at.                 *)
Overruled ==
    /\ HasProject
    /\ LatestBetaReport(vehicle, vehicle.project.directive) = "failed"
    /\ \E i \in Workers : vehicle.beta[vehicle.project.directive][i] = "passed"

(* A project that keeps running is built, unless what one beta tester      *)
(* passes stays overruled by what another one failed: rejected reviews,    *)
(* verifications that blow up, tasks nobody holds after a load and         *)
(* duplicate workers delay it and never block it (work_cycle, the review   *)
(* of the supervisors and continue_project).                               *)
BuildCompletes == Running ~> (BuildComplete(vehicle) \/ ~Running \/ Overruled)
=============================================================================
