------------------------ MODULE VictorDriver_proofs -------------------------
(***************************************************************************)
(* Theorems about VictorDriver for any directives, lease, pool, qualities, *)
(* missions and troubles: what the driver keeps has its type, no ticket    *)
(* starts before those it depends on are done, and a prediction counts     *)
(* once in what is calibrated and learned.                                 *)
(***************************************************************************)
EXTENDS VictorDriver, FiniteSetTheorems, WellFoundedInduction, TLAPS

VehicleType ==
    [project : Project, held : SUBSET Copies, stale : [Directives -> SUBSET Copies],
     findings : SUBSET Directives,
     beta : [Directives -> [Workers -> {"none", "passed", "failed"}]]]

(* A ticket that is under way, in review or done has its prerequisites     *)
(* done.                                                                   *)
Gated(p) ==
    \A t \in p.types : p.status[t] # "open" =>
        \A q \in Prerequisites[t] \intersect p.types : p.status[q] = "done"

Sound(v) == v \in VehicleType /\ Gated(v.project)

PredictionMap == [Ids -> [route : Routes \union {"none"},
                          outcome : {"none", "open", "verified", "halted"}]]
Lessons == Seq([id : Ids, route : Routes, success : BOOLEAN])
SnapshotType ==
    [level : 1..4, project : Project, calibrated : Seq(Ids), mission : MissionStates,
     paused : BOOLEAN, predictions : PredictionMap, active : 0..MaxMissions,
     learned : Lessons]

DriverTypes ==
    /\ DriverTypeOK
    /\ file \in SnapshotType \union {NoFile}
    /\ used \in [missions : 0..MaxMissions, troubles : Nat]

(* Only the missions started so far have a prediction.                     *)
Numbered(preds, n) == \A i \in Ids : i > n => preds[i].outcome = "none"

(* The calibration counts predictions that were made, are not open, and    *)
(* counts each once.                                                       *)
CountedOnce(preds, counted, n) ==
    /\ \A i \in DOMAIN counted : counted[i] <= n /\ preds[counted[i]].outcome # "open"
    /\ \A i, j \in DOMAIN counted : i # j => counted[i] # counted[j]

(* What was learned is what the predictions came to, each once.            *)
LearnedOnce(preds, lessons) ==
    /\ \A i, j \in DOMAIN lessons : i # j => lessons[i].id # lessons[j].id
    /\ \A i \in DOMAIN lessons :
            preds[lessons[i].id].outcome =
                IF lessons[i].success THEN "verified" ELSE "halted"

MemoryCounts ==
    /\ Numbered(predictions, used.missions)
    /\ CountedOnce(predictions, calibrated, used.missions)
    /\ LearnedOnce(predictions, learned)

(* The snapshot counts like memory.  One that was cut short before its     *)
(* topology section leaves the predictions in memory as they are, so its   *)
(* calibration has to fit those.                                           *)
SnapshotCounts ==
    /\ file.level \in {2, 3} => CountedOnce(predictions, file.calibrated, used.missions)
    /\ file.level = 4 =>
        /\ Numbered(file.predictions, used.missions)
        /\ CountedOnce(file.predictions, file.calibrated, used.missions)
        /\ LearnedOnce(file.predictions, file.learned)

GateHeld ==
    /\ Gated(vehicle.project)
    /\ file # NoFile => Gated(file.project)

DriverInv == DriverTypes /\ MemoryCounts /\ SnapshotCounts /\ GateHeld

-----------------------------------------------------------------------------
(* The vehicle.                                                            *)
LEMMA Directed == NoDirective \notin Directives
BY TopologyAssumption DEF NoDirective, Kinds

LEMMA ProjectParts ==
    ASSUME NEW v \in VehicleType
    PROVE  /\ v.project \in Project /\ v.held \in SUBSET Copies
           /\ v.stale \in [Directives -> SUBSET Copies] /\ v.findings \in SUBSET Directives
           /\ v.beta \in [Directives -> [Workers -> {"none", "passed", "failed"}]]
           /\ v.project.directive \in Directives \union {NoDirective}
           /\ v.project.types \in SUBSET TaskTypes
           /\ v.project.status \in [TaskTypes -> Statuses]
           /\ v.project.full \in SUBSET TaskTypes
           /\ v.project.assigned \in SUBSET TaskTypes
           /\ v.project.receipts \in SUBSET TaskTypes
BY DEF VehicleType, Project

(* The parts put together.                                                 *)
LEMMA VehicleMade ==
    ASSUME NEW v \in VehicleType, NEW w, NEW p \in Project, NEW held \in SUBSET Copies,
           NEW stale \in [Directives -> SUBSET Copies], NEW findings \in SUBSET Directives,
           NEW beta \in [Directives -> [Workers -> {"none", "passed", "failed"}]],
           w = [project |-> p, held |-> held, stale |-> stale,
                findings |-> findings, beta |-> beta]
    PROVE  w \in VehicleType
BY DEF VehicleType

LEMMA EmptyVehicle == Sound(NewVehicle)
<1>1. Scrapyard \in Project
    BY DEF Scrapyard, Project, Statuses
<1>2. Gated(NewVehicle.project)
    BY DEF Gated, NewVehicle, Scrapyard
<1>3. NewVehicle \in VehicleType
    BY <1>1 DEF NewVehicle, VehicleType
<1>4. QED
    BY <1>2, <1>3 DEF Sound

(* The first of some workers is one of them.                               *)
LEMMA FirstIsOne ==
    ASSUME NEW S \in SUBSET Workers, S # {}
    PROVE  First(S) \in S
<1> DEFINE R == OpToRel(<, Nat)
<1>1. IsWellFoundedOn(R, Nat)
    BY NatLessThanWellFounded
<1>2. \A i, j \in Nat : i < j => <<i, j>> \in R
    BY DEF OpToRel
<1>3. S \subseteq Nat
    BY DEF Workers
<1> HIDE DEF R
<1>4. PICK i \in S : \A j \in S : <<j, i>> \notin R
    BY <1>1, <1>3, WFMin
<1>5. ASSUME NEW j \in S
      PROVE  i <= j
    <2>1. i \in Nat /\ j \in Nat
        BY <1>3
    <2>2. ~(j < i)
        BY <1>2, <1>4, <2>1
    <2>3. QED
        BY <2>1, <2>2
<1>6. QED
    BY <1>4, <1>5 DEF First

(* Who gets a task is idle and the task ready.                             *)
LEMMA AssignSound ==
    ASSUME NEW v, Sound(v), NEW tasks \in SUBSET TaskTypes
    PROVE  Sound(AssignTasks(v, tasks))
           /\ AssignTasks(v, tasks).project.directive = v.project.directive
           /\ AssignTasks(v, tasks).project.types = v.project.types
<1> DEFINE ready == {t \in tasks \ {"testing"} : DepsDone(v, t) /\ Idle(v, t) # {}}
           held == v.held \union {<<t, First(Idle(v, t))>> : t \in ready}
           status == [t \in TaskTypes |->
                        IF t \in ready /\ v.project.status[t] = "open" THEN "in_progress"
                        ELSE v.project.status[t]]
           w == AssignTasks(v, tasks)
<1>1. v \in VehicleType /\ Gated(v.project)
    BY DEF Sound
<1>2. w = [v EXCEPT !.held = held,
                    !.project = [v.project EXCEPT !.assigned = @ \union ready,
                                                  !.status = status]]
    BY <1>1 DEF AssignTasks, VehicleType, Project
<1>3. held \in SUBSET Copies
    <2>1. \A t \in ready : t \in TaskTypes /\ First(Idle(v, t)) \in Workers
        BY FirstIsOne DEF Idle
    <2>2. QED
        BY <1>1, <2>1, ProjectParts DEF Copies
<1>4. status \in [TaskTypes -> Statuses]
    BY <1>1, ProjectParts DEF Statuses
<1>5. \A t \in ready : t \in TaskTypes /\ DepsDone(v, t)
    OBVIOUS
<1> HIDE DEF ready, held, status, w
<1>6. /\ w \in VehicleType
      /\ w.project = [v.project EXCEPT !.assigned = @ \union ready, !.status = status]
    BY <1>1, <1>2, <1>3, <1>4, <1>5, ProjectParts DEF VehicleType, Project
<1>7. w.project.types = v.project.types /\ w.project.status = status
      /\ w.project.directive = v.project.directive
    BY <1>1, <1>6, ProjectParts DEF Project
<1>8. \A t \in TaskTypes :
        /\ status[t] # v.project.status[t] => t \in ready
        /\ v.project.status[t] = "done" => status[t] = "done"
    BY DEF status
<1>9. Gated(w.project)
    <2> SUFFICES ASSUME NEW t \in v.project.types, status[t] # "open",
                        NEW q \in Prerequisites[t] \intersect v.project.types
                 PROVE  status[q] = "done"
        BY <1>7 DEF Gated
    <2>1. q \in TaskTypes /\ t \in TaskTypes
        BY <1>1, ProjectParts
    <2>2. v.project.status[q] = "done"
        BY <1>1, <1>5, <1>8, <2>1 DEF Gated, DepsDone, Present, Done
    <2>3. QED
        BY <1>8, <2>1, <2>2
<1>10. QED
    BY <1>6, <1>7, <1>9 DEF Sound, w

LEMMA OrphanedCopies ==
    ASSUME NEW v \in VehicleType
    PROVE  Orphaned(v) \in [Directives -> SUBSET Copies]
BY ProjectParts DEF Orphaned

LEMMA StartSound ==
    ASSUME NEW v, Sound(v), NEW d \in Directives, NEW plan, plan.types \in SUBSET TaskTypes
    PROVE  Sound(StartFromPlan(v, d, plan))
<1> DEFINE p == [Scrapyard EXCEPT !.directive = d, !.types = plan.types]
           fresh == [v EXCEPT !.stale = Orphaned(v), !.held = {}, !.project = p]
<1>1. p \in Project /\ p.status = [t \in TaskTypes |-> "open"] /\ p.types \in SUBSET TaskTypes
    BY DEF Scrapyard, Project, Statuses
<1>2. Gated(p)
    BY <1>1 DEF Gated
<1> HIDE DEF p
<1>3. fresh \in VehicleType /\ fresh.project = p
    BY <1>1, OrphanedCopies DEF Sound, VehicleType
<1>4. Sound(fresh)
    BY <1>2, <1>3 DEF Sound
<1>5. StartFromPlan(v, d, plan) = AssignTasks(fresh, {"research"})
    BY DEF StartFromPlan, p
<1> HIDE DEF fresh
<1>6. {"research"} \in SUBSET TaskTypes
    BY DEF TaskTypes
<1>7. QED
    BY <1>4, <1>5, <1>6, AssignSound

LEMMA ContinueSound ==
    ASSUME NEW v, Sound(v)
    PROVE  Sound(ContinueProject(v))
<1> DEFINE open == Present(v) \ v.project.full
           p == [v.project EXCEPT !.assigned = @ \ open]
           freed == [v EXCEPT !.project = p]
<1>1. v \in VehicleType /\ Gated(v.project)
    BY DEF Sound
<1>2. /\ p \in Project /\ p.status = v.project.status /\ p.types = v.project.types
      /\ open \in SUBSET TaskTypes
    BY <1>1, ProjectParts DEF Project, Present
<1>3. freed = [v EXCEPT !.project.assigned = @ \ open]
    BY <1>1 DEF VehicleType
<1> HIDE DEF p
<1>4. freed \in VehicleType /\ freed.project = p
    BY <1>1, <1>2 DEF VehicleType
<1>5. Sound(freed)
    BY <1>1, <1>2, <1>4 DEF Sound, Gated
<1>6. ContinueProject(v) = AssignTasks(freed, open)
    BY <1>3 DEF ContinueProject
<1> HIDE DEF freed, open
<1>7. QED
    BY <1>2, <1>5, <1>6, AssignSound

(* What a change of tickets has to respect: none is reopened that another  *)
(* depends on, and those that leave `open` are ready.                      *)
LEMMA TicketsMove ==
    ASSUME NEW v, Sound(v), NEW w \in VehicleType,
           w.project.types = v.project.types,
           \A t \in TaskTypes :
              /\ v.project.status[t] = "done" => w.project.status[t] = "done"
              /\ v.project.status[t] = "open" =>
                    w.project.status[t] = "open" \/ DepsDone(v, t)
    PROVE  Sound(w)
<1> SUFFICES ASSUME NEW t \in w.project.types, w.project.status[t] # "open",
                    NEW q \in Prerequisites[t] \intersect w.project.types
             PROVE  w.project.status[q] = "done"
    BY DEF Sound, Gated
<1>1. v \in VehicleType /\ q \in TaskTypes /\ t \in TaskTypes
    BY ProjectParts DEF Sound
<1>2. v.project.status[q] = "done"
    BY <1>1 DEF Sound, Gated, DepsDone, Present, Done
<1>3. QED
    BY <1>1, <1>2

LEMMA CompleteSound ==
    ASSUME NEW v, Sound(v), v.project.directive \in Directives,
           NEW ends \in SUBSET Copies, NEW old \in SUBSET Copies, NEW tested
    PROVE  Sound(CompleteTasks(v, ends, old, tested))
           /\ CompleteTasks(v, ends, old, tested).project.directive = v.project.directive
<1> DEFINE d == v.project.directive
           finished == {c[1] : c \in ends \union old}
           held == v.held \ ends
           left == v.stale[d] \ old
           ended == {c[1] : c \in ends}
           p == [v.project EXCEPT !.full = @ \union ended,
                                  !.status = Advance(v, finished)]
           w == CompleteTasks(v, ends, old, tested)
           stale == [v.stale EXCEPT ![d] = left]
<1>1. v \in VehicleType
    BY DEF Sound
<1>2. w = [v EXCEPT !.held = held, !.stale = stale, !.findings = Findings(v, finished),
                    !.beta = BetaReports(v, tested), !.project = p]
    BY <1>1 DEF CompleteTasks, VehicleType, Project
<1>3. held \in SUBSET Copies /\ left \in SUBSET Copies
    BY <1>1, ProjectParts
<1>4. Findings(v, finished) \in SUBSET Directives
    BY <1>1, ProjectParts DEF Findings
<1>5. BetaReports(v, tested) \in [Directives -> [Workers -> {"none", "passed", "failed"}]]
    BY <1>1, ProjectParts DEF BetaReports
<1>6. Advance(v, finished) \in [TaskTypes -> Statuses]
    BY <1>1, ProjectParts DEF Advance, Statuses
<1>7. \A t \in TaskTypes : Advance(v, finished)[t] =
        IF t \in finished /\ v.project.status[t] = "in_progress" THEN "in_review"
        ELSE v.project.status[t]
    BY DEF Advance
<1>8. ended \in SUBSET TaskTypes
    BY DEF Copies
<1> HIDE DEF held, left, finished, ended
<1>9. /\ p \in Project /\ p.types = v.project.types /\ p.directive = d
      /\ p.status = Advance(v, finished)
    BY <1>1, <1>6, <1>8, ProjectParts DEF Project
<1> HIDE DEF p
<1>10. stale \in [Directives -> SUBSET Copies]
    BY <1>1, <1>3, ProjectParts
<1> HIDE DEF stale, w
<1>11. w \in VehicleType /\ w.project = p
    BY <1>1, <1>2, <1>3, <1>4, <1>5, <1>9, <1>10 DEF VehicleType
<1>12. Sound(w)
    BY <1>7, <1>9, <1>11, TicketsMove
<1>13. QED
    BY <1>9, <1>11, <1>12 DEF w

(* The order of the plan picks one ticket in review.                       *)
LEMMA FirstIsInReview ==
    ASSUME NEW v \in VehicleType, InReview(v) # {}
    PROVE  /\ FirstInReview(v) \in InReview(v) /\ FirstInReview(v) \in TaskTypes
           /\ v.project.status[FirstInReview(v)] = "in_review"
<1> DEFINE S == InReview(v)
<1>1. S \subseteq TaskTypes /\ \A t \in S : v.project.status[t] = "in_review"
    BY ProjectParts DEF InReview, Present
<1>2. /\ PlanOrder["research"] = 1 /\ PlanOrder["design"] = 2 /\ PlanOrder["frontend"] = 3
      /\ PlanOrder["backend"] = 4 /\ PlanOrder["testing"] = 5
      /\ PlanOrder["beta_testing"] = 6
    BY DEF PlanOrder, TaskTypes
<1>3. \E t \in S : \A u \in S : PlanOrder[t] <= PlanOrder[u]
    <2> HIDE DEF S
    <2>1. CASE "research" \in S
        BY <1>1, <1>2, <2>1 DEF TaskTypes
    <2>2. CASE "research" \notin S /\ "design" \in S
        BY <1>1, <1>2, <2>2 DEF TaskTypes
    <2>3. CASE {"research", "design"} \intersect S = {} /\ "frontend" \in S
        BY <1>1, <1>2, <2>3 DEF TaskTypes
    <2>4. CASE {"research", "design", "frontend"} \intersect S = {} /\ "backend" \in S
        BY <1>1, <1>2, <2>4 DEF TaskTypes
    <2>5. CASE {"research", "design", "frontend", "backend"} \intersect S = {}
        BY <1>1, <1>2, <2>5 DEF TaskTypes, S
    <2>6. QED
        BY <2>1, <2>2, <2>3, <2>4, <2>5
<1>4. FirstInReview(v) \in S
    BY <1>3 DEF FirstInReview
<1>5. QED
    BY <1>1, <1>4

LEMMA AcceptSound ==
    ASSUME NEW v, Sound(v), NEW t \in TaskTypes, v.project.status[t] = "in_review",
           NEW receipts \in SUBSET TaskTypes
    PROVE  /\ Sound(Accept(v, t))
           /\ Sound([Accept(v, t) EXCEPT !.project.receipts = @ \union receipts])
<1> DEFINE status == [v.project.status EXCEPT ![t] = "done"]
           p == [v.project EXCEPT !.status = status]
           q == [p EXCEPT !.receipts = @ \union receipts]
           w == [v EXCEPT !.project = p]
           x == [w EXCEPT !.project = q]
<1>1. v \in VehicleType
    BY DEF Sound
<1>2. status \in [TaskTypes -> Statuses] /\ status[t] = "done"
      /\ \A u \in TaskTypes : u # t => status[u] = v.project.status[u]
    BY <1>1, ProjectParts DEF Statuses
<1>3. Accept(v, t) = w
    BY <1>1 DEF Accept, VehicleType, Project
<1>4. [w EXCEPT !.project.receipts = @ \union receipts] = x
    BY <1>1 DEF VehicleType, Project
<1> HIDE DEF status
<1>5. /\ p \in Project /\ p.types = v.project.types /\ p.status = status
      /\ q \in Project /\ q.types = v.project.types /\ q.status = status
    BY <1>1, <1>2, ProjectParts DEF Project
<1> HIDE DEF p, q
<1>6. w \in VehicleType /\ w.project = p /\ x \in VehicleType /\ x.project = q
    BY <1>1, <1>5 DEF VehicleType
<1> HIDE DEF w, x
<1>7. \A u \in TaskTypes : /\ v.project.status[u] = "done" => status[u] = "done"
                           /\ v.project.status[u] = "open" => status[u] = "open"
    BY <1>2
<1>8. Sound(w) /\ Sound(x)
    BY <1>5, <1>6, <1>7, TicketsMove
<1>9. QED
    BY <1>3, <1>4, <1>8

LEMMA RejectSound ==
    ASSUME NEW v, Sound(v), NEW t \in TaskTypes, v.project.status[t] = "in_review"
    PROVE  Sound(Reject(v, t))
<1> DEFINE status == [v.project.status EXCEPT ![t] = "in_progress"]
           p == [v.project EXCEPT !.status = status, !.full = @ \ {t}, !.assigned = @ \ {t}]
           w == [v EXCEPT !.project = p]
<1>1. v \in VehicleType
    BY DEF Sound
<1>2. status \in [TaskTypes -> Statuses]
      /\ \A u \in TaskTypes : u # t => status[u] = v.project.status[u]
    BY <1>1, ProjectParts DEF Statuses
<1>3. Reject(v, t) = w
    BY <1>1 DEF Reject, VehicleType, Project
<1> HIDE DEF status
<1>4. p \in Project /\ p.types = v.project.types /\ p.status = status
    BY <1>1, <1>2, ProjectParts DEF Project
<1> HIDE DEF p
<1>5. w \in VehicleType /\ w.project = p
    BY <1>1, <1>4 DEF VehicleType
<1> HIDE DEF w
<1>6. \A u \in TaskTypes : /\ v.project.status[u] = "done" => status[u] = "done"
                           /\ v.project.status[u] = "open" => status[u] = "open"
    BY <1>2
<1>7. Sound(w)
    BY <1>4, <1>5, <1>6, TicketsMove
<1>8. QED
    BY <1>3, <1>7

(* A review accepts the first ticket in review, rejects it or leaves it.   *)
LEMMA ReviewSound ==
    ASSUME NEW v, Sound(v), NEW artifact
    PROVE  Sound(Review(v, artifact))
<1>1. CASE InReview(v) = {}
    BY <1>1 DEF Review
<1>2. CASE InReview(v) # {}
    <2> DEFINE t == FirstInReview(v)
    <2>1. t \in TaskTypes /\ v.project.status[t] = "in_review"
        BY <1>2, FirstIsInReview DEF Sound
    <2>2. \/ Review(v, artifact) = v
          \/ Review(v, artifact) = Accept(v, t)
          \/ Review(v, artifact) = [Accept(v, t) EXCEPT !.project.receipts = @ \union {t}]
          \/ Review(v, artifact) = Reject(v, t)
        <3> HIDE DEF t
        <3>1. t \in {"research", "beta_testing", "testing"} \union CodeTypes
            BY <2>1 DEF TaskTypes, CodeTypes
        <3>2. Review(v, artifact) =
                LET d == v.project.directive
                IN  CASE t = "research" ->
                            IF d \in v.findings THEN Accept(v, t) ELSE Reject(v, t)
                      [] t = "beta_testing" ->
                            IF LatestBetaReport(v, d) = "passed" THEN Accept(v, t) ELSE Reject(v, t)
                      [] t = "testing" ->
                            IF \A c \in CodeTypes \intersect Present(v) : Done(v, c)
                            THEN Accept(v, t) ELSE v
                      [] t \in CodeTypes -> ReviewCode(v, t, artifact)
            BY <1>2 DEF Review, t
        <3>3. CASE t \in {"research", "beta_testing", "testing"}
            BY <3>2, <3>3 DEF CodeTypes
        <3>4. CASE t \in CodeTypes
            BY <3>2, <3>4 DEF CodeTypes, ReviewCode
        <3>5. QED
            BY <3>1, <3>3, <3>4
    <2> HIDE DEF t
    <2>3. {t} \in SUBSET TaskTypes
        BY <2>1
    <2>4. Sound(Accept(v, t)) /\ Sound([Accept(v, t) EXCEPT !.project.receipts = @ \union {t}])
        BY <2>1, <2>3, AcceptSound
    <2>5. Sound(Reject(v, t))
        BY <2>1, RejectSound
    <2>6. QED
        BY <2>2, <2>4, <2>5
<1>3. QED
    BY <1>1, <1>2

(* The testing ticket goes to review when its prerequisites are done.      *)
LEMMA QASound ==
    ASSUME NEW v, Sound(v)
    PROVE  Sound(MaterializeQA(v))
           /\ MaterializeQA(v).project.directive = v.project.directive
           /\ MaterializeQA(v).held = v.held /\ MaterializeQA(v).stale = v.stale
<1> DEFINE status == [v.project.status EXCEPT !["testing"] = "in_review"]
           p == [v.project EXCEPT !.full = @ \union {"testing"},
                                  !.assigned = @ \union {"testing"}, !.status = status]
           w == [v EXCEPT !.project = p]
<1>1. v \in VehicleType /\ "testing" \in TaskTypes
    BY DEF Sound, TaskTypes
<1>2. status \in [TaskTypes -> Statuses]
      /\ \A u \in TaskTypes : u # "testing" => status[u] = v.project.status[u]
    BY <1>1, ProjectParts DEF Statuses
<1>3. \/ MaterializeQA(v) = v
      \/ MaterializeQA(v) = w /\ ~Done(v, "testing") /\ DepsDone(v, "testing")
    BY <1>1 DEF MaterializeQA, VehicleType, Project
<1> HIDE DEF status
<1>4. /\ p \in Project /\ p.types = v.project.types /\ p.status = status
      /\ p.directive = v.project.directive
    BY <1>1, <1>2, ProjectParts DEF Project
<1> HIDE DEF p
<1>5. w \in VehicleType /\ w.project = p /\ w.held = v.held /\ w.stale = v.stale
    BY <1>1, <1>4 DEF VehicleType
<1> HIDE DEF w
<1>6. ~Done(v, "testing") /\ DepsDone(v, "testing") => Sound(w)
    <2> SUFFICES ASSUME ~Done(v, "testing"), DepsDone(v, "testing")
                 PROVE  Sound(w)
        OBVIOUS
    <2>1. \A u \in TaskTypes :
            /\ v.project.status[u] = "done" => status[u] = "done"
            /\ v.project.status[u] = "open" => status[u] = "open" \/ DepsDone(v, u)
        BY <1>2 DEF Done
    <2>2. QED
        BY <1>4, <1>5, <2>1, TicketsMove
<1>7. QED
    BY <1>3, <1>4, <1>5, <1>6

LEMMA IdleWorkSound ==
    ASSUME NEW v, Sound(v), NEW w \in IdleWork(v)
    PROVE  Sound(w)
<1>1. \A x : Sound(x) => IdleTasks(x) \in SUBSET TaskTypes
    BY ProjectParts DEF Sound, IdleTasks, Present
<1> DEFINE idled == AssignTasks(v, IdleTasks(v))
           qa == MaterializeQA(idled)
<1>2. w = AssignTasks(qa, IdleTasks(qa))
    BY DEF IdleWork
<1>3. Sound(idled)
    BY <1>1, AssignSound
<1> HIDE DEF idled
<1>4. Sound(qa)
    BY <1>3, QASound
<1> HIDE DEF qa
<1>5. QED
    BY <1>1, <1>2, <1>4, AssignSound

(* A work cycle, also one an exception cuts short.                         *)
LEMMA WorkCycleSound ==
    ASSUME NEW v, Sound(v), v.project.directive # NoDirective,
           NEW ends \in SUBSET Copies, NEW old \in SUBSET Copies, NEW tested,
           NEW first, NEW second,
           NEW w \in WorkCycle(v, ends, old, tested, first, second)
    PROVE  Sound(w)
<1> DEFINE qa == MaterializeQA(v)
           worked == CompleteTasks(qa, ends, old, tested)
           once == Review(worked, first)
           twice == Review(once, second)
<1>1. w \in {worked, once} \/ w \in IdleWork(twice)
    BY DEF WorkCycle
<1>2. /\ Sound(qa) /\ qa.project.directive = v.project.directive
      /\ qa.held = v.held /\ qa.stale = v.stale
    BY QASound
<1>3. qa.project.directive \in Directives
    BY <1>2, ProjectParts DEF Sound
<1> HIDE DEF qa
<1>4. Sound(worked)
    BY <1>2, <1>3, CompleteSound
<1> HIDE DEF worked
<1>5. Sound(once)
    BY <1>4, ReviewSound
<1> HIDE DEF once
<1>6. Sound(twice)
    BY <1>5, ReviewSound
<1> HIDE DEF twice
<1>7. QED
    BY <1>1, <1>4, <1>5, <1>6, IdleWorkSound

-----------------------------------------------------------------------------
(* The choice of a route.                                                  *)
LEMMA RatesAreNumbers ==
    ASSUME DriverTypes, NEW r \in Routes
    PROVE  LearnedRates[r] \in [num : Nat, den : Nat]
<1>1. IsFiniteSet(DOMAIN learned)
    BY FS_Interval DEF DriverTypes, DriverTypeOK
<1>2. Attempts(r) \in Nat /\ Successes(r) \in Nat
    BY <1>1, FS_Subset, FS_CardinalityType DEF Attempts, Successes
<1>3. LearnedRates[r] = Preference(Attempts(r), Successes(r))
    BY DEF LearnedRates
<1>4. QED
    BY <1>2, <1>3 DEF Preference

LEMMA NoneBeatsItself ==
    ASSUME NEW r \in [num : Nat, den : Nat]
    PROVE  ~Preferred(r, r)
<1>1. r.num * r.den \in Nat /\ r.den \in Nat
    OBVIOUS
<1>2. ~(r.num * r.den > r.num * r.den)
    BY <1>1
<1>3. QED
    BY <1>1, <1>2 DEF Preferred

LEMMA PlansOfDirectives ==
    ASSUME NEW d \in Directives, NEW plan \in Candidates(d)
    PROVE  plan.types \in SUBSET TaskTypes /\ plan.name \in Routes
<1>1. plan.name \in Routes
    BY DEF Routes
<1>2. plan.types \in SUBSET TaskTypes
    BY TopologyAssumption DEF Candidates, BuildPlan, TaskTypes, Kinds
<1>3. QED
    BY <1>1, <1>2

(* Of the plans that are feasible one is chosen: the cheapest is before    *)
(* the others, and none is preferred to itself.                            *)
LEMMA ChosenIsCandidate ==
    ASSUME DriverTypes, NEW d \in Directives, Chosen(d, LearnedRates) # NoPlan
    PROVE  Chosen(d, LearnedRates) \in Candidates(d)
<1> DEFINE feasible == {plan \in Candidates(d) : Feasible(d, plan)}
           Before(p, q) ==
            \/ TotalEffort(p) < TotalEffort(q)
            \/ /\ TotalEffort(p) = TotalEffort(q)
               /\ ~Preferred(LearnedRates[q.name], LearnedRates[p.name])
           full == BuildPlan("full-web-evidence-route", {"frontend", "backend"})
           frontend == BuildPlan("frontend-only-evidence-route", {"frontend"})
<1>1. feasible # {} /\ Chosen(d, LearnedRates) =
        CHOOSE p \in feasible : \A q \in feasible : Before(p, q)
    BY DEF Chosen
<1>2. \A p \in feasible : Before(p, p)
    BY PlansOfDirectives, RatesAreNumbers, NoneBeatsItself
<1>3. TotalEffort(frontend) < TotalEffort(full)
    BY DEF TotalEffort, Effort, BuildPlan, TaskTypes
<1>4. \/ \E p : Candidates(d) = {p}
      \/ Candidates(d) = {full, frontend}
      \/ Candidates(d) = {}
    BY TopologyAssumption DEF Candidates, Kinds
<1>5. Before(frontend, full)
    BY <1>3
<1> HIDE DEF Before, full, frontend
<1>6. \E p \in feasible : \A q \in feasible : Before(p, q)
    <2>1. CASE \E p : Candidates(d) = {p}
        BY <1>1, <1>2, <2>1
    <2>2. CASE Candidates(d) = {full, frontend}
        BY <1>1, <1>2, <1>5, <2>2
    <2>3. CASE Candidates(d) = {}
        BY <1>1, <2>3
    <2>4. QED
        BY <1>4, <2>1, <2>2, <2>3
<1> HIDE DEF feasible
<1>7. Chosen(d, LearnedRates) \in feasible
    BY <1>1, <1>6
<1>8. QED
    BY <1>7 DEF feasible

-----------------------------------------------------------------------------
(* The driver's state, part by part.                                       *)
Histories == {"file", "empty", "continues", "other"}

TopologyTypes ==
    /\ predictions \in PredictionMap
    /\ active \in 0..MaxMissions
    /\ activeRoute \in Routes \union {"none"}
    /\ learned \in Lessons
    /\ calibrated \in Seq(Ids)

FileSound ==
    /\ file \in SnapshotType \union {NoFile}
    /\ file # NoFile => Gated(file.project)

UsedType == used \in [missions : 0..MaxMissions, troubles : Nat]

DriverShape ==
    /\ Sound(vehicle) /\ mission \in MissionStates /\ paused \in BOOLEAN
    /\ ledger \in Histories /\ TopologyTypes /\ FileSound /\ UsedType
    /\ MemoryCounts /\ SnapshotCounts

LEMMA DriverShaped == DriverInv <=> DriverShape
<1>1. FileSound => file.level \in 0..4
    BY DEF FileSound, SnapshotType, NoFile
<1>2. QED
    BY <1>1 DEF DriverShape, DriverInv, DriverTypes, DriverTypeOK, GateHeld, Sound,
       VehicleType, Histories, TopologyTypes, PredictionMap, Lessons, FileSound, UsedType

LEMMA DriverParts ==
    ASSUME DriverInv
    PROVE  /\ Sound(vehicle) /\ mission \in MissionStates /\ paused \in BOOLEAN
           /\ ledger \in Histories /\ TopologyTypes /\ FileSound /\ UsedType
           /\ MemoryCounts /\ SnapshotCounts
BY DriverShaped DEF DriverShape

LEMMA ShapedNext == DriverShape' => DriverInv'
BY DriverShaped, PTL

LEMMA DriverMade ==
    ASSUME Sound(vehicle'), mission' \in MissionStates, paused' \in BOOLEAN,
           ledger' \in Histories, TopologyTypes', FileSound', UsedType',
           MemoryCounts', SnapshotCounts'
    PROVE  DriverInv'
BY ShapedNext DEF DriverShape

LEMMA Element == ASSUME NEW S, NEW s \in Seq(S), NEW i \in DOMAIN s PROVE s[i] \in S
OBVIOUS

LEMMA DriverInit == Init => DriverInv
<1> SUFFICES ASSUME Init
             PROVE  DriverInv
    OBVIOUS
<1>1. Sound(vehicle)
    BY EmptyVehicle DEF Init
<1>2. mission \in MissionStates /\ paused \in BOOLEAN /\ ledger \in Histories
    BY DriverAssumption DEF Init, MissionStates, NoMission, Histories
<1>3. TopologyTypes
    BY DriverAssumption DEF Init, TopologyTypes, PredictionMap, NoPrediction, Lessons
<1>4. FileSound /\ UsedType /\ SnapshotCounts
    BY DriverAssumption DEF Init, FileSound, UsedType, SnapshotCounts, NoFile
<1>5. MemoryCounts
    BY DEF Init, MemoryCounts, Numbered, CountedOnce, LearnedOnce, NoPrediction
<1>6. QED
    BY <1>1, <1>2, <1>3, <1>4, <1>5, DriverShaped DEF DriverShape

LEMMA TroubleUsed ==
    ASSUME UsedType, Trouble
    PROVE  UsedType' /\ used'.missions = used.missions
BY DEF UsedType, Trouble

LEMMA HistoryObserved ==
    ASSUME ledger \in Histories
    PROVE  Observed \in Histories
BY DEF Observed, Histories

(* What leaves the predictions and what they were counted into alone.      *)
LEMMA CountsStay ==
    ASSUME DriverInv, UNCHANGED <<predictions, calibrated, learned, file>>,
           used'.missions = used.missions
    PROVE  MemoryCounts' /\ SnapshotCounts' /\ FileSound'
BY DriverParts DEF MemoryCounts, SnapshotCounts, FileSound

(* The steps that touch neither.                                           *)
LEMMA QuietStep ==
    ASSUME DriverInv, Sound(vehicle'), mission' \in MissionStates, paused' \in BOOLEAN,
           ledger' \in Histories, activeRoute' \in Routes \union {"none"}, UsedType',
           used'.missions = used.missions,
           UNCHANGED <<predictions, active, calibrated, learned, file>>
    PROVE  DriverInv'
<1>1. MemoryCounts' /\ SnapshotCounts' /\ FileSound'
    BY CountsStay
<1>2. TopologyTypes'
    BY DriverParts DEF TopologyTypes
<1>3. QED
    BY <1>1, <1>2, DriverMade

LEMMA RejectStep ==
    ASSUME DriverInv, NEW d \in Directives, RejectRoute(d)
    PROVE  DriverInv'
<1>1. mission' \in MissionStates
    BY DEF RejectRoute, MissionStates
<1>2. UsedType' /\ used'.missions = used.missions
    BY DriverParts, TroubleUsed DEF RejectRoute
<1>3. QED
    BY <1>1, <1>2, DriverParts, HistoryObserved, QuietStep DEF RejectRoute

LEMMA ContinueStep ==
    ASSUME DriverInv, Continue
    PROVE  DriverInv'
<1>1. Sound(vehicle')
    BY DriverParts, ContinueSound DEF Continue
<1>2. UsedType' /\ used'.missions = used.missions
    BY DriverParts, TroubleUsed DEF Continue, UsedType
<1>3. UNCHANGED <<mission, paused, predictions, active, activeRoute, learned, calibrated, file>>
    BY DEF Continue, topology
<1>4. QED
    BY <1>1, <1>2, <1>3, DriverParts, HistoryObserved, QuietStep
        DEF Continue, TopologyTypes

LEMMA PauseStep ==
    ASSUME DriverInv, Pause \/ Unpause
    PROVE  DriverInv'
<1>1. UsedType' /\ used'.missions = used.missions
    BY DriverParts, TroubleUsed DEF Pause, Unpause, UsedType
<1>2. /\ UNCHANGED <<vehicle, mission, predictions, active, activeRoute, learned, calibrated, file>>
      /\ paused' \in BOOLEAN /\ ledger' = Observed
    BY DEF Pause, Unpause, topology
<1>3. QED
    BY <1>1, <1>2, DriverParts, HistoryObserved, QuietStep DEF TopologyTypes

(* A mission that starts has the next number, and nothing counts it yet.   *)
LEMMA StartStep ==
    ASSUME DriverInv, NEW d \in Directives, StartProject(d)
    PROVE  DriverInv'
<1> DEFINE plan == Chosen(d, LearnedRates)
           id == used.missions + 1
           made == [route |-> plan.name, outcome |-> "open"]
<1>1. /\ plan # NoPlan /\ id \in Ids /\ used' = [used EXCEPT !.missions = id]
      /\ vehicle' = StartFromPlan(vehicle, d, plan)
      /\ mission' = [directive |-> d, status |-> "running"]
      /\ predictions' = [predictions EXCEPT ![id] = made]
      /\ active' = id /\ activeRoute' = plan.name /\ ledger' = Observed
      /\ UNCHANGED <<paused, learned, calibrated, file>>
    BY DEF StartProject
<1>2. plan.types \in SUBSET TaskTypes /\ plan.name \in Routes
    BY <1>1, ChosenIsCandidate, PlansOfDirectives DEF DriverInv
<1> HIDE DEF plan
<1>3. Sound(vehicle')
    BY <1>1, <1>2, DriverParts, StartSound
<1>4. mission' \in MissionStates
    BY <1>1 DEF MissionStates
<1>5. UsedType' /\ used'.missions = id /\ id = used.missions + 1 /\ used.missions \in Nat
    BY <1>1, DriverParts, DriverAssumption DEF UsedType, Ids
<1>6. made \in [route : Routes \union {"none"}, outcome : {"none", "open", "verified", "halted"}]
    BY <1>2
<1> HIDE DEF made, id
<1>7. TopologyTypes'
    BY <1>1, <1>2, <1>6, DriverParts DEF TopologyTypes, PredictionMap, Ids
<1>8. /\ predictions[id].outcome = "none"
      /\ \A i \in Ids : i # id => predictions'[i] = predictions[i]
    BY <1>1, <1>5, DriverParts DEF MemoryCounts, Numbered, TopologyTypes, PredictionMap
<1>9. Numbered(predictions', id)
    BY <1>5, <1>8, DriverParts DEF MemoryCounts, Numbered, Ids
<1>10. ASSUME NEW counted \in Seq(Ids), CountedOnce(predictions, counted, used.missions)
       PROVE  CountedOnce(predictions', counted, id)
    <2>1. ASSUME NEW i \in DOMAIN counted
          PROVE  counted[i] \in Ids /\ counted[i] # id /\ counted[i] <= id
        <3>1. counted[i] \in Ids
            BY <1>10, Element
        <3>2. counted[i] <= used.missions
            BY <1>10 DEF CountedOnce
        <3>3. QED
            BY <1>5, <3>1, <3>2 DEF Ids
    <2>2. QED
        BY <1>8, <1>10, <2>1 DEF CountedOnce
<1>11. LearnedOnce(predictions', learned)
    <2>1. ASSUME NEW i \in DOMAIN learned
          PROVE  learned[i].id \in Ids /\ learned[i].id # id
        <3>1. learned[i].id \in Ids
            <4>1. learned[i] \in [id : Ids, route : Routes, success : BOOLEAN]
                BY DriverParts, Element DEF TopologyTypes, Lessons
            <4>2. QED
                BY <4>1
        <3>2. predictions[learned[i].id].outcome # "none"
            BY DriverParts DEF MemoryCounts, LearnedOnce
        <3>3. QED
            BY <1>8, <3>1, <3>2
    <2>2. QED
        BY <1>8, <2>1, DriverParts DEF MemoryCounts, LearnedOnce
<1>12. MemoryCounts'
    BY <1>1, <1>5, <1>9, <1>10, <1>11, DriverParts DEF MemoryCounts, TopologyTypes
<1>13. SnapshotCounts'
    <2>1. CASE file.level \in {2, 3}
        <3>1. file.calibrated \in Seq(Ids)
            BY <2>1, DriverParts DEF FileSound, SnapshotType, NoFile
        <3>2. CountedOnce(predictions', file.calibrated, id)
            BY <1>10, <2>1, <3>1, DriverParts DEF SnapshotCounts
        <3>3. QED
            BY <1>1, <1>5, <2>1, <3>2 DEF SnapshotCounts
    <2>2. CASE file.level = 4
        <3>1. file.calibrated \in Seq(Ids)
            BY <2>2, DriverParts DEF FileSound, SnapshotType, NoFile
        <3>2. Numbered(file.predictions, id)
            BY <1>5, <2>2, DriverParts DEF SnapshotCounts, Numbered, Ids
        <3>3. CountedOnce(file.predictions, file.calibrated, id)
            <4>1. CountedOnce(file.predictions, file.calibrated, used.missions)
                BY <2>2, DriverParts DEF SnapshotCounts
            <4>2. ASSUME NEW i \in DOMAIN file.calibrated
                  PROVE  file.calibrated[i] <= id
                <5>1. file.calibrated[i] \in Ids
                    BY <3>1, Element
                <5>2. file.calibrated[i] <= used.missions
                    BY <4>1 DEF CountedOnce
                <5>3. QED
                    BY <1>5, <5>1, <5>2 DEF Ids
            <4>3. QED
                BY <4>1, <4>2 DEF CountedOnce
        <3>4. QED
            BY <1>1, <1>5, <2>2, <3>2, <3>3, DriverParts DEF SnapshotCounts
    <2>3. QED
        BY <1>1, <2>1, <2>2 DEF SnapshotCounts
<1>14. FileSound'
    BY <1>1, DriverParts DEF FileSound
<1>15. QED
    BY <1>1, <1>3, <1>4, <1>5, <1>7, <1>12, <1>13, <1>14, DriverParts, HistoryObserved,
       DriverMade

LEMMA LogMore ==
    ASSUME NEW S, NEW s \in Seq(S), NEW e \in S
    PROVE  /\ Append(s, e) \in Seq(S) /\ DOMAIN s = 1..Len(s) /\ Len(s) \in Nat
           /\ DOMAIN Append(s, e) = DOMAIN s \union {Len(s) + 1}
           /\ Len(s) + 1 \notin DOMAIN s
           /\ Append(s, e)[Len(s) + 1] = e
           /\ \A i \in DOMAIN s : Append(s, e)[i] = s[i]
OBVIOUS

(* The outcome of the active prediction, if it has none yet, is counted    *)
(* once: no earlier count is of an open prediction.                        *)
LEMMA ResolveStep ==
    ASSUME DriverInv, NEW success \in BOOLEAN, ResolveRoute(success),
           UNCHANGED <<file, used>>
    PROVE  TopologyTypes' /\ MemoryCounts' /\ SnapshotCounts' /\ FileSound' /\ UsedType'
<1>1. FileSound' /\ UsedType'
    BY DriverParts DEF FileSound, UsedType
<1>2. CASE ~Unresolved
    <2>1. UNCHANGED <<predictions, active, activeRoute, learned, calibrated>>
        BY <1>2 DEF ResolveRoute, topology
    <2>2. QED
        BY <1>1, <2>1, DriverParts, CountsStay DEF TopologyTypes
<1>3. CASE Unresolved
    <2> DEFINE outcome == IF success THEN "verified" ELSE "halted"
               lesson == [id |-> active, route |-> activeRoute, success |-> success]
               n == used.missions
    <2>1. /\ predictions' = [predictions EXCEPT ![active].outcome = outcome]
          /\ calibrated' = Append(calibrated, active)
          /\ learned' = Learn(success) /\ UNCHANGED <<active, activeRoute>>
        BY <1>3 DEF ResolveRoute
    <2>2. active \in Ids /\ predictions[active].outcome = "open" /\ active <= n
        <3>1. active \in Ids /\ predictions[active].outcome = "open"
            BY <1>3, DriverParts DEF Unresolved, TopologyTypes, Ids
        <3>2. n \in Nat
            BY DriverParts DEF UsedType
        <3>3. QED
            BY <3>1, <3>2, DriverParts DEF MemoryCounts, Numbered, Ids
    <2>3. outcome \in {"verified", "halted"}
        OBVIOUS
    <2> HIDE DEF outcome
    <2>4. /\ predictions' \in PredictionMap /\ predictions'[active].outcome = outcome
          /\ \A i \in Ids : i # active => predictions'[i] = predictions[i]
        BY <2>1, <2>2, <2>3, DriverParts DEF TopologyTypes, PredictionMap
    <2>5. calibrated \in Seq(Ids) /\ calibrated' \in Seq(Ids)
        BY <2>1, <2>2, DriverParts, LogMore DEF TopologyTypes
    <2>6. learned' = learned \/ (learned' = Append(learned, lesson) /\ activeRoute \in Routes)
        BY <2>1, DriverParts DEF Learn, TopologyTypes
    <2>7. activeRoute \in Routes =>
            lesson \in [id : Ids, route : Routes, success : BOOLEAN]
        BY <2>2
    <2>8. lesson.id = active /\ outcome = IF lesson.success THEN "verified" ELSE "halted"
        BY DEF outcome
    <2> HIDE DEF lesson
    <2>9. learned \in Lessons /\ learned' \in Lessons
        <3>1. learned \in Lessons
            BY DriverParts DEF TopologyTypes
        <3>2. activeRoute \in Routes => Append(learned, lesson) \in Lessons
            BY <2>7, <3>1, LogMore DEF Lessons
        <3>3. QED
            BY <2>6, <3>1, <3>2
    <2>10. TopologyTypes'
        BY <2>1, <2>4, <2>5, <2>9, DriverParts DEF TopologyTypes
    <2>11. Numbered(predictions', n)
        <3>1. n \in Nat /\ Numbered(predictions, n)
            BY DriverParts DEF MemoryCounts, UsedType
        <3>2. \A i \in Ids : i > n => i # active
            BY <2>2, <3>1 DEF Ids
        <3>3. QED
            BY <2>4, <3>1, <3>2 DEF Numbered
    <2>12. ASSUME NEW counted \in Seq(Ids), CountedOnce(predictions, counted, n)
           PROVE  CountedOnce(predictions', counted, n)
        <3>1. \A i \in DOMAIN counted : counted[i] \in Ids
            BY <2>12, Element
        <3>2. \A i \in Ids : predictions[i].outcome # "open" => predictions'[i].outcome # "open"
            BY <2>2, <2>4
        <3>3. QED
            BY <2>12, <3>1, <3>2 DEF CountedOnce
    <2>13. CountedOnce(predictions', calibrated', n)
        <3>1. CountedOnce(predictions, calibrated, n) /\ CountedOnce(predictions', calibrated, n)
            BY <2>5, <2>12, DriverParts DEF MemoryCounts
        <3>2. \A i \in DOMAIN calibrated : calibrated[i] # active
            BY <2>2, <3>1 DEF CountedOnce
        <3>3. predictions'[active].outcome # "open"
            BY <2>3, <2>4
        <3>4. /\ DOMAIN calibrated' = DOMAIN calibrated \union {Len(calibrated) + 1}
              /\ Len(calibrated) + 1 \notin DOMAIN calibrated
              /\ calibrated'[Len(calibrated) + 1] = active
              /\ \A i \in DOMAIN calibrated : calibrated'[i] = calibrated[i]
            BY <2>1, <2>2, <2>5, LogMore
        <3>5. QED
            BY <2>2, <3>1, <3>2, <3>3, <3>4 DEF CountedOnce
    <2>14. LearnedOnce(predictions', learned')
        <3>1. LearnedOnce(predictions, learned)
            BY DriverParts DEF MemoryCounts
        <3>2. ASSUME NEW i \in DOMAIN learned
              PROVE  learned[i].id \in Ids /\ learned[i].id # active
            <4>1. learned[i] \in [id : Ids, route : Routes, success : BOOLEAN]
                BY <2>9, Element DEF Lessons
            <4>2. predictions[learned[i].id].outcome # "open"
                BY <3>1 DEF LearnedOnce
            <4>3. QED
                BY <2>2, <4>1, <4>2
        <3>3. LearnedOnce(predictions', learned)
            BY <2>4, <3>1, <3>2 DEF LearnedOnce
        <3>4. CASE learned' = learned
            BY <3>3, <3>4
        <3>5. CASE learned' = Append(learned, lesson) /\ activeRoute \in Routes
            <4>1. /\ DOMAIN learned' = DOMAIN learned \union {Len(learned) + 1}
                  /\ Len(learned) + 1 \notin DOMAIN learned
                  /\ learned'[Len(learned) + 1] = lesson
                  /\ \A i \in DOMAIN learned : learned'[i] = learned[i]
                BY <2>7, <2>9, <3>5, LogMore DEF Lessons
            <4>2. QED
                BY <2>4, <2>8, <3>2, <3>3, <4>1 DEF LearnedOnce
        <3>6. QED
            BY <2>6, <3>4, <3>5
    <2>15. MemoryCounts'
        BY <2>11, <2>13, <2>14 DEF MemoryCounts
    <2>16. SnapshotCounts'
        <3>1. file.level \in {2, 3} => file.calibrated \in Seq(Ids)
            BY DriverParts DEF FileSound, SnapshotType, NoFile
        <3>2. file.level \in {2, 3} => CountedOnce(predictions', file.calibrated, n)
            BY <2>12, <3>1, DriverParts DEF SnapshotCounts
        <3>3. QED
            BY <3>2, DriverParts DEF SnapshotCounts
    <2>17. QED
        BY <1>1, <2>10, <2>15, <2>16
<1>4. QED
    BY <1>2, <1>3

-----------------------------------------------------------------------------
LEMMA HeartbeatStep ==
    ASSUME DriverInv, AnyHeartbeat
    PROVE  DriverInv'
<1>1. PICK ends \in SUBSET vehicle.held, old \in SUBSET SameTitle(vehicle) :
        \E tested \in Reports(ends, old) :
        \E first \in Inspected(ends, old, 1), second \in Inspected(ends, old, 2) :
            Heartbeat(ends, old, tested, first, second)
    BY DEF AnyHeartbeat
<1>2. PICK tested \in Reports(ends, old), first \in Inspected(ends, old, 1),
            second \in Inspected(ends, old, 2) :
        Heartbeat(ends, old, tested, first, second)
    BY <1>1
<1>3. ends \in SUBSET Copies /\ old \in SUBSET Copies
    BY DriverParts, ProjectParts DEF Sound, SameTitle
<1>4. PICK worked \in WorkCycle(vehicle, ends, old, tested, first, second) :
        /\ vehicle' = worked
        /\ IF BuildComplete(worked)
           THEN /\ mission' = [mission EXCEPT !.status = "complete"]
                /\ ResolveRoute(TRUE)
           ELSE UNCHANGED mission /\ UNCHANGED topology
    BY <1>2 DEF Heartbeat
<1>5. /\ HasProject
      /\ ledger' = Observed /\ UNCHANGED <<paused, file, used>>
    BY <1>2 DEF Heartbeat
<1>6. Sound(vehicle')
    BY <1>3, <1>4, <1>5, DriverParts, WorkCycleSound DEF HasProject
<1>7. mission' \in MissionStates
    BY <1>4, DriverParts DEF MissionStates
<1>8. CASE ResolveRoute(TRUE)
    BY <1>5, <1>6, <1>7, <1>8, DriverParts, HistoryObserved, ResolveStep, DriverMade
<1>9. CASE UNCHANGED topology
    <2>1. UNCHANGED <<predictions, active, activeRoute, learned, calibrated>>
        BY <1>9 DEF topology
    <2>2. UsedType' /\ used'.missions = used.missions
        BY <1>5, DriverParts DEF UsedType
    <2>3. QED
        BY <1>5, <1>6, <1>7, <2>1, <2>2, DriverParts, HistoryObserved, QuietStep
            DEF TopologyTypes
<1>10. QED
    BY <1>4, <1>8, <1>9

LEMMA OutcomeStep ==
    ASSUME DriverInv, PausedHeartbeat \/ ExhaustRun
    PROVE  DriverInv'
<1>1. PICK success \in BOOLEAN : ResolveRoute(success)
    BY DEF PausedHeartbeat, ExhaustRun
<1>2. /\ UNCHANGED <<vehicle, paused, file, used>> /\ ledger' = Observed
      /\ mission' \in {mission, [mission EXCEPT !.status = "halted"]}
    BY DEF PausedHeartbeat, ExhaustRun
<1>3. mission' \in MissionStates
    BY <1>2, DriverParts DEF MissionStates
<1>4. QED
    BY <1>1, <1>2, <1>3, DriverParts, HistoryObserved, ResolveStep, DriverMade

-----------------------------------------------------------------------------
(* What a snapshot of memory is.                                           *)
LEMMA SnapshotMade ==
    ASSUME DriverInv, NEW level \in 1..4
    PROVE  /\ Snapshot(level) \in SnapshotType /\ Snapshot(level).level = level
           /\ Gated(Snapshot(level).project)
           /\ Snapshot(level).predictions = predictions
           /\ Snapshot(level).calibrated = calibrated
           /\ Snapshot(level).learned = learned
<1>1. vehicle.project \in Project /\ Gated(vehicle.project)
    BY DriverParts, ProjectParts DEF Sound
<1>2. QED
    BY <1>1, DriverParts DEF Snapshot, SnapshotType, TopologyTypes

LEMMA SaveStep ==
    ASSUME DriverInv, Save
    PROVE  DriverInv'
<1>1. /\ file' = Snapshot(4) /\ Trouble
      /\ UNCHANGED <<vehicle, mission, paused, predictions, active, activeRoute, learned,
                     calibrated>>
      /\ ledger' \in {ledger, "continues"}
    BY DEF Save, topology
<1>2. UsedType' /\ used'.missions = used.missions
    BY <1>1, DriverParts, TroubleUsed
<1>3. FileSound' /\ file'.level = 4
    BY <1>1, SnapshotMade DEF FileSound
<1>4. TopologyTypes' /\ MemoryCounts'
    BY <1>1, <1>2, DriverParts DEF TopologyTypes, MemoryCounts
<1>5. SnapshotCounts'
    BY <1>1, <1>2, <1>3, SnapshotMade, DriverParts DEF SnapshotCounts, MemoryCounts
<1>6. ledger' \in Histories
    BY <1>1, DriverParts DEF Histories
<1>7. QED
    BY <1>1, <1>2, <1>3, <1>4, <1>5, <1>6, DriverParts, DriverMade

(* After a kill no prediction is open, so none the snapshot counts is.     *)
LEMMA KillStep ==
    ASSUME DriverInv, Kill
    PROVE  DriverInv'
<1>1. /\ Trouble /\ vehicle' = NewVehicle /\ mission' = NoMission /\ paused' = FALSE
      /\ predictions' = [i \in Ids |-> NoPrediction]
      /\ active' = 0 /\ activeRoute' = "none" /\ learned' = <<>> /\ calibrated' = <<>>
      /\ ledger' \in {ledger, "empty"}
    BY DEF Kill
<1>2. UsedType' /\ used'.missions = used.missions
    BY <1>1, DriverParts, TroubleUsed
<1>3. Sound(vehicle') /\ mission' \in MissionStates /\ paused' \in BOOLEAN
      /\ ledger' \in Histories
    BY <1>1, EmptyVehicle, DriverParts DEF MissionStates, NoMission, Histories
<1>4. TopologyTypes'
    BY <1>1, DriverAssumption DEF TopologyTypes, PredictionMap, NoPrediction, Lessons
<1>5. MemoryCounts'
    BY <1>1 DEF MemoryCounts, Numbered, CountedOnce, LearnedOnce, NoPrediction
<1>6. ASSUME NEW counted \in Seq(Ids), NEW preds,
             CountedOnce(preds, counted, used.missions)
      PROVE  CountedOnce(predictions', counted, used.missions)
    <2>1. \A i \in DOMAIN counted : counted[i] \in Ids
        BY <1>6, Element
    <2>2. QED
        BY <1>1, <1>6, <2>1 DEF CountedOnce, NoPrediction
<1>7. \/ file' = file
      \/ file' = NoFile
      \/ \E level \in 1..3 : file' = Snapshot(level)
    BY DEF Kill
<1>8. CASE file' = file
    <2>1. file.level \in {2, 3} => file.calibrated \in Seq(Ids)
        BY DriverParts DEF FileSound, SnapshotType, NoFile
    <2>2. file.level \in {2, 3} =>
            CountedOnce(predictions', file.calibrated, used.missions)
        BY <1>6, <2>1, DriverParts DEF SnapshotCounts
    <2>3. SnapshotCounts' /\ FileSound'
        BY <1>2, <1>8, <2>2, DriverParts DEF SnapshotCounts, FileSound
    <2>4. QED
        BY <1>2, <1>3, <1>4, <1>5, <2>3, DriverMade
<1>9. CASE file' = NoFile
    <2>1. SnapshotCounts' /\ FileSound'
        BY <1>9 DEF SnapshotCounts, FileSound, NoFile
    <2>2. QED
        BY <1>2, <1>3, <1>4, <1>5, <2>1, DriverMade
<1>10. CASE \E level \in 1..3 : file' = Snapshot(level)
    <2>1. PICK level \in 1..3 : file' = Snapshot(level)
        BY <1>10
    <2>2. FileSound' /\ file'.level = level /\ file'.calibrated = calibrated
        BY <2>1, SnapshotMade DEF FileSound
    <2>3. CountedOnce(predictions', calibrated, used.missions)
        BY <1>6, DriverParts DEF MemoryCounts, TopologyTypes
    <2>4. SnapshotCounts'
        BY <1>2, <2>2, <2>3 DEF SnapshotCounts
    <2>5. QED
        BY <1>2, <1>3, <1>4, <1>5, <2>2, <2>4, DriverMade
<1>11. QED
    BY <1>7, <1>8, <1>9, <1>10

LEMMA SnapshotParts ==
    ASSUME DriverInv, file.level > 0
    PROVE  /\ file \in SnapshotType /\ file.level \in 1..4 /\ file.project \in Project
           /\ file.calibrated \in Seq(Ids) /\ file.mission \in MissionStates
           /\ file.paused \in BOOLEAN /\ file.predictions \in PredictionMap
           /\ file.active \in 0..MaxMissions /\ file.learned \in Lessons
           /\ Gated(file.project)
BY DriverParts DEF FileSound, SnapshotType, NoFile

LEMMA RestoredSound ==
    ASSUME DriverInv, file.level > 0, NEW receipts \in SUBSET TaskTypes
    PROVE  Sound(Restored(receipts))
<1> DEFINE p == [file.project EXCEPT !.receipts = receipts]
           w == Restored(receipts)
<1>1. vehicle \in VehicleType /\ Gated(file.project)
    BY DriverParts, SnapshotParts DEF Sound
<1>2. /\ p \in Project /\ p.types = file.project.types /\ p.status = file.project.status
      /\ w = [vehicle EXCEPT !.project = p, !.held = {}, !.stale = Orphaned(vehicle)]
    BY SnapshotParts DEF Project, Restored
<1> HIDE DEF p, w
<1>3. w \in VehicleType /\ w.project = p
    BY <1>1, <1>2, OrphanedCopies DEF VehicleType
<1>4. Sound(w)
    BY <1>1, <1>2, <1>3 DEF Sound, Gated
<1>5. QED
    BY <1>4 DEF w

LEMMA ReceiptsFound ==
    ASSUME DriverInv, file.level > 0
    PROVE  /\ vehicle.project.receipts \in SUBSET TaskTypes
           /\ file.project.receipts \in SUBSET TaskTypes
           /\ file.project.directive \in Directives \union {NoDirective}
<1>1. vehicle.project.receipts \in SUBSET TaskTypes
    BY DriverParts, ProjectParts DEF Sound
<1>2. QED
    BY <1>1, SnapshotParts DEF Project

LEMMA RefuseStep ==
    ASSUME DriverInv, RefuseLoad
    PROVE  DriverInv'
<1>1. /\ file.level > 0 /\ Trouble
      /\ UNCHANGED <<mission, paused, predictions, active, activeRoute, learned, calibrated,
                     file, ledger>>
    BY DriverParts DEF RefuseLoad, topology, FileSound, SnapshotType, NoFile
<1>2. Sound(vehicle')
    BY <1>1, ReceiptsFound, RestoredSound DEF RefuseLoad
<1>3. UsedType' /\ used'.missions = used.missions
    BY <1>1, DriverParts, TroubleUsed
<1>4. QED
    BY <1>1, <1>2, <1>3, DriverParts, QuietStep DEF TopologyTypes

(* A snapshot brings back predictions together with what counts them, or   *)
(* a calibration that fits the predictions in memory.                      *)
LEMMA LoadStep ==
    ASSUME DriverInv, Load
    PROVE  DriverInv'
<1>1. /\ file.level > 0 /\ Trouble /\ UNCHANGED <<activeRoute, file>>
      /\ ledger' \in {ledger, "continues", "other"}
      /\ calibrated' = IF file.level >= 2 THEN file.calibrated ELSE calibrated
      /\ IF file.level = 4
         THEN /\ predictions' = file.predictions
              /\ active' = file.active
              /\ learned' = file.learned
         ELSE UNCHANGED <<predictions, active, learned>>
    BY DEF Load
<1>2. Sound(vehicle')
    <2>1. PICK kept \in {{}, vehicle.project.receipts} :
            vehicle' = Restored(IF file.level >= 2 THEN file.project.receipts ELSE kept)
        BY DEF Load
    <2>2. (IF file.level >= 2 THEN file.project.receipts ELSE kept) \in SUBSET TaskTypes
        BY <1>1, ReceiptsFound
    <2>3. QED
        BY <1>1, <2>1, <2>2, RestoredSound
<1>3. mission' \in MissionStates /\ paused' \in BOOLEAN
    <2>1. [directive |-> file.project.directive, status |-> "running"] \in MissionStates
        BY <1>1, ReceiptsFound DEF MissionStates
    <2>2. QED
        BY <1>1, <2>1, DriverParts, SnapshotParts DEF Load
<1>4. UsedType' /\ used'.missions = used.missions
    BY <1>1, DriverParts, TroubleUsed
<1>5. ledger' \in Histories /\ FileSound'
    BY <1>1, DriverParts DEF Histories, FileSound
<1>6. TopologyTypes'
    BY <1>1, DriverParts, SnapshotParts DEF TopologyTypes
<1>7. MemoryCounts' /\ SnapshotCounts'
    <2>1. file.level \in 1..4
        BY <1>1, SnapshotParts
    <2>2. CASE file.level = 1
        BY <1>1, <1>4, <2>2, DriverParts DEF MemoryCounts, SnapshotCounts
    <2>3. CASE file.level \in {2, 3}
        BY <1>1, <1>4, <2>3, DriverParts DEF MemoryCounts, SnapshotCounts
    <2>4. CASE file.level = 4
        BY <1>1, <1>4, <2>4, DriverParts DEF MemoryCounts, SnapshotCounts
    <2>5. QED
        BY <2>1, <2>2, <2>3, <2>4
<1>8. QED
    BY <1>2, <1>3, <1>4, <1>5, <1>6, <1>7, DriverMade

-----------------------------------------------------------------------------
LEMMA DriverStep == DriverInv /\ [Next]_driverVars => DriverInv'
<1> SUFFICES ASSUME DriverInv, [Next]_driverVars
             PROVE  DriverInv'
    OBVIOUS
<1>1. CASE Next
    BY <1>1, RejectStep, StartStep, HeartbeatStep, OutcomeStep, ContinueStep, PauseStep,
       SaveStep, KillStep, LoadStep, RefuseStep DEF Next
<1>2. CASE UNCHANGED driverVars
    <2>1. UNCHANGED <<vehicle, mission, paused, predictions, active, activeRoute, learned,
                      calibrated, file, ledger, used>>
        BY <1>2 DEF driverVars
    <2>2. QED
        BY <2>1, DriverParts, QuietStep DEF TopologyTypes, UsedType
<1>3. QED
    BY <1>1, <1>2

LEMMA DriverHolds == Spec => []DriverInv
BY DriverInit, DriverStep, PTL DEF Spec

(* Every handler leaves a mission, a vehicle, predictions and a snapshot   *)
(* of the shapes the next one reads (the driver's classes).                *)
THEOREM DriverTyped == Spec => []DriverTypeOK
<1>1. DriverInv => DriverTypeOK
    BY DEF DriverInv, DriverTypes
<1>2. QED
    BY <1>1, DriverHolds, PTL

(* The phase law: a ticket is under way, in review or done only when those *)
(* it depends on are done, after any sequence of cycles, reviews, rework,  *)
(* stale reports, kills and loads of whole or half-written snapshots.      *)
THEOREM PhaseLaw == Spec => []DependencyGate
<1>1. DriverInv => DependencyGate
    BY DEF DriverInv, GateHeld, Gated, DependencyGate, Present, Done
<1>2. QED
    BY <1>1, DriverHolds, PTL

(* A prediction enters the calibration and what the routes learned at most *)
(* once, with the outcome it got (TopologicalVictorDriver).                *)
THEOREM OutcomesCounted == Spec => []OutcomesCountOnce
<1>1. DriverInv => OutcomesCountOnce
    BY DEF DriverInv, MemoryCounts, CountedOnce, LearnedOnce, OutcomesCountOnce
<1>2. QED
    BY <1>1, DriverHolds, PTL
=============================================================================
