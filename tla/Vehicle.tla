------------------------------- MODULE Vehicle -------------------------------
(***************************************************************************)
(* Dev-Ville as Victor drives it: DriverControlledVille over               *)
(* VictorMachineLaborCompany over VerifiedCompany over Company.  A vehicle *)
(* is a record, a handler an operator from a vehicle to the next one; the  *)
(* driver's module has the state.                                          *)
(*                                                                         *)
(* Abstractions.  A project has one task and one ticket per task type,     *)
(* titled by the type and the directive.  A pool of Pool workers serves    *)
(* each task type.  Of the task dictionaries in their queues `held` says   *)
(* who has which of the current project, `stale` which of projects that    *)
(* were replaced, whose progress no longer counts; those are ended only    *)
(* while a project of their title is current.  Of two copies               *)
(* handed out between two cycles the second goes to the next worker, where *)
(* the code puts it behind the first.  Progress is a boolean: the effort   *)
(* is spent or not, in any cycle.  Steering, feedback, morale and rewards  *)
(* change no ticket and are left out.                                      *)
(***************************************************************************)
EXTENDS TopologyKernel

CONSTANT Pool     \* workers of each task type
ASSUME PoolAssumption == Pool \in Nat \ {0}

Workers == 1..Pool     \* in the order of the roster
Copies == TaskTypes \X Workers     \* a task, and who holds it
First(S) == CHOOSE i \in S : \A j \in S : i <= j

NoDirective == "none"
Statuses == {"open", "in_progress", "in_review", "done"}

Scrapyard == [directive |-> NoDirective, types |-> {},
              status |-> [t \in TaskTypes |-> "open"],
              full |-> {}, assigned |-> {}, receipts |-> {}]

(* A company without a project; nobody has worked yet.                     *)
NewVehicle ==
    [project |-> Scrapyard, held |-> {},
     stale |-> [d \in Directives |-> {}],
     findings |-> {}, beta |-> [d \in Directives |-> [i \in Workers |-> "none"]]]

Present(v) == v.project.types
Done(v, t) == v.project.status[t] = "done"
InReview(v) == {t \in Present(v) : v.project.status[t] = "in_review"}

DepsDoneAny(v, t) == TRUE                          \* mutant: no gate

(* _deps_done: the prerequisites that are in the project are done.         *)
DepsDone(v, t) == \A p \in Prerequisites[t] \intersect Present(v) : Done(v, p)

(* The copies of projects with the title of the current one.               *)
SameTitle(v) ==
    IF v.project.directive = NoDirective THEN {} ELSE v.stale[v.project.directive]

Idle(v, t) == {i \in Workers : <<t, i>> \notin v.held \union SameTitle(v)}

(* assign_tasks, as the vehicle filters it: ready tasks go to the first    *)
(* idle worker; the testing task to nobody.                                *)
AssignTasks(v, tasks) ==
    LET ready == {t \in tasks \ {"testing"} : DepsDone(v, t) /\ Idle(v, t) # {}}
    IN  [v EXCEPT
            !.held = @ \union {<<t, First(Idle(v, t))>> : t \in ready},
            !.project.assigned = @ \union ready,
            !.project.status = [t \in TaskTypes |->
                IF t \in ready /\ @[t] = "open" THEN "in_progress" ELSE @[t]]]

IdleTasks(v) == Present(v) \ (v.project.full \union v.project.assigned)

(* The agents keep the tasks of the project that is replaced.              *)
Orphaned(v) ==
    IF v.project.directive = NoDirective THEN v.stale
    ELSE [v.stale EXCEPT ![v.project.directive] = @ \union v.held]

(* start_project_from_plan: only research is released.                     *)
StartFromPlan(v, d, plan) ==
    LET fresh == [v EXCEPT !.stale = Orphaned(v), !.held = {},
                           !.project = [Scrapyard EXCEPT !.directive = d,
                                                         !.types = plan.types]]
    IN  AssignTasks(fresh, {"research"})

(* continue_project: every unfinished task loses its assignee and is       *)
(* assigned again, also when somebody is at work on it.                    *)
ContinueProject(v) ==
    LET open == Present(v) \ v.project.full
    IN  AssignTasks([v EXCEPT !.project.assigned = @ \ open], open)

(* _development_artifacts_ready: until then a beta tester makes no progress. *)
ArtifactsReady(v) ==
    /\ CodeTypes \intersect Present(v) # {}
    /\ CodeTypes \intersect Present(v) \subseteq v.project.full

(* The copies of these that can be ended: a beta tester makes no progress  *)
(* while artifacts are missing, unless the task has its effort already.    *)
Endable(v, copies) ==
    {c \in copies : c[1] = "beta_testing" => ArtifactsReady(v)}
Exhausted(v) == {c \in v.held : c[1] \in v.project.full}

MayComplete(v, ends, old) ==
    /\ ends \subseteq Endable(v, v.held) \union Exhausted(v)
    /\ old \subseteq Endable(v, SameTitle(v))

(* EvidenceResearcherAgent.complete_task.                                  *)
Findings(v, finished) ==
    IF "research" \in finished THEN v.findings \union {v.project.directive} ELSE v.findings

(* ExecutableBetaTesterAgent.complete_task with the beta organ's run: each *)
(* of the testers who ended a test reports what he found, and his newest   *)
(* report on a title hides his older ones.                                 *)
BetaReports(v, tested) ==
    [v.beta EXCEPT ![v.project.directive] = [i \in Workers |->
        IF i \notin DOMAIN tested THEN @[i] ELSE IF tested[i] THEN "passed" ELSE "failed"]]

(* _latest_beta_report: the newest of the first tester who has one, however *)
(* much newer those of the others are.                                     *)
Reporters(v, d) == {i \in Workers : v.beta[d][i] # "none"}
LatestBetaReport(v, d) ==
    IF Reporters(v, d) = {} THEN "none" ELSE v.beta[d][First(Reporters(v, d))]

(* _advance_ticket: any finished copy moves the ticket of its title from   *)
(* in_progress to review, whichever project it was made for.               *)
Advance(v, finished) ==
    [t \in TaskTypes |->
        IF t \in finished /\ v.project.status[t] = "in_progress" THEN "in_review"
        ELSE v.project.status[t]]

(* The agents' part of Company.work_cycle.                                 *)
CompleteTasks(v, ends, old, tested) ==
    LET finished == {c[1] : c \in ends \union old}
    IN  [v EXCEPT
            !.held = @ \ ends,
            !.stale[v.project.directive] = @ \ old,
            !.findings = Findings(v, finished),
            !.beta = BetaReports(v, tested),
            !.project.full = @ \union {c[1] : c \in ends},
            !.project.status = Advance(v, finished)]

(* What the artifact of a task may be, and what verify makes of it: the    *)
(* compile step has a timeout nobody catches.                              *)
Artifacts == {"good", "unsafe", "empty", "unprofiled", "uncompilable",
              "failing", "slow", "stuck"}
GeneratesTest(a) == a \notin {"unsafe", "empty", "unprofiled", "uncompilable"}
Materializes(a) == a \notin {"unsafe", "empty"}
TestsPass(a) == a \notin {"failing", "slow", "stuck"}
Verdict(a) ==
    IF a = "stuck" THEN "raise"
    ELSE IF Materializes(a) /\ GeneratesTest(a) /\ TestsPass(a) THEN "pass"
    ELSE "fail"

(* Ticket.complete after Ticket.approve.                                   *)
Accept(v, t) == [v EXCEPT !.project.status[t] = "done"]

RejectKept(v, t) ==                                \* mutant: task not reset
    [v EXCEPT !.project.status[t] = "in_progress"]

(* Ticket.reject and _reset_task_for_rework.                               *)
Reject(v, t) ==
    [v EXCEPT !.project.status[t] = "in_progress",
              !.project.full = @ \ {t},
              !.project.assigned = @ \ {t}]

(* The first ticket in review, in the order of the plan.                   *)
PlanOrder == [t \in TaskTypes |->
    CASE t = "research" -> 1 [] t = "design" -> 2 [] t = "frontend" -> 3
      [] t = "backend" -> 4 [] t = "testing" -> 5 [] t = "beta_testing" -> 6]

FirstInReview(v) ==
    CHOOSE t \in InReview(v) : \A u \in InReview(v) : PlanOrder[t] <= PlanOrder[u]

(* VerifiedCompany._supervisor_review_cycle: by the receipt of verify.     *)
ReviewCode(v, t, artifact) ==
    IF Verdict(artifact) = "pass"
    THEN [Accept(v, t) EXCEPT !.project.receipts = @ \union {t}]
    ELSE Reject(v, t)

(* _supervisor_review_cycle: one ticket per supervisor, by its evidence.   *)
Review(v, artifact) ==
    IF InReview(v) = {} THEN v
    ELSE LET t == FirstInReview(v)
             d == v.project.directive
         IN  CASE t = "research" ->
                    IF d \in v.findings THEN Accept(v, t) ELSE Reject(v, t)
               [] t = "beta_testing" ->
                    IF LatestBetaReport(v, d) = "passed" THEN Accept(v, t) ELSE Reject(v, t)
               [] t = "testing" ->
                    IF \A c \in CodeTypes \intersect Present(v) : Done(v, c)
                    THEN Accept(v, t) ELSE v
               [] t \in CodeTypes -> ReviewCode(v, t, artifact)

(* The verification of this ticket lets an exception out.                  *)
Raises(v, artifact) ==
    /\ InReview(v) # {}
    /\ FirstInReview(v) \in CodeTypes
    /\ Verdict(artifact) = "raise"

(* _materialize_verification_qa: testing is submitted on the receipts of   *)
(* all code tickets.                                                       *)
MaterializeQA(v) ==
    LET code == CodeTypes \intersect Present(v)
    IN  IF /\ "testing" \in Present(v)
           /\ ~Done(v, "testing")
           /\ DepsDone(v, "testing")
           /\ code # {}
           /\ code \subseteq v.project.receipts
        THEN [v EXCEPT !.project.full = @ \union {"testing"},
                       !.project.assigned = @ \union {"testing"},
                       !.project.status["testing"] = "in_review"]
        ELSE v

(* The end of work_cycle: idle tasks are assigned before and after.        *)
IdleWork(v) ==
    UNION {{AssignTasks(qa, IdleTasks(qa)) : qa \in {MaterializeQA(idled)}}
        : idled \in {AssignTasks(v, IdleTasks(v))}}

(* work_cycle of the four classes: the agents, then the two supervisors,   *)
(* then the idle tasks; an exception leaves what was done up to it.  The   *)
(* set of the one vehicle it ends with.                                    *)
WorkCycle(v, ends, old, tested, first, second) ==
    UNION {UNION {
        IF Raises(worked, first) THEN {worked}
        ELSE IF Raises(once, second) THEN {once}
        ELSE UNION {IdleWork(twice) : twice \in {Review(once, second)}}
        : once \in {Review(worked, first)}}
        : worked \in {CompleteTasks(MaterializeQA(v), ends, old, tested)}}

(* authoritative_build_complete.                                           *)
BuildComplete(v) == Present(v) # {} /\ \A t \in Present(v) : Done(v, t)
=============================================================================
