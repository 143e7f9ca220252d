--------------------------- MODULE TopologyKernel ---------------------------
(***************************************************************************)
(* How Victor turns an owner's directive into a route: the mission         *)
(* compiler, the capability registry and the choice kernel, pure           *)
(* functions of the directive, the lease and what was learned.             *)
(*                                                                         *)
(* Abstractions.  A directive is the kind of software it asks for, which   *)
(* is all the compiler's keyword tests find in it that matters to a route. *)
(* Scores are compared, never shown: of the utility only its order is      *)
(* kept, and among feasible plans that is the order of their effort.       *)
(***************************************************************************)
EXTENDS Naturals, FiniteSets

CONSTANTS
    Directives,   \* kinds of directive an owner may give
    Leased        \* active task types of the capability lease

TaskTypes == {"research", "design", "frontend", "backend", "testing", "beta_testing"}
CodeTypes == {"design", "frontend", "backend"}
Kinds == {"mobile_application", "api_service", "website", "static_website", "general"}

ASSUME TopologyAssumption ==
    /\ Directives \subseteq Kinds
    /\ Leased \subseteq TaskTypes

NoPlan == [name |-> "none", types |-> {}]

(* DEPENDENCIES of the vehicle, and what a plan's tasks depend on.         *)
Prerequisites ==
    [t \in TaskTypes |->
        CASE t = "research"      -> {}
          [] t = "design"        -> {"research"}
          [] t = "frontend"      -> {"research", "design"}
          [] t = "backend"       -> {"research", "design"}
          [] t = "testing"       -> CodeTypes
          [] t = "beta_testing"  -> {"testing"}]

Effort ==
    [t \in TaskTypes |->
        CASE t = "research" -> 20 [] t = "design" -> 30 [] t = "frontend" -> 50
          [] t = "backend" -> 60 [] t = "testing" -> 30 [] t = "beta_testing" -> 35]

TotalEffort(plan) ==
    LET cost(t) == IF t \in plan.types THEN Effort[t] ELSE 0
    IN  cost("research") + cost("design") + cost("frontend")
        + cost("backend") + cost("testing") + cost("beta_testing")

BuildPlan(name, build) ==
    [name |-> name,
     types |-> {"research", "design", "testing", "beta_testing"} \union build]

(* MissionCompiler.candidates: a mobile application has none.              *)
Candidates(d) ==
    CASE d = "mobile_application" -> {}
      [] d = "api_service" -> {BuildPlan("api-evidence-route", {"backend"})}
      [] d \in {"website", "static_website"} ->
            {BuildPlan("full-web-evidence-route", {"frontend", "backend"}),
             BuildPlan("frontend-only-evidence-route", {"frontend"})}
      [] d = "general" -> {BuildPlan("general-backend-evidence-route", {"backend"})}

(* ChoiceKernel._required_goal_types.                                      *)
RequiredGoals(d) ==
    {"research", "design", "testing", "beta_testing"}
    \union (IF d \in {"website", "static_website"} THEN {"frontend"} ELSE {})
    \union (IF d \in {"website", "api_service", "general", "mobile_application"}
            THEN {"backend"} ELSE {})

(* CapabilityRegistry.assess: the default registry covers every task type. *)
MissingTypes(plan) == plan.types \ Leased

(* What evaluate holds against a plan.                                     *)
Feasible(d, plan) ==
    /\ MissingTypes(plan) = {}
    /\ RequiredGoals(d) \subseteq plan.types
    /\ \A t \in plan.types : Prerequisites[t] \ CodeTypes \subseteq plan.types

(* Below min_samples resolved outcomes a route has no preference.          *)
Preference(attempts, successes) ==
    IF attempts < 5 THEN [num |-> 0, den |-> 0] ELSE [num |-> successes, den |-> attempts]

Preferred(a, b) ==
    \/ a.den > 0 /\ b.den = 0
    \/ a.den > 0 /\ b.den > 0 /\ a.num * b.den > b.num * a.den

(* choose: the cheapest feasible plan; what was learned only breaks a tie. *)
Chosen(d, learned) ==
    LET feasible == {plan \in Candidates(d) : Feasible(d, plan)}
        Before(p, q) ==
            \/ TotalEffort(p) < TotalEffort(q)
            \/ /\ TotalEffort(p) = TotalEffort(q)
               /\ ~Preferred(learned[q.name], learned[p.name])
    IN  IF feasible = {} THEN NoPlan
        ELSE CHOOSE p \in feasible : \A q \in feasible : Before(p, q)

Routes == {plan.name : plan \in UNION {Candidates(d) : d \in Directives}}
=============================================================================
