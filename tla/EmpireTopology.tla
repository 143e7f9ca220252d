--------------------------- MODULE EmpireTopology ---------------------------
(***************************************************************************)
(* The Empire's manifest as a graph of nodes, the gaps EmpireAssessor      *)
(* finds in it and the remediations SelfCorrectingEmpire applies: pure     *)
(* functions of the manifest.                                              *)
(*                                                                         *)
(* Abstractions.  A manifest is the status of each node and the set of     *)
(* nodes with a verified readiness receipt; "active" counts as "ready",    *)
(* the quarantined and archived nodes, which no remediation touches, are   *)
(* left out.  What no run changes is constant.  A gap is its kind and the  *)
(* node or capability it is about.                                         *)
(***************************************************************************)
EXTENDS Naturals, FiniteSets, Relation

CONSTANTS
    Nodes,      \* nodes of the manifest
    Deps,       \* what each depends on, known or not
    Automatic,  \* nodes with auto_fix = "promote_ready"
    Blockers,   \* nodes with an external blocker
    Contested   \* capabilities with several canonical nodes

Status == {"ready", "planned", "blocked"}
Manifests == [status : [Nodes -> Status], evidence : SUBSET Nodes]

ASSUME TopologyAssumption == DOMAIN Deps = Nodes /\ Automatic \subseteq Nodes

Operational(m, n) == n \in Nodes /\ m.status[n] = "ready"

(* Which known nodes a node depends on in the end.  dependency_order raises*)
(* when one depends on itself; all that becomes of that is a gap.          *)
DependsOn == TransitiveClosure([e \in Nodes \X Nodes |-> e[2] \in Deps[e[1]]], Nodes)
Cyclic == \E n \in Nodes : DependsOn[n, n]

FalseReadiness(m) ==
    {n \in Nodes : Operational(m, n)
                   /\ \E d \in Deps[n] \intersect Nodes : ~Operational(m, d)}

PromotableUnready(m) == {n \in Automatic : m.status[n] # "ready"}

Promotable(m) ==
    {n \in Automatic : m.status[n] # "ready" /\ \A d \in Deps[n] : Operational(m, d)}

(* assess: the gaps of a manifest, each with the remediation it names.     *)
Gaps(m) ==
    ({"missing_dependency"} \X {n \in Nodes : ~(Deps[n] \subseteq Nodes)})
    \union ({"dependency_cycle"} \X (IF Cyclic THEN {"manifest"} ELSE {}))
    \union ({"duplicate_authority"} \X Contested)
    \union ({"false_readiness"} \X FalseReadiness(m))
    \union ({"verified_promotion_pending"} \X (Promotable(m) \intersect m.evidence))
    \union ({"unverified_promotion"} \X (Promotable(m) \ m.evidence))
    \union ({"external_blocker"} \X {n \in Blockers : m.status[n] = "blocked"})

RemedyMisspelt == [false_readiness |-> "demoted", verified_promotion_pending |-> "ready"]

(* The status _demote_blocked and _promote_ready write.                    *)
Remedy == [false_readiness |-> "blocked", verified_promotion_pending |-> "ready"]

Fixable(m) == {g \in Gaps(m) : g[1] \in DOMAIN Remedy}

(* The handlers, run for the gaps found before the first of them.          *)
Corrected(m) ==
    LET fixes == Fixable(m)
    IN  [m EXCEPT !.status = [n \in Nodes |->
            IF \E g \in fixes : g[2] = n
            THEN Remedy[(CHOOSE g \in fixes : g[2] = n)[1]]
            ELSE @[n]]]
=============================================================================
