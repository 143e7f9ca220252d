------------------------- MODULE RemediationPromise -------------------------
(***************************************************************************)
(* What the remediation control plane promises of every case: nothing is   *)
(* proven without authority, nothing is published without proof, and       *)
(* authority above the ceiling comes from a human.                         *)
(***************************************************************************)
EXTENDS Naturals

CONSTANTS Cases, Risk, Repair, AutoMax

VARIABLES
    authority,   \* per case: "none", "auto" or "human"
    proven,      \* cases whose repair was independently verified
    published    \* cases visible on GitHub

vars == <<authority, proven, published>>

Init ==
    /\ authority = [c \in Cases |-> "none"]
    /\ proven = {}
    /\ published = {}

Authorize(c, who) ==
    /\ Repair[c] \notin {"none", "unbounded"}
    /\ who = "human" \/ Risk[c] <= AutoMax
    /\ authority' = [authority EXCEPT ![c] = who]
    /\ UNCHANGED <<proven, published>>

Prove(c) ==
    /\ authority[c] # "none"
    /\ proven' = proven \union {c}
    /\ UNCHANGED <<authority, published>>

Publish(c) ==
    /\ c \in proven
    /\ published' = published \union {c}
    /\ UNCHANGED <<authority, proven>>

Next == \E c \in Cases :
    \/ \E who \in {"auto", "human"} : Authorize(c, who)
    \/ Prove(c)
    \/ Publish(c)

Spec == Init /\ [][Next]_vars
=============================================================================
