---------------------------- MODULE CaseLifecycle ----------------------------
(***************************************************************************)
(* The queue state machine RCP.md draws: the stages of a case in order,    *)
(* with AWAITING_APPROVAL as a detour before AUTHORIZED.  A case advances  *)
(* by one stage or fails; BLOCKED, FAILED and DRAFT_PR are ends.           *)
(***************************************************************************)
EXTENDS Naturals, Sequences

CONSTANT Cases

VARIABLE caseState

Stages == <<"ABSENT", "DISCOVERED", "TRIAGED", "AUTHORIZED", "CLAIMED",
            "PATCHING", "VERIFYING", "PROVEN", "RECEIPTED", "PR_READY",
            "DRAFT_PR">>

Init == caseState = [c \in Cases |-> "ABSENT"]

Move(c, st) == caseState' = [caseState EXCEPT ![c] = st]

Advance(c) == \E i \in 1..Len(Stages) - 1 :
    caseState[c] = Stages[i] /\ Move(c, Stages[i + 1])

AskHuman(c) == caseState[c] = "TRIAGED" /\ Move(c, "AWAITING_APPROVAL")

Approve(c) == caseState[c] = "AWAITING_APPROVAL" /\ Move(c, "AUTHORIZED")

Fail(c) ==
    /\ caseState[c] \notin {"ABSENT", "BLOCKED", "FAILED", "DRAFT_PR"}
    /\ Move(c, "FAILED")

Next == \E c \in Cases : Advance(c) \/ AskHuman(c) \/ Approve(c) \/ Fail(c)

Spec == Init /\ [][Next]_caseState
=============================================================================
