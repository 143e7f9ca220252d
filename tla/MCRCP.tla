-------------------------------- MODULE MCRCP --------------------------------
(* Small instances of RCP for TLC: values of its function constants.       *)
EXTENDS RCP, TLC

CONSTANTS c1, c2, c3

(* One case, at the ceiling and above it.                                  *)
AllLow == [c \in Cases |-> 1]
AllHigh == [c \in Cases |-> 2]
AllSupported == [c \in Cases |-> "supported"]
AtFirstHead == [c \in Cases |-> 0]
SamePriority == [c \in Cases |-> 1]

(* Three cases: one that no recipe repairs, one above the ceiling and more *)
(* urgent, and one without a bounded repair.                               *)
OneAbove == [c \in Cases |-> IF c = c2 THEN 2 ELSE 1]
SecondFirst == [c \in Cases |-> IF c = c2 THEN 2 ELSE 1]
OneRepairable ==
    [c \in Cases |-> IF c = c1 THEN "unsupported"
                     ELSE IF c = c2 THEN "supported" ELSE "unbounded"]

(* Processes are interchangeable.                                          *)
SameProcs == Permutations(Procs)

(* Two processes at once, for the runs whose full interleaving is too     *)
(* large: at any time all of them but one are not running, or stand where   *)
(* a stale decision or a half-done effect is about to meet the others.      *)
Standing == {"off", "ready", "update", "writing", "except", "commit"}
OneRunsOn ==
    \A p, q \in Procs :
        p # q => proc[p].pc \in Standing \/ proc[q].pc \in Standing
=============================================================================
