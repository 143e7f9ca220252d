---------------------------- MODULE MCHeartbeat -----------------------------
(* One write submitted to the heartbeat and, next to two better ones that  *)
(* can never be carried out, to the launch gate.                           *)
EXTENDS Heartbeat

MCCandidate ==
    [note  |-> [target |-> "notes", evidence |-> "present", risky |-> FALSE, score |-> 3],
     guess |-> [target |-> "notes", evidence |-> "missing", risky |-> FALSE, score |-> 5],
     wait  |-> [target |-> "noop",  evidence |-> "none",    risky |-> FALSE, score |-> 2],
     flee  |-> [target |-> "unsafe", evidence |-> "present", risky |-> TRUE, score |-> 7],
     bulk  |-> [target |-> "oversize", evidence |-> "present", risky |-> FALSE, score |-> 6],
     place |-> [target |-> "unwritable", evidence |-> "present", risky |-> FALSE, score |-> 5]]

MCConsidered ==
    [plain  |-> {"note", "guess", "wait"},
     strict |-> {"note", "flee", "bulk", "place"}]
=============================================================================
