SPECIFICATION Spec
CONSTANTS
    Heartbeats = {"plain", "strict"}
    Gated = {"strict"}
    Considered <- MCConsidered
    Candidate <- MCCandidate
    Contradicted = {}
    Files = {"notes"}
    MaxReruns = 1
    MaxTroubles = 2
INVARIANTS
    WorldRebuilds
    EffectsAuthorizedOnce
    ExplanationCoherent
PROPERTY
    HeartbeatSettles
CHECK_DEADLOCK FALSE
