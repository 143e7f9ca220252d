\* Two processes and every write error.
CONSTANTS
    Procs = {p1, p2}
    Keys = {k1, k2, k3}
    MaxEvents = 4
    MaxErrors = 2
    WriteErrors = {"nothing", "partial", "unterminated"}
SPECIFICATION Spec
INVARIANTS SemanticOnce
PROPERTIES OpenSeesAcknowledged ImplementsKeyedLedger
CHECK_DEADLOCK FALSE
