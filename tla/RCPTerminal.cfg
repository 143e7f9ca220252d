\* Two commands on one case: FAILED is overwritten (expected violation).
CONSTANTS
    c1 = c1
    c2 = c2
    c3 = c3
    Procs = {p1, p2}
    Cases = {c1}
    Risk <- AllLow
    Repair <- AllSupported
    Priority <- SamePriority
    CaseBase <- AtFirstHead
    Unpinned = {}
    AutoMax = 1
    QueueCap = 1
    PublishModes = {TRUE}
    LeaseTerm = 1
    MaxTime = 0
    MaxHead = 0
    MaxCrashes = 0
    MaxOutages = 0
SPECIFICATION Spec
CONSTRAINT OneRunsOn
PROPERTIES TerminalIsFinal
CHECK_DEADLOCK FALSE
