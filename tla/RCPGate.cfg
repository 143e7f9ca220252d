\* One command at a time on three cases: one no recipe repairs, one above the
\* ceiling and unpinned, one without a bounded repair.
CONSTANTS
    c1 = c1
    c2 = c2
    c3 = c3
    Procs = {p1}
    Cases = {c1, c2, c3}
    Risk <- OneAbove
    Repair <- OneRepairable
    Priority <- SecondFirst
    CaseBase <- AtFirstHead
    Unpinned = {c2}
    AutoMax = 1
    QueueCap = 1
    PublishModes = {TRUE}
    LeaseTerm = 1
    MaxTime = 1
    MaxHead = 1
    MaxCrashes = 1
    MaxOutages = 0
SPECIFICATION Spec
INVARIANTS AutonomyCeiling ReceiptBeforePublish
CHECK_DEADLOCK FALSE
