\* One command at a time on one case; kills, outages, time and pushes.
CONSTANTS
    c1 = c1
    c2 = c2
    c3 = c3
    Procs = {p1}
    Cases = {c1}
    Risk <- AllLow
    Repair <- AllSupported
    Priority <- SamePriority
    CaseBase <- AtFirstHead
    Unpinned = {}
    AutoMax = 1
    QueueCap = 1
    PublishModes = {TRUE, FALSE}
    LeaseTerm = 2
    MaxTime = 3
    MaxHead = 1
    MaxCrashes = 2
    MaxOutages = 1
SPECIFICATION FairSpec
INVARIANTS TypeOK MovesWitnessed PublishedNeverFailed BranchRootedAtCaseBase
PROPERTIES FollowsLifecycle NoPullAfterRecord InFlightSettles ReadyPublishedInTime
CHECK_DEADLOCK FALSE
