\* Two processes on one store: every statement interleaves.
CONSTANTS
    Procs = {p1, p2}
    Strategies = {s1}
    Runs = {r1, r2}
    Receipts = {k1, k2}
    Amounts = {2}
    MinSamples = 2
    MaxParallel = 1
    MaxBudget = 3
    ScaleAverage = 1
    ScaleRoi <- Quarter
    ScaleWinRate <- ThreeFifths
SPECIFICATION Spec
CONSTRAINT OneRunsOn
INVARIANTS BudgetHeld OneVerdict CullsAreDecided
PROPERTIES SettledFinal
SYMMETRY Interchangeable
