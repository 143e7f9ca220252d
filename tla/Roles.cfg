SPECIFICATION Spec
CONSTANTS
    Documents <- MCDocuments
    Sources = {"app"}
    Bundles = {{"app"}}
    Versions = {0, 1}
    Paths = {"test_report", "release_report"}
    Workers = {ci, desk}
    MaxEvidence = 4
    MaxExecutions = 3
    MaxEdits = 1
INVARIANTS
    RolesTypeOK
    PackagedAsTested
PROPERTY
    ReplacingInvalidates
SYMMETRY WorkerSymmetry
CHECK_DEADLOCK FALSE
