SPECIFICATION Spec
CONSTANTS
    Nodes = {"store", "api", "app", "left", "right"}
    Deps <- MCDeps
    Automatic = {"store", "api", "app", "left", "right"}
    Blockers = {"store"}
    Contested = {}
    Edited = {"api"}
    Manifest0 <- MCManifest0
    Runners = {"cli", "ci"}
    MaxKills = 1
    MaxEdits = 1
INVARIANTS
    EmpireTypeOK
    RunsChain
PROPERTY
    Converges
