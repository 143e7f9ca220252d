CONSTANTS
    Directives = {"api_service", "mobile_application"}
    Leased = {"research", "design", "frontend", "backend", "testing", "beta_testing"}
    Pool = 2
    Qualities = {"good", "failing", "stuck"}
    Ledgers = {"empty"}
    MaxMissions = 2
    MaxTroubles = 2
SPECIFICATION Spec
INVARIANTS DriverTypeOK DependencyGate OutcomesCountOnce
PROPERTY BuildCompletes
CHECK_DEADLOCK FALSE
