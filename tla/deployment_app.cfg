SPECIFICATION Spec
CONSTANTS
    d1 = d1
    d2 = d2
    d3 = d3
    Deployments <- Three
    Compose = FALSE
    Fallback = TRUE
    MaxRecoveries = 2
    Faults <- Crashes
CHECK_DEADLOCK FALSE
SYMMETRY Symmetry
INVARIANTS
    CommitIsRespected
    NothingLeftBehind
PROPERTIES
    OutcomeSpec
