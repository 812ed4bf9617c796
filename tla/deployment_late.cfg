SPECIFICATION Spec
CONSTANTS
    d1 = d1
    d2 = d2
    d3 = d3
    Deployments <- Two
    Compose = FALSE
    Fallback = FALSE
    MaxRecoveries = 2
    Faults <- LateFaults
CHECK_DEADLOCK FALSE
SYMMETRY SymmetryOfTwo
INVARIANTS
    LifecycleInv
PROPERTIES
    TerminalIsFinal
