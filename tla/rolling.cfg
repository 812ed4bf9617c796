SPECIFICATION ReplacementSpec
CONSTANTS
    Rollouts <- SmallRollouts
    PreviousCounts <- UpToThree
    MaxRecoveries = 2
    Faults <- FaultKinds
CHECK_DEADLOCK FALSE
INVARIANTS
    RolloutInv
    StaysAvailable
    WithinSurge
    PromotedIsComplete
    FailureRestores
    HeadroomSuffices
PROPERTIES
    RolloutEnds
    ComposeIsDecided
