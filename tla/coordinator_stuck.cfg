SPECIFICATION Spec
CONSTANTS
    NoApp = NoApp
    Items <- PreviewAndCheck
    BuildLimits <- OneOrTwo
    PreviewLimits <- OneOrTwo
    Capacity = 2
    PreviewCapacity = 2
INVARIANTS
    NeverAsleepOnWork
