SPECIFICATION Spec
CONSTANTS
    NoApp = NoApp
    Items <- MixedItems
    BuildLimits <- OneOrTwo
    PreviewLimits <- OneOrTwo
    Capacity = 2
    PreviewCapacity = 2
INVARIANTS
    BarrierRunsAlone
