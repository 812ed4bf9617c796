SPECIFICATION MixesSpec
CONSTANTS
    NoApp = NoApp
    Items <- MixesItems
    BuildLimits <- OneOrTwo
    PreviewLimits <- OneOrTwo
    Capacity = 2
    PreviewCapacity = 2
INVARIANTS
    CoordinatorInv
PROPERTIES
    BarrierNotOvertaken
    SameAppInOrder
    ProductionFirst
    AccessSpec
    AcceptedWorkBegins
