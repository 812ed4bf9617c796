SPECIFICATION SystemSpec
CONSTANTS
    NoApp = NoApp
    Items <- ScanItems
    BuildLimits <- JustTwo
    PreviewLimits <- JustOne
    Capacity = 2
    PreviewCapacity = 1
    Scans = {"s1"}
    AppOf <- TwoApps
    MaxRequestedCycle = 2
    MaxFaults = 1
    Runs = {1, 2}
    Requests = {j1, j2}
    NoRequest = none
    WorkRows = {r}
    Activities = {a}
    MaxVersion = 1
    MaxMishaps = 2
    OperatorWaits = TRUE
    NoOfDeliveries = 2
    MaxAttempts = 2
    MaxTroubles = 1
CHECK_DEADLOCK FALSE
INVARIANTS
    ScanInv
    QuietWhileReplacing
    RecordsAreTrue
    ThreadInv
PROPERTIES
    RequestedIsScanned
    AdmissionReopens
    DeliveriesEnd
    NothingGoesBack
