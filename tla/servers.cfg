SPECIFICATION ServersSpec
CONSTANTS
    Preparations = {"p1", "p2"}
    Checks = {"k1"}
    Configs = {"c1", "c2", "c3"}
    PreparationInputs <- ThirdNeedsMore
    NoConfig = none
    MaxUpsets = 2
    MaxGeneration = 2
    AgentTries = 2
    MaxHitches = 1
    MaxCommit = 2
    MaxSync = 2
    DigestOf <- DigestsDiffer
    SyncTries = 2
    Controls = {"environment", "source"}
    MaxPauses = 3
    MaxSnags = 1
CHECK_DEADLOCK FALSE
INVARIANTS
    UpkeepInv
    AgentInv
    AutomationInv
PROPERTIES
    ServerWorkEnds
    UpkeepIsFinal
    NewestIsDeployed
    NeverDeploysBack
