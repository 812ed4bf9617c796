SPECIFICATION WorkloadsSpec
CONSTANTS
    MaxCommit = 2
    InputsOf <- SameInputs
    MaxBuilds = 2
    CleanupTries = 2
    MaxMisfortunes = 1
    Rewinds = FALSE
    Restores = {r1, r2}
    Original = v0
    NoVolume = none
    MaxRestoreMishaps = 1
CHECK_DEADLOCK FALSE
INVARIANTS
    PreviewInv
    RestoreInv
    ServiceIsAsTold
PROPERTIES
    EveryPreviewEnds
    RestoresEnd
    NothingGoesBack
