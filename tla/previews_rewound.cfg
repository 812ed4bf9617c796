SPECIFICATION PreviewSpec
CONSTANTS
    MaxCommit = 2
    InputsOf <- OwnInputs
    MaxBuilds = 2
    CleanupTries = 2
    MaxMisfortunes = 0
    Rewinds = TRUE
INVARIANTS
    HealthyShowsHead
