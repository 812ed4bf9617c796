SPECIFICATION AutomationSpec
CONSTANTS
    MaxCommit = 2
    MaxSync = 2
    DigestOf <- DigestsDiffer
    SyncTries = 2
    Controls = {"source"}
    MaxPauses = 3
    MaxSnags = 0
CHECK_DEADLOCK FALSE
INVARIANTS
    HeldBackIsDeferred
