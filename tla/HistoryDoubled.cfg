SPECIFICATION Spec
CONSTANTS
    NULL = NULL
    Player = {1}
    Attr = {a, b}
    NBatches = 3
    Batch <- Batches
    DateOf <- Dates
    Appearance <- Appearances
    MaxAttempts = 1
    MaxFailures = 0
INVARIANTS
    SnapshotKeysAreUnique
CHECK_DEADLOCK FALSE
