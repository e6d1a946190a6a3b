SPECIFICATION MergesSpec
CONSTANTS
    Player = {1, 2}
    Attr = {a, b}
    MaxBatches = 2
PROPERTIES
    VersionsAreKept
CHECK_DEADLOCK FALSE
