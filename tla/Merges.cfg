SPECIFICATION MergesSpec
CONSTANTS
    Player = {1, 2}
    Attr = {a, b}
    MaxBatches = 4
INVARIANTS
    SurrogateKeysAreUnique
    OneCurrentVersion
    LookupIsHalfOpen
PROPERTIES
    DimensionSpec
CHECK_DEADLOCK FALSE
