SPECIFICATION Spec
CONSTANTS
    NULL = NULL
    Player = {1, 2}
    Attr = {a, b}
    NBatches = 3
    Batch <- Batches
    DateOf <- Dates
    Appearance <- Appearances
    MaxAttempts = 2
    MaxFailures = 1
INVARIANTS
    SurrogateKeyNamesOneVersion
    CurrentVersionsAreDelivered
    FactsPointIntoTheSnapshot
CHECK_DEADLOCK FALSE
