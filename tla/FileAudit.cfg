SPECIFICATION Spec
CONSTANTS
    players = players
    NULL = NULL
    Batch = {b1}
    File = {f1, f2}
    Source = {players}
    SourceOf <- OneSource
    Checksum = {c1, c2}
    MaxRows = 1
    MaxNotes = 2
    MaxClock = 1
SYMMETRY FileSymmetry
CONSTRAINT OneQuestion
INVARIANTS
    TypeOK
    TimelineExplainsStatus
    TimelineExplainsCounts
    StagesInOrder
    CountsFollowLifecycle
    SourceGrainAgrees
    CleanReconciliationIsFinal
PROPERTIES
    WrittenOnce
    LifecycleSpec
CHECK_DEADLOCK FALSE
