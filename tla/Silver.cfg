SPECIFICATION Spec
CONSTANTS
    b1 = b1
    clubs = clubs players = players appearances = appearances
    f_clubs = f_clubs f_players = f_players f_appearances = f_appearances
    Batch = {b1}
    Source = {clubs, players, appearances}
    File = {f_clubs, f_players, f_appearances}
    Checksum = {"md5"}
    NULL = NULL
    SourceOf <- MCSourceOf
    FileOf <- MCFileOf
    Registry <- MCRegistry
    References <- MCReferences
    Needs <- MCNeeds
    Versioned = {players}
    Torn = Torn
    RowsOf <- MCRowsOf
    BadRows <- MCBadRows
    OrphanRows <- MCOrphanRows
    History <- PlayersBefore
    MaxAttempts = 3
    MaxFaults = 2
    MaxCrashes = 2
    AuditMayLag = TRUE
INVARIANTS
    TypeOK RowsAreConserved SuccessHasEveryArtifact SuccessReconciles
     DirtyRowsNeverReachSilver GateSeesTheQuarantine
PROPERTIES TransformedIsTerminal
CHECK_DEADLOCK FALSE
