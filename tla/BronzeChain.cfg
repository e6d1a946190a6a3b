SPECIFICATION Spec
CONSTANTS
    NULL = NULL
    games = games
    players = players
    games_csv = games_csv
    players_csv = players_csv
    g1 = g1
    g2 = g2
    p1 = p1
    e1 = e1
    Batch = {b1, b2, b3}
    File = {games_csv, players_csv}
    Source = {games, players}
    SourceOf <- FileSource
    Checksum = {g1, g2, p1, e1}
    Registry <- TwoSources
    FileOf <- SourceFile
    Contents <- DeliveriesWithEmpty
    RowsIn <- RowCounts
    MaxAttempts = 1
    MaxCrashes = 1
    MaxWriteErrors = 0
    MidRun = {"withdraw"}
SYMMETRY BatchSymmetry
INVARIANTS
    TypeOK
    SuccessfulBatchIsReadable
    LandedCountsAreTrue
    NoDuplicateLanding
CHECK_DEADLOCK FALSE
