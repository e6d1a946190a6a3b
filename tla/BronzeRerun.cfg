SPECIFICATION Spec
CONSTANTS
    NULL = NULL
    games = games
    players = players
    games_csv = games_csv
    players_csv = players_csv
    g1 = g1
    g2 = g2
    p1 = p1
    e1 = e1
    Batch = {b1}
    File = {games_csv, players_csv}
    Source = {games, players}
    SourceOf <- FileSource
    Checksum = {g1, g2, p1, e1}
    Registry <- TwoSources
    FileOf <- SourceFile
    Contents <- Deliveries
    RowsIn <- RowCounts
    MaxAttempts = 2
    MaxCrashes = 0
    MaxWriteErrors = 1
    MidRun = {}
INVARIANTS
    CleanRunSucceeds
CHECK_DEADLOCK FALSE
