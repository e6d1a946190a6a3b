SPECIFICATION FairSpec
CONSTANTS
    b1 = b1 b2 = b2
    dim_players = dim_players fact_appearances = fact_appearances
    player_valuations = player_valuations
    top_scorers_by_season = top_scorers_by_season
    top_players_all_time = top_players_all_time
    appearances = appearances
    Batch = {b1, b2}
    SilverTable = {dim_players, fact_appearances}
    BronzeTable = {player_valuations}
    ALL_ARTIFACTS <- MCArtifacts
    Reads <- MCReads
    PrimarySource <- MCPrimarySource
    NULL = NULL
    Torn = Torn
    Retries = 1
    MaxRuns = 2
    MaxFaults = 1
INVARIANTS TypeOK BlockedBatchHasNoGold SuccessIsFresh RecordedMeansOnDisk
PROPERTIES DagRunsEnd
CHECK_DEADLOCK FALSE
