SPECIFICATION Spec
CONSTANTS
    NULL = NULL
    dq_rules <- MCRules
    Batch = {1, 2}
    DateOf <- MCDateOf
    Deliveries <- MCDeliveries
    Player = {1, 2}
    Attr <- MCAttr
    WindowRows = 2
    quarantine_threshold_pct = 40
INVARIANTS
    DanglingOnlyThroughQuarantine TotalsAreTheFacts
    LeagueTableBalances ValuationsResolveWhenClean
CHECK_DEADLOCK FALSE
