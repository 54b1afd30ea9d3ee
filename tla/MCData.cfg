SPECIFICATION MCSpec
CONSTANTS
    Procs = {p}
    LastDay = 3
    Seconds = FALSE
    MonthlyRows = {{1, 2, 3}, {1, 2}}
    MaxFaults = 2
    p = p
    q = q
    Instances = {"drops", "refresh", "race", "two bars", "one bar", "gap bars", "odd bars",
                 "minutes", "dailies", "overlap", "metrics", "snapshot", "snapshots", "two stops",
                 "fetch", "retries",
                 "register", "one service", "two services"}
INVARIANTS
    FeedLosesNothing
    GateFollowsBars
    CompleteIndexIsServed
    StoredDataIsHonest
PROPERTIES
    RowsNeverVanish
    ReadersNeverLoseRows
    PublishedStays
CHECK_DEADLOCK FALSE
