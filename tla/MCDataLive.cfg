SPECIFICATION MCSpec
CONSTANTS
    Procs = {p}
    LastDay = 3
    Seconds = FALSE
    MonthlyRows = {{1, 2, 3}, {1, 2}}
    MaxFaults = 2
    p = p
    q = q
    Instances = {"feed live", "bars live", "candles live", "metrics live", "snapshot live",
                 "fetch live", "register live"}
PROPERTIES
    BarsFlow
    ArchivesComplete
CHECK_DEADLOCK FALSE
