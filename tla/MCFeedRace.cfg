SPECIFICATION MCSpec
CONSTANTS
    Procs = {p}
    LastDay = 3
    Seconds = FALSE
    MonthlyRows = {{1, 2, 3}, {1, 2}}
    MaxFaults = 2
    p = p
    q = q
    Instances = {"race"}
INVARIANT
    StreamContiguous
CHECK_DEADLOCK FALSE
