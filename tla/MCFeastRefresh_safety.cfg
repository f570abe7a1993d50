SPECIFICATION FairSpec
CONSTANTS
    NoOwner = NoOwner
    Procs = {p1, p2}
    Required <- MCLayers
    StartModes <- MCModes
    Seeded = TRUE
    DayLen = 2
    TargetTick = 1
    MonthLen = 2
    HostLag = 1
    MidCap = 1
    StartTime = 6
    MaxTime = 9
    MaxFaults = 2
INVARIANTS TypeOK OneRefresher ReadinessBacked
PROPERTIES ImplementsPublication EventuallyUnblocked
CHECK_DEADLOCK FALSE
