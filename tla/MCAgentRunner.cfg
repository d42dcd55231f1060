SPECIFICATION Spec
CONSTANTS
    DayCap = 1
    Clashing = {{2, 3}}
    Racing = FALSE
    MaxRevs = 4
    MaxSessions = 1
    MaxFaults = 2
CHECK_DEADLOCK FALSE
INVARIANTS
    NothingPassedOver
PROPERTIES
    NewsReachesAgent
