SPECIFICATION RotationSpec
CONSTANTS
    MaxProviders = 2
    MaxMints = 4
    MaxCrashes = 2
    MaxLost = 2
    MaxServerFaults = 1
    MaxForeign = 2
CHECK_DEADLOCK FALSE
INVARIANTS
    NeverBurned
    DeadGrantsNothing
PROPERTY GetsAccess
