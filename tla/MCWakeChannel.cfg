SPECIFICATION ChannelSpec
CONSTANTS
    Vault = {v1}
    Device = {d1}
    Wait = {w1, w2}
    Push = {p1}
    Home = v1
    Own = d1
    NoConn = none
    PerDeviceMax = 1
    GlobalMax = 1
    MaxCursor = 2
    MaxFaults = 1
    MaxSettleChecks = 1
    MaxErrors = 2
    MaxRestores = 1
CHECK_DEADLOCK FALSE
INVARIANTS
    SlotsAccounted
    WakeOwed
    OneWakePerAdvance
PROPERTIES
    CommitAnnounced
