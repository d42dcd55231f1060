CONSTANTS
    Notes = {a, b}
    Configs = {c}
    Contents = {x, y}
    BulkMin = 2
    MaxStash = 1
    Discards = TRUE
    MaxEdits = 2
    MaxRevisions = 4
    MaxFaults = 2
SPECIFICATION Spec
SYMMETRY Symmetry
CHECK_DEADLOCK FALSE
INVARIANTS
    HeadsPublished
    ScanHeals
    BytesKept
    OneIdentity
PROPERTIES
    ParentsAlive
