SPECIFICATION MCSpec
CONSTANTS
    b = b
    k = k
    x = x
    m = m
    p = p
    q = q
    w = w
    z = z
    Edits = {b, k, x, m}
    Peers = {p, q, w, z}
    Parents <- AllParents
    Bytes <- AllBytes
    Poison = {b}
    Oversized = {x}
    Twins <- AllTwins
    Broken = {z}
    OutOfScope = {w}
    MaxItems = 3
    MaxBytes = 2
    PageSize = 2
    MaxApplyAttempts = 2
    MaxAuthored = 2
    MaxConnections = 2
    MaxFaults = 1
    MaxCrashes = 1
    MaxRequeues = 1
CHECK_DEADLOCK FALSE
INVARIANTS
    QueueAccounted
    NothingSkipped
PROPERTIES
    Drains
    CatchesUp
