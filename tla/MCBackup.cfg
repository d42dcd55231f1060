SPECIFICATION ReaderSpec
CONSTANTS
    b1 = b1
    b2 = b2
    Blobs <- MCBlobs
    MaxRevs = 3
    BlobOf <- MCBlobOf
    Keep = 1
    Interval = 2
    MaxArtifacts = 3
    MaxRestores = 1
    MaxFaults = 1
    MaxDecays = 1
    Casts <- MCCasts
ACTION_CONSTRAINT Told
CHECK_DEADLOCK FALSE
INVARIANTS
    ArtifactsComplete
    LiveWhole
    HistoryIsServers
PROPERTIES
    RetentionKeepsGood
