\* A recording that the executor ends, or whose stop answer is lost.
CONSTANTS
    i1 = i1
    i2 = i2
    Ids <- MCIds
    NoId = NoId
    NoData = NoData
    MaxReqs = 3
    MaxMounts = 0
    BackendEnforces = TRUE
    NetFaults = TRUE
SPECIFICATION FairSpec
PROPERTIES
    RecordLockReleased
