\* A replay that ends in Error, no network faults.
CONSTANTS
    i1 = i1
    i2 = i2
    Ids <- MCIds
    NoId = NoId
    NoData = NoData
    MaxReqs = 3
    MaxMounts = 0
    BackendEnforces = TRUE
    NetFaults = FALSE
SPECIFICATION FairSpec
PROPERTIES
    ReplayLockReleased
