\* Failed polls, a remount and all commands, enforcing backend: the shown list converges.
CONSTANTS
    i1 = i1
    i2 = i2
    Ids <- MCIds
    NoId = NoId
    NoData = NoData
    MaxReqs = 2
    MaxMounts = 1
    BackendEnforces = TRUE
    NetFaults = TRUE
SPECIFICATION FairSpec
PROPERTIES
    Converges
