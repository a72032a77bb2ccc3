\* A Delete and a Replay of the same row in flight together, backend enforcing nothing.
CONSTANTS
    i1 = i1
    i2 = i2
    Ids <- MCIds
    NoId = NoId
    NoData = NoData
    MaxReqs = 3
    MaxMounts = 0
    BackendEnforces = FALSE
    NetFaults = FALSE
SPECIFICATION Spec
PROPERTIES
    NoActiveTaskDeleted
