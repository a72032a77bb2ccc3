\* The page's own guards, with a backend that enforces nothing, one mount.
CONSTANTS
    i1 = i1
    i2 = i2
    Ids <- MCIds
    NoId = NoId
    NoData = NoData
    MaxReqs = 4
    MaxMounts = 0
    BackendEnforces = FALSE
    NetFaults = TRUE
SPECIFICATION Spec
SYMMETRY IdSymmetry
INVARIANTS
    TypeOK
    AtMostOneReplaying
