\* Two Record clicks before the first POST returns, or a Record click after a remount, backend enforcing nothing.
CONSTANTS
    i1 = i1
    i2 = i2
    Ids <- MCIds
    NoId = NoId
    NoData = NoData
    MaxReqs = 2
    MaxMounts = 1
    BackendEnforces = FALSE
    NetFaults = FALSE
SPECIFICATION Spec
INVARIANTS
    AtMostOneRecording
