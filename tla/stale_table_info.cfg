\* Two successful DDLs whose reloads return out of order, no faults.
CONSTANTS
    MaxReqs = 5
    TableKind = "TABLE"
    NoInfo = NoInfo
    Unread = Unread
    NetFaults = FALSE
    IndexDeletable = TRUE
    RangePartition = TRUE
SPECIFICATION TSpec
INVARIANTS
    ShowsLatestWhenSettled
CHECK_DEADLOCK FALSE
