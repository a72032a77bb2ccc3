\* All dialogs, duplicate submits, lost DDL responses and failed fetches.
CONSTANTS
    MaxReqs = 4
    TableKind = "TABLE"
    NoInfo = NoInfo
    Unread = Unread
    NetFaults = TRUE
    IndexDeletable = TRUE
    RangePartition = TRUE
SPECIFICATION TSpec
INVARIANTS
    TypeOK
CHECK_DEADLOCK FALSE
