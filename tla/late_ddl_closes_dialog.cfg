\* A dialog cancelled while its DDL runs, then another one opened.
CONSTANTS
    MaxReqs = 4
    TableKind = "TABLE"
    NoInfo = NoInfo
    Unread = Unread
    NetFaults = FALSE
    IndexDeletable = TRUE
    RangePartition = TRUE
SPECIFICATION TSpec
PROPERTIES
    OnlyOwnDdlClosesDialog
CHECK_DEADLOCK FALSE
