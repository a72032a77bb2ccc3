\* Range changes, refreshes, settings saves and failures: every selected range is eventually requested.
CONSTANTS
    r1 = r1
    r2 = r2
    Ranges <- MCRanges
    NoData = NoData
    MaxReqs = 5
    NetFaults = TRUE
SPECIFICATION LFairSpec
PROPERTIES
    SelectedRangeRequested
INVARIANTS
    TypeOK
CHECK_DEADLOCK FALSE
