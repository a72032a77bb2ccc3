\* Lossy network, changing alerts: every variable keeps its type and the count fetch settles.
CONSTANTS
    Counts <- MCCounts
    AM = AM
    NoData = NoData
    NotRun = NotRun
    NetFaults = TRUE
    AlertsMayChange = TRUE
SPECIFICATION AFairSpec
INVARIANTS
    TypeOK
PROPERTIES
    CountFetchSettles
CHECK_DEADLOCK FALSE
