\* A failed count request leaves the initial 0 on the card.
CONSTANTS
    Counts <- MCCounts
    AM = AM
    NoData = NoData
    NotRun = NotRun
    NetFaults = TRUE
    AlertsMayChange = FALSE
SPECIFICATION AFairSpec
PROPERTIES
    ZeroClaimResolves
CHECK_DEADLOCK FALSE
