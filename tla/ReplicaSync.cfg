SPECIFICATION FairSpec
CONSTANTS
    History <- Rewritten
    Order <- RelayFirst
    PageLimit = 1
    MaxGeneration = 1
    MaxFaults = 1
INVARIANTS
    StateIsFold
    ReadableIsBacked
PROPERTY CatchesUp
CHECK_DEADLOCK FALSE
