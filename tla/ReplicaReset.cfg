SPECIFICATION Spec
CONSTANTS
    History <- Rewritten
    Order <- PrimaryFirst
    PageLimit = 1
    MaxGeneration = 1
    MaxFaults = 0
PROPERTY DrainedAreReset
CHECK_DEADLOCK FALSE
