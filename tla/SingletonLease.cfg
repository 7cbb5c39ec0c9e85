CONSTANTS
    Holders = {h1, h2}
    None = None
    Skew = 1
    LeaseSecs = 2
    Drift = 1
    MaxTime = 2
    MaxInFlight = 2
    MaxGeneration = 2
    MaxTerm = 2
SPECIFICATION SingletonSpec
CHECK_DEADLOCK FALSE
SYMMETRY Symmetry
INVARIANTS
    NoOverlap
PROPERTIES
    CountedRunsOwned
