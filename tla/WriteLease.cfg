CONSTANTS
    Datacenters = {d1, d2}
    None = None
    Skew = 1
    LeaseSecs = 2
    Authorities = {a1}
    Writes = {w1, w2}
    Drift = 1
    CommitBound = 1
    MaxTime = 3
    MaxInFlight = 1
    MaxEpoch = 2
    MaxForgets = 1
SPECIFICATION Spec
CHECK_DEADLOCK FALSE
SYMMETRY Symmetry
PROPERTY CommitWindows
INVARIANTS
    FencedCommit
    PublishAtHome
