SPECIFICATION StoresSpec
CONSTANTS
    MaxIndex = 3
    Rosters <- SecondChanges
    MaxTasks = 2
    MaxTaken = 3
    Absent = Absent
    None = None
    Ids = {i1, i2, i3}
    Requests <- AllRequests
    Limits <- PolicyLimits
    r1 = r1
    r2 = r2
    p1 = p1
    p2 = p2
    g1 = g1
    g2 = g2
    d1 = d1
    d2 = d2
    MaxU64 = 5
    RepairBatch = 2
    Events <- TwoEvents
    TargetsOf <- TargetsOfEach
    e1 = e1
    e2 = e2
    w1 = w1
    w2 = w2
    MaxConcurrent = 2
    MaxAttempts = 2
    MaxFaults = 2
INVARIANTS
    PurgedIsCovered
    StateIsReplay
    IdsAreFresh
    CountersMatch
    LimitsHold
    TotalsFit
    AllocationIsLive
    QueueIsExact
    TargetsInTurn
    AttemptsBounded
PROPERTIES
    NeverGoesBack
    DeliveriesSettle
CHECK_DEADLOCK FALSE
