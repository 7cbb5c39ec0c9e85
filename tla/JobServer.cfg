SPECIFICATION FairSpec
CONSTANTS
    t1 = t1
    t2 = t2
    t3 = t3
    Tasks = {t1, t2}
    KindOf <- PairKinds
    ScopeOf <- PairScopes
    Durable = {t1, t2}
    Cleaners = {}
    Owner = "server"
    Workers = 2
    Queue = 2
    PerKind = 1
    PerScope = 1
    Retain = 1
    Batch = 1
    MaxRuns = 3
    MaxStops = 2
INVARIANTS
    ScopeBounded
    OpenMeansRunning
PROPERTIES
    AdmittedAreAnswered
    InterruptedAreClosed
CHECK_DEADLOCK FALSE
