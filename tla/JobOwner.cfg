SPECIFICATION Spec
CONSTANTS
    t1 = t1
    t2 = t2
    t3 = t3
    Tasks = {t1, t2, t3}
    KindOf <- TwinKinds
    ScopeOf <- TwinScopes
    Durable = {t1, t2}
    Cleaners = {t3}
    Owner = "client"
    Workers = 3
    Queue = 3
    PerKind = 2
    PerScope = 2
    Retain = 1
    Batch = 1
    MaxRuns = 3
    MaxStops = 1
INVARIANTS
    AnswersMatchHistory
    TwinsNeverOverlap
    DrainedIsQuiet
CHECK_DEADLOCK FALSE
