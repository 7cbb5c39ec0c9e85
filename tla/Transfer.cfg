SPECIFICATION FairSpec
CONSTANTS
    n1 = n1
    n2 = n2
    a1 = a1
    a2 = a2
    i1 = i1
    i2 = i2
    None = None
    Nodes = {n1, n2}
    Home = n1
    Target = n2
    Authorities = {a1}
    Ids = {i1}
    Budget = 2
    Retained = 1
    MaxPlans = 2
    MaxSerial = 1
CHECK_DEADLOCK FALSE
INVARIANTS CalledOffNeverMoves MovesAtBarrier
PROPERTY RunsEnd
