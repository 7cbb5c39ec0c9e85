SPECIFICATION Spec
SYMMETRY PassSymmetry
CONSTANTS
    Ids = {1, 2}
    index = index
    repo = repo
    d1 = d1
    d2 = d2
    None = None
    Requests <- TwoBlobs
    Limits <- PolicyLimits
    MaxU64 = 9
    Authorities = {repo}
    max_records = 1
    max_bytes = 3
    MaxRefusals = 1
    Pushes = {p1}
    Finalizers = {f1, f2}
    MaxStaged = 2
    DrainBatch = 1
INVARIANTS
    IntentLedgerConsistent
PROPERTIES
    SettlesPublished
CHECK_DEADLOCK FALSE
