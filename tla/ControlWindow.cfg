SPECIFICATION SettingSpec
CONSTANTS
    n1 = n1
    n2 = n2
    d1 = d1
    None = None
    Nodes = {n1, n2}
    Keys = {"k"}
    Commands <- Mixed
    Window = 2
    Drift = 0
    MaxDelay = 1
    MaxInFlight = 2
    MaxTime = 2
    MaxIndex = 2
CHECK_DEADLOCK FALSE
INVARIANTS FusedAnswersOwn AuditRetained OnceInWindow
PROPERTY ReceiptHolds
