SPECIFICATION Spec
SYMMETRY Symmetry
CONSTANTS
    index = index
    project = project
    release1 = release1
    a = a
    b = b
    None = None
    Ids = {i1, i2}
    Requests <- Rivals
    Limits <- PolicyLimits
    MaxU64 = 9
    Authorities = {project}
    max_records = 1
    max_bytes = 3
    MaxRefusals = 1
    Uploads = {u1, u2}
    Finalizers = {f1}
    Files = {"wheel"}
    MaxStaged = 2
INVARIANTS
    ChargedAsServed
    ReservationsAreHeld
    SettledIsServed
PROPERTIES
    FilesAreImmutable
CHECK_DEADLOCK FALSE
