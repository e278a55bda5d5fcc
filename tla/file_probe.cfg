SPECIFICATION FairSpec
CONSTANTS
    a = a
    b = b
    None = None
    f1 = f1
    f2 = f2
    Bytes = {a, b}
    Checks <- All
    Files = {f1, f2}
    Contents <- Short
    Ages = {0, 1, 3}
    Changes = {"append", "truncate", "replace", "remove", "chmod"}
    MaxChanges = 2
    MaxSize = 3
    ReadSize = 2
    MaxCapture = 4
    Start = 2
    Timeout = 1
INVARIANTS
    CaptureIsPrefix
    HealthyIsEarned
    OnlySwapsHang
    VerdictIsRight
PROPERTIES
    KeepsContract
    Terminates
