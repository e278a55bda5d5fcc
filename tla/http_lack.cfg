SPECIFICATION Spec
CONSTANTS
    a = a
    b = b
    None = None
    Bytes = {a, b}
    Checks <- Mixed
    MaxCapture = 3
    Timeout = 2
    BodyGrace = 1
    MaxFrame = 2
    MaxPending = 2
    MaxSent = 3
INVARIANTS
    LackIsTrue
