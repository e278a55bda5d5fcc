SPECIFICATION FairSpec
CONSTANTS
    a = a
    b = b
    None = None
    Bytes = {a, b}
    Checks <- All
    MaxCapture = 3
    Timeout = 4
    BodyGrace = 2
    MaxFrame = 2
    MaxPending = 2
    MaxSent = 4
INVARIANTS
    HealthyIsEarned
    DenialIsProven
    CutIsReal
    StopsWhenDecided
    NothingMissed
PROPERTIES
    KeepsContract
    Terminates
