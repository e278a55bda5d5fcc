SPECIFICATION Spec
CONSTANTS
    a = a
    b = b
    d1 = d1
    Bytes = {a, b}
    Requests <- StreamOrOdd
    Codes = {0, 7}
    Descendants = {d1}
    Timeout = 3
    IdleGrace = 1
    EofGrace = 1
    MaxGrace = 2
    MaxCapture = 3
    ReadSize = 2
    PipeSize = 2
    Beyond = 1
    Prompt = FALSE
INVARIANTS
    HealthyIsEarned
    AbsenceIsProven
    LimitIsReal
    NoStrays
    ReadersAreRight
PROPERTIES
    KeepsContract
    SignalsOnlyWhenReaped
