SPECIFICATION Spec
CONSTANTS
    a = a
    b = b
    d1 = d1
    Bytes = {a, b}
    Requests <- Either
    Codes = {0}
    Descendants = {d1}
    Timeout = 2
    IdleGrace = 1
    EofGrace = 1
    MaxGrace = 2
    MaxCapture = 3
    ReadSize = 1
    PipeSize = 1
    Beyond = 1
    Prompt = TRUE
INVARIANTS
    OpenIsReal
    NothingMissed
