SPECIFICATION FairSpec
CONSTANTS
    a = a
    b = b
    d1 = d1
    Bytes = {a}
    Requests <- Patient
    Codes = {0}
    Descendants = {d1}
    Timeout = 8
    IdleGrace = 1
    EofGrace = 1
    MaxGrace = 2
    MaxCapture = 6
    ReadSize = 1
    PipeSize = 1
    Beyond = 0
    Prompt = FALSE
INVARIANTS
    GraceIsBounded
PROPERTIES
    Terminates
