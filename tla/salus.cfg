SPECIFICATION Spec
CONSTANTS
    NoVar = NoVar
    Unset = Unset
    NoLimit = NoLimit
    Alphabets <- All
    Environments <- Envs
    Timeouts = {0, 1, 9}
    Latencies = {NoLimit, 0, 1}
    TooLong = 9
    Horizon = 3
INVARIANTS
    TypeOK
    OutputIsAsked
    HelpIsRight
    ExitCodeIsTrue
