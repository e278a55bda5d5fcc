SPECIFICATION FairSpec
CONSTANTS
    Timeout = 7
    MinAttempt = 2
    MaxAddrs = 4
    Delays = {2, 3}
    Horizon = 8
INVARIANTS
    NothingMissed
    FailureIsTrue
PROPERTIES
    KeepsContract
    Terminates
