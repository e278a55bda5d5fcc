SPECIFICATION FairSpec
CONSTANTS
    svc = svc
    alias = alias
    root = root
    corp = corp
    one = one
    two = two
    p = p
    q = q
    r = r
    None = None
    Bad = Bad
    Garbled = Garbled
    Hosts = {svc, alias}
    Parties = {root, corp, one, two}
    Paths = {p, q, r}
    Checks <- All
    Bundles <- Builds
    FileSystems <- AllFiles
    Rotated <- Rotations
    Timeout = 2
    MaxChanges = 2
    MaxDelay = 1
    Horizon = 4
INVARIANTS
    RequestIsProtected
    RejectionIsTrue
PROPERTIES
    KeepsContract
    Ends
