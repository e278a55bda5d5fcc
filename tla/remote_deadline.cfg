SPECIFICATION FairSpec
CONSTANTS
    svc = svc
    alias = alias
    root = root
    corp = corp
    one = one
    two = two
    p = p
    q = q
    r = r
    None = None
    Bad = Bad
    Garbled = Garbled
    Hosts = {svc, alias}
    Parties = {root, corp, one, two}
    Paths = {p, q, r}
    Checks <- Proper
    Bundles <- Builds
    FileSystems <- InOrderOnly
    Rotated <- Rotations
    Timeout = 2
    MaxChanges = 0
    MaxDelay = 1
    Horizon = 4
INVARIANTS
    DeadlineIsHard
