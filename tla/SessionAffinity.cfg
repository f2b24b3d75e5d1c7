SPECIFICATION FairSpec
CONSTANTS
    a1 = a1
    a2 = a2
    first = first
    second = second
    r1 = r1
    r2 = r2
    None = None
    Auths = {a1, a2}
    Keys = {first, second}
    Requests = {r1, r2}
    Turns <- MCTurns
    TTL = 1
    MaxTime = 2
    MaxChanges = 1
INVARIANTS ServesUsable
PROPERTIES OwnBindingLasts ExpiredAreSwept
CHECK_DEADLOCK FALSE
