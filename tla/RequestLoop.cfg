SPECIFICATION MCSpec
CONSTANTS
    a1 = a1
    a2 = a2
    r1 = r1
    r2 = r2
    r3 = r3
    w1 = w1
    w2 = w2
    route = route
    up1 = up1
    up2 = up2
    NoAuth = noauth
    Route = route
    Pool <- MCPool
    Retry <- MCRetry
    Does <- MCDoes
    Auths = {a1, a2}
    Models = {route, up1, up2}
    Requests = {r1, r2, r3}
    Streams = {r3}
    Leaving = {r3}
    Workers = {w1, w2}
    Preparable = {a2}
    Limit = 2
    MaxWait = 1
    LongHold = 2
INVARIANTS UsableIsTried PreparedOnce ReportedOnce
PROPERTIES StepsRunOut
SYMMETRY MCSymmetry
