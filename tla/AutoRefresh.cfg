SPECIFICATION RefreshFairSpec
CONSTANTS
    Auths = {a1}
    Workers = {w1, w2}
    JobCap = 1
    NoAuth = noauth
PROPERTIES DropsOnlyRejected RefreshedWhileTracked
