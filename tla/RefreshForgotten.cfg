SPECIFICATION RefreshFairSpec
CONSTANTS
    Auths = {a1}
    Workers = {w1}
    JobCap = 1
    NoAuth = noauth
PROPERTIES RefreshedWhenRequired
