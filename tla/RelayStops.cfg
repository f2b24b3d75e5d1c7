SPECIFICATION RelaySpec
CONSTANTS
    r1 = r1
    r2 = r2
    Requests = {r1}
    Whole = {r1}
    Leaving = {r1}
    Parts <- MCParts
    Cap = 1
INVARIANTS StopsGracefully
CHECK_DEADLOCK FALSE
