SPECIFICATION RelayFairSpec
CONSTANTS
    r1 = r1
    r2 = r2
    Requests = {r1, r2}
    Whole = {r1}
    Leaving = {r1}
    Parts <- MCParts
    Cap = 1
INVARIANTS WholeUnlessCrowded
PROPERTIES WaitersEnd
CHECK_DEADLOCK FALSE
