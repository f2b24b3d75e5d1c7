SPECIFICATION Spec
CONSTANTS
    w1 = w1
    w2 = w2
    w3 = w3
    Models = {m1}
    Failures = {"quota"}
    Writers = {w1, w2}
    Does <- MCDoes
    NoCopy = nocopy
    TransientHold = 1
    AuthHold = 2
    LongHold = 3
    BackoffBase = 1
    BackoffMax = 2
    Hints = {}
    NoHint <- MCNoHint
    MaxNow = 1
INVARIANTS ErrorJustified
