SPECIFICATION MCSpec
CONSTANTS
    w1 = w1
    w2 = w2
    w3 = w3
    Models = {m1, m2}
    Failures = {"model_support", "unauthorized", "payment", "not_found", "quota", "transient", "other"}
    Writers = {w1, w2, w3}
    Does <- MCDoes
    NoCopy = nocopy
    TransientHold = 1
    AuthHold = 2
    LongHold = 3
    BackoffBase = 1
    BackoffMax = 2
    Hints <- MCHints
    NoHint <- MCNoHint
    MaxNow = 2
INVARIANTS AggregateSound
PROPERTIES OnlyRefreshLeavesError BackoffFallsOnlyWhenWiped ReenabledStartsClean
SYMMETRY MCSymmetry
