SPECIFICATION Spec
CONSTANTS
    Auths = {1, 2, 3}
    Parents = {1, 2}
    NoParent = 0
    Providers = {1, 2}
    Codex = {1}
    Priorities = {0, 1}
    Attributes <- MCAttributes
    Absent = absent
INVARIANTS ShardsAgree TurnComes SegmentComes
