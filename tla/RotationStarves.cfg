SPECIFICATION RotationSpec
CONSTANTS
    Auths = {1, 2, 3}
    Parents = {}
    NoParent = 0
    Providers = {1}
    Codex = {}
    Priorities = {0}
    Attributes <- MCEqual
    Absent = absent
PROPERTIES ReadyServesAgain
CHECK_DEADLOCK FALSE
