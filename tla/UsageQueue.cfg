SPECIFICATION MCSpec
CONSTANTS
    s1 = s1
    s2 = s2
    Subscribers = {s1, s2}
    Buffer = 1
    Retention = 1
    CompactAt = 2
    Batch = 2
    MaxPayloads = 3
    MaxTime = 2
    MaxSwitches = 2
INVARIANTS ClosedOnce GapFree DroppedAreTold
PROPERTIES ImplementsFeed KeptUntilDelivered Forwarded
CHECK_DEADLOCK FALSE
