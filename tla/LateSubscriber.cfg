SPECIFICATION QueueSpec
CONSTANTS
    s1 = s1
    s2 = s2
    Subscribers = {s1}
    Buffer = 1
    Retention = 1
    CompactAt = 2
    Batch = 2
    MaxPayloads = 1
    MaxTime = 0
    MaxSwitches = 1
INVARIANTS SubscribersLeave
CHECK_DEADLOCK FALSE
