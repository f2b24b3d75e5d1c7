SPECIFICATION MCSpec
CONSTANTS
    Files = {f1, f2}
    Versions = {v1, v2}
    l1 = l1
    f1 = f1
    v1 = v1
    v2 = v2
    Reloaders = {l1}
    QueueCap = 1
    MaxChanges = 4
    MaxReloads = 2
INVARIANTS DeliveredAgrees
PROPERTIES LastWriteApplied ForcedReloadRepairs
CHECK_DEADLOCK FALSE
