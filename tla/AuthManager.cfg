SPECIFICATION MCSpec
CONSTANTS
    Auths = {a1}
    r1 = r1
    r2 = r2
    Requests = {r1, r2}
    Service = svc
    Catalogs = {c1}
    Refreshers = {f1}
    NoAuth = noauth
INVARIANTS RegisteredIffEnabled RemovedNotOffered
PROPERTIES ReadyEventuallyServed SuspensionHeals RemovedEventuallyUnused
