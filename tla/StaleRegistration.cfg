SPECIFICATION Spec
CONSTANTS
    Auths = {a1}
    Requests = {}
    Service = svc
    Catalogs = {c1}
    Refreshers = {}
    NoAuth = noauth
INVARIANTS QuietRegistryDropsRemoved
