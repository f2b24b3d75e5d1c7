SPECIFICATION Spec
CONSTANTS
    Auths = {a1}
    Requests = {}
    Service = svc
    Catalogs = {}
    Refreshers = {f1}
    NoAuth = noauth
PROPERTIES OnlyUpdatesReenable
