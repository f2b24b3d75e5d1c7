SPECIFICATION RegistrySpec
CONSTANTS
    Clients = {c1, c2}
    Models = {m1}
    Providers = {p1, p2}
    NoProvider = nop
    MaxCopies = 2
    Readers = {r1, r2}
    Window = 2
    MaxNow = 4
INVARIANTS CountsMatchLists ServedIsCurrent ListedHasProspect
