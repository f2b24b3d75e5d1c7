SPECIFICATION RegistrySpec
CONSTANTS
    Clients = {c1, c2}
    Models = {m1}
    Providers = {p1}
    NoProvider = nop
    MaxCopies = 1
    Readers = {}
    Window = 2
    MaxNow = 3
INVARIANTS AvailableIsListed
