\* Two API keys behind one address; three windows of time.
CONSTANTS
    key1 = key1
    key2 = key2
    addr1 = addr1
    addr2 = addr2
    ApiKeys = {key1, key2}
    Addresses = {addr1}
    Rate = 2
    Window = 2
    MaxTime = 5
SPECIFICATION Spec
SYMMETRY Clients
INVARIANTS TypeOK BurstBound RefusalJustified
