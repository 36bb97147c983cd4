SPECIFICATION Spec
CONSTANTS
    Addr = {a1, a2}
    NoAddr = NoAddr
    Chan = {c1, c2}
    NoChan = NoChan
    MaxLabel = 2
    MaxSent = 1
    Slot = {0, 1}
    Events = {"connect", "disconnect", "inbound", "hangup", "failure"}
    RemoteSignals = {}
    Versions = {"v13"}
    MaxRx = 0
SYMMETRY Symmetry
INVARIANTS
    AddressesUnique
CHECK_DEADLOCK FALSE
