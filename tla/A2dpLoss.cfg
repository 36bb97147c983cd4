SPECIFICATION FairSpec
CONSTANTS
    Addr = {a1}
    NoAddr = NoAddr
    Chan = {c1, c2}
    NoChan = NoChan
    MaxLabel = 2
    MaxSent = 1
    Slot = {0}
    Events = {"connect", "disconnect", "manage", "inbound", "hangup", "failure", "loss"}
    RemoteSignals = {}
    Versions = {"v13"}
    MaxRx = 0
INVARIANTS
    SetupUnderWay
PROPERTIES
    ManagedLossKept
    LossResolved
CHECK_DEADLOCK FALSE
