SPECIFICATION Spec
CONSTANTS
    Addr = {a1}
    NoAddr = NoAddr
    Chan = {c1, c2}
    NoChan = NoChan
    MaxLabel = 3
    MaxSent = 2
    Slot = {0}
    Events = {"connect", "inbound", "disconnect", "stream", "hangup", "failure", "loss"}
    RemoteSignals = {}
    Versions = {"pre13", "v13"}
    MaxRx = 1
SYMMETRY Symmetry
INVARIANTS
    TypeOK
    ChannelsMatch
    LatestAnswerMatches
CHECK_DEADLOCK FALSE
