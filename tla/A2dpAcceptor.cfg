SPECIFICATION FairSpec
CONSTANTS
    Addr = {a1}
    NoAddr = NoAddr
    Chan = {c1, c2}
    NoChan = NoChan
    MaxLabel = 2
    MaxSent = 1
    Slot = {0}
    Events = {"inbound", "disconnect", "hangup", "failure", "loss"}
    RemoteSignals = {"set_configuration", "open", "start", "close", "suspend", "abort", "delayreport", "query", "corrupt"}
    Versions = {"v13"}
    MaxRx = 1
INVARIANTS
    StreamHasMedia
    IdleHasNoMedia
PROPERTIES
    AbortEndsInIdle
    TransientEnds
CHECK_DEADLOCK FALSE
