SPECIFICATION FairSpec
CONSTANTS
    Addr = {a1}
    NoAddr = NoAddr
    Chan = {c1, c2}
    NoChan = NoChan
    MaxLabel = 2
    MaxSent = 1
    Slot = {0}
    Events = {"inbound", "disconnect"}
    RemoteSignals = {"set_configuration", "abort"}
    Versions = {"v13"}
    MaxRx = 1
PROPERTIES
    DisconnectCompletes
CHECK_DEADLOCK FALSE
