SPECIFICATION FairSpec
CONSTANTS
    Circuits = {c1, c2}
    MaxLocalCircuits = 2
    IdModulus = 4
    RemoteKeys = {k0, k1}
    ZeroKey = k0
    IdleTimeout = TRUE
    Events = {}
PROPERTIES IdleLinkReleased DisconnectCompletes
CHECK_DEADLOCK FALSE
