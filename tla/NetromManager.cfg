SPECIFICATION Spec
CONSTANTS
    Circuits = {c1, c2, c3}
    MaxLocalCircuits = 2
    IdModulus = 3
    RemoteKeys = {k0, k1}
    ZeroKey = k0
    IdleTimeout = TRUE
    Events = {"repeated CONNECT REQ", "stray DISC ACK", "cancelled originate"}
SYMMETRY CircuitSymmetry
INVARIANTS TypeOK NoIndexLeak IdleTimerExact HalfClosedGuarded SessionReachable
CHECK_DEADLOCK FALSE
