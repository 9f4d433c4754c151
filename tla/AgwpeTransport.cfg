SPECIFICATION Spec
CONSTANTS
    Stations = {st1}
    Sessions = {s1, s2}
    Callers = {c1, c2}
    None = None
    MaxInbox = 2
    Events = {"cancelled caller"}
SYMMETRY AgwpeSymmetry
INVARIANTS CrosslinkNoted UserReachable OneManager NoStaleAnswer
CHECK_DEADLOCK FALSE
