SPECIFICATION FairSpec
CONSTANTS
    s1 = s1
    s2 = s2
    u1 = u1
    v1 = v1
    v2 = v2
    Sessions = {s1, s2}
    Users = {u1}
    UserOf <- SharedUser
    Native = {s2}
    Permitted = {s1, s2}
    Neighbours = {v1, v2}
    ArrivedVia <- CameOver
    None = None
    MaxCircuits = 2
    MaxPerUser = 1
    RateLimit = 2
INVARIANTS SlotsExact CircuitsAccounted
PROPERTIES SlotsReturn
CHECK_DEADLOCK FALSE
