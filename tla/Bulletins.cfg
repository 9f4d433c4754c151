SPECIFICATION Spec
CONSTANTS
    All = All
    Nobody = Nobody
    Sessions = {c1}
    Callers = {U, Y}
    Sysops = {Y}
    Authentic = {Y, U}
    Names = {1, 2}
    Seeded = {1}
    DefaultName = 1
    MsgArea = 2
    Addressees = {Y}
    MaxAreas = 2
    MaxMessages = 2
INVARIANTS BoardSound OrphansAreLate LockNotKept
CHECK_DEADLOCK FALSE
