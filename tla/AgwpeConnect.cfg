SPECIFICATION FairSpec
CONSTANTS
    Stations = {st1}
    Sessions = {s1}
    Callers = {c1, c2}
    None = None
    MaxInbox = 2
    Events = {"cancelled caller"}
PROPERTIES CallersReturn DeadSessionLeaves
CHECK_DEADLOCK FALSE
