SPECIFICATION Spec
CONSTANTS
    Calls = {"S", "K", "R"}
    Nobody = "nobody"
    BaseOf <- OwnBase
    Transports = {agwpe, kiss}
    Frames <- OnAir
    Advertised = {{"K"}}
    Edits <- SysopEdits
    GraceSeconds = 1
    LockTimeout = 1
    ListLimit = 1
    MaxAge = 1
    MaxTime = 5
    MaxFrames = 3
    MaxOthers = 1
INVARIANTS TablesSound CacheBacked HeardIsRecent
SYMMETRY Alike
CHECK_DEADLOCK FALSE
