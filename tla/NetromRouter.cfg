SPECIFICATION RouterSpec
CONSTANTS
    Routers = {"A", "B"}
    CallOrder <- FourOrder
    Hears <- Earshot
    PathQuality <- PoorLinks
    LeafLists <- TellsOfL
    WorstQuality = 2
    MaxRoutes = 2
    MaxDestinations = 4
    ObsInit = 1
    ObsMin = 1
    SelfOnly = {}
    Crosslinkable <- LinksOfA
    Stores = {"A"}
    MaxCrashes = 1
INVARIANTS RoutesWellFormed SnapshotFaithful NoBetterThanLink
PROPERTIES NoBetterDropped
CHECK_DEADLOCK FALSE
