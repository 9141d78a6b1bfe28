\* The same; a refresh with nothing changed since and no call failed.
SPECIFICATION MCSpec
CONSTANTS
    Names <- MCNames
    Kinds <- MCKinds
    NoNs = "none"
    NoSelector = NoSelector
    SystemNames <- MCSystem
    Worlds <- MCWorlds
    Resources <- MCResources
    NoTree = NoTree
    MaxLoads = 2
    MaxChanges = 1
INVARIANT RefreshShowsLive
CHECK_DEADLOCK FALSE
