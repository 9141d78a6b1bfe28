\* Any part of an application of ten objects among four that are always there;
\* and two kinds, three states of the cluster, one change, two loads.
SPECIFICATION MCSpec
CONSTANTS
    Names <- MCNames
    Kinds <- MCKinds
    NoNs = "none"
    NoSelector = NoSelector
    SystemNames <- MCSystem
    Worlds <- MCWorlds
    Resources <- MCResources
    NoTree = NoTree
    MaxLoads = 2
    MaxChanges = 1
INVARIANTS RelatedIsWholeTree UsedIsNoOrphan ImpactCoversDependents
PROPERTIES LoadEnds
CHECK_DEADLOCK FALSE
