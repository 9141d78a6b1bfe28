\* Two clusters, one of which never answers the list of the kind.
SPECIFICATION MCFairSpec
CONSTANTS
    Kinds = {pod}
    Namespaces = {n1}
    All = All
    Clients = {c1, c2}
    NoClient = NoClient
    Tasks = {t1, t2}
    NoTask = NoTask
    Workers = {w1, w2}
    Unwatchable <- OneClusterUnwatchable
PROPERTIES CallReturns ViewsConverge
