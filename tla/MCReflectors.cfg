\* Two namespaces, two workers racing on one kind, three watcher tasks, one
\* cluster.
SPECIFICATION MCSpec
CONSTANTS
    Kinds = {pod}
    Namespaces = {n1, n2}
    All = All
    Clients = {c1}
    NoClient = NoClient
    Tasks = {t1, t2, t3}
    NoTask = NoTask
    Workers = {w1, w2}
    Unwatchable <- NothingUnwatchable
INVARIANTS TypeOK MapSound OneWatcherPerObject
PROPERTIES CoverageKept WatchesScopes
SYMMETRY Symmetry
