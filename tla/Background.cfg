\* Two clusters, two collectors (one context switch, or two callbacks of
\* overlapping ones), one dashboard; one connection of the heartbeat; two contexts
\* of the cache, one of which does not list its API resources, three calls at a
\* time; two starts of port forwards on one address, two connections, kept tasks
\* looked through with every one.
SPECIFICATION MCSpec
CONSTANTS
    Contexts = {c1, c2}
    None = None
    Polls = {p1, p2}
    Dashboards = {d1}
    Samples = {low, high}
    Servers = {s1, s2}
    NoServer = NoServer
    MaxConnects = 1
    KubeContexts = {a, b}
    NoContext = NoContext
    Unlistable = {b}
    MaxCalls = 3
    Binds = {x}
    PodTargets = {pod}
    ServiceTargets = {svc}
    NoForward = NoForward
    Peers = {p, q}
    KeptConns = 1
    MaxForwards = 2
INVARIANTS BackgroundTypeOK OneCollector NoUpdateMissed ListedSinceCleared UnlistedIsReleased
PROPERTIES StaleMetricsReplaced DashboardsCatchUp HeartbeatFollows CacheFills StopReturns
