\* Two clusters, one of them refusing to list either of two kinds, so that both
\* worker threads can hang; the user waits for each switch to end.
SPECIFICATION FairSwitchSpec
CONSTANTS
    Kinds = {k1, k2}
    Namespaces = {}
    All = All
    Clients = {a, b}
    NoClient = NoClient
    Tasks = {t1, t2}
    NoTask = NoTask
    Workers = {w1, w2}
    Unwatchable <- OneClusterUnwatchable
    MaxPending = 1
INVARIANTS SwitchTypeOK ReportedIsServed ClientsAgree
PROPERTY SwitchSettles
CHECK_DEADLOCK FALSE
