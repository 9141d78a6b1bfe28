\* A view's call is overtaken by the switch.
SPECIFICATION SwitchSpec
CONSTANTS
    Kinds = {k1}
    Namespaces = {n1}
    All = All
    Clients = {a, b}
    NoClient = NoClient
    Tasks = {t1}
    NoTask = NoTask
    Workers = {w1, w2}
    Unwatchable <- NothingUnwatchable
    MaxPending = 1
INVARIANT StoreIsReset
CHECK_DEADLOCK FALSE
