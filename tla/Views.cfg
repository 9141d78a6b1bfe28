\* A view with one buffer in up to two windows, two draws at a time, and either
\* two queries or three contents of the store, one of which cannot be shown; a
\* store of up to two objects at two addresses, in two clusters of two versions.
SPECIFICATION MCSpec
CONSTANTS
    Queries = {p, q}
    Rows = {old, new, bad}
    Unprocessable = {bad}
    Nothing = Nothing
    AutoRefresh = TRUE
    MaxBuffers = 1
    MaxWindows = 2
    MaxDraws = 2
    Words <- MCWords
    Unset = Unset
    Pool <- MCPool
    Params <- MCParams
    Addresses = {1, 2}
    NoRead = NoRead
    MaxVersions = 2
    MaxClusters = 2
INVARIANTS ViewTypeOK RowIsOfObject TableInOrder FailureShows
PROPERTIES ViewCatchesUp
CHECK_DEADLOCK FALSE
