\* One buffer in one window, one query, two draws at a time.
SPECIFICATION ViewFairSpec
CONSTANTS
    Queries = {p}
    Rows = {old, new, bad}
    Unprocessable = {bad}
    Nothing = Nothing
    AutoRefresh = TRUE
    MaxBuffers = 1
    MaxWindows = 1
    MaxDraws = 2
PROPERTY AutoRefreshFollows
CHECK_DEADLOCK FALSE
