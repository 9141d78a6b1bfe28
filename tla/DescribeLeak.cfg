\* One describe view, opened once and closed.
SPECIFICATION DescribeFairSpec
CONSTANTS
    Contents = {x, y}
    NoText = NoText
    MaxSessions = 1
    MaxBuffers = 1
    MaxWindows = 1
    MaxTexts = 1
    MaxScheduled = 1
PROPERTY DeletedIsCleanedUp
CHECK_DEADLOCK FALSE
