\* Two containers and two sessions of one log buffer, one line in the
\* queue; one describe buffer with two sessions; one node shell.
SPECIFICATION MCSpec
CONSTANTS
    Containers = {c1, c2}
    MaxStarts = 2
    MaxQueue = 2
    ChunkSize = 1
    Contents = {x, y}
    NoText = NoText
    MaxSessions = 2
    MaxBuffers = 1
    MaxWindows = 2
    MaxTexts = 1
    MaxScheduled = 1
    MaxChunks = 2
    MaxTicks = 2
INVARIANTS SessionTypeOK NoZombieSession OneOpenSession DeletedOnceAfterEnd
PROPERTIES TasksEnd LinesAreRead DescribeFollows PollsEnd PodReleased
CHECK_DEADLOCK FALSE
