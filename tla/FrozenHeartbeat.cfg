\* A second connection after a context change.
SPECIFICATION HeartbeatFairSpec
CONSTANTS
    Servers = {c1, c2}
    NoServer = NoServer
    MaxConnects = 2
PROPERTY HeartbeatFollows
