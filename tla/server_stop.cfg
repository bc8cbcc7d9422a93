\* stop() with an established connection.
SPECIFICATION FairSpec
CONSTANTS
    Conns = {c1}
    ThreadNum = 1
    MaxStarts = 1
    MaxBroadcasts = 0
    NoConn = NoConn
PROPERTIES
    StopReturns
CHECK_DEADLOCK FALSE
