\* start() again after a stop().
SPECIFICATION FairSpec
CONSTANTS
    Conns = {c1}
    ThreadNum = 1
    MaxStarts = 2
    MaxBroadcasts = 0
    NoConn = NoConn
PROPERTIES
    ClientServed
CHECK_DEADLOCK FALSE
