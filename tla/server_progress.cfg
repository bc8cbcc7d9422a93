\* One connection, two sub reactors, a broadcast and a stop.
SPECIFICATION FairSpec
CONSTANTS
    Conns = {c1}
    ThreadNum = 2
    MaxStarts = 1
    MaxBroadcasts = 1
    NoConn = NoConn
PROPERTIES
    ClientServed
    LeaveNoticed
    StopJoins
CHECK_DEADLOCK FALSE
