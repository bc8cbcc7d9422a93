\* A client that leaves while it is being accepted.
SPECIFICATION Spec
CONSTANTS
    Conns = {c1}
    ThreadNum = 1
    MaxStarts = 1
    MaxBroadcasts = 0
    NoConn = NoConn
INVARIANTS
    ClosedNotListed
CHECK_DEADLOCK FALSE
