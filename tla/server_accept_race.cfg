\* stop() while a client connects.
SPECIFICATION Spec
CONSTANTS
    Conns = {c1}
    ThreadNum = 1
    MaxStarts = 1
    MaxBroadcasts = 0
    NoConn = NoConn
INVARIANTS
    NoUseAfterFree
CHECK_DEADLOCK FALSE
