\* Two connections on one sub reactor, a broadcast and a stop.
SPECIFICATION Spec
CONSTANTS
    Conns = {c1, c2}
    ThreadNum = 1
    MaxStarts = 1
    MaxBroadcasts = 1
    NoConn = NoConn
INVARIANTS
    TypeOK
    NoticesInOrder
    NoBroadcastAfterDown
    ConnectedIsListed
    StopClosesAlone
SYMMETRY ConnSymmetry
CHECK_DEADLOCK FALSE
