\* The reactor is constructed in O and looped in L, as TcpServer::start and the
\* tests do; O gets neither wakeups nor queueing from runInLoop.
SPECIFICATION FairSpec
CONSTANTS
    Threads = {L, O, A}
    LoopThread = L
    OwnerThread = O
    Timers = {w}
    Tasks = {j, k}
    Periodic = {}
    MaxRounds = 1
    NoTask = NoTask
INVARIANTS
    NoLostWakeup
    NoLostQuit
PROPERTIES
    QuitStops
    ImplementsExecutor
CHECK_DEADLOCK FALSE
