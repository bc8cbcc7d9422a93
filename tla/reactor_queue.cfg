\* The reactor is constructed in the thread that runs loop(), as the asserts of
\* reactor.cpp:76,111,117 demand; another thread queues tasks, arms timers for a
\* plain and a periodic task, and quits.
SPECIFICATION FairSpec
CONSTANTS
    Threads = {L, A}
    LoopThread = L
    OwnerThread = L
    Timers = {w1, w2}
    Tasks = {k, p}
    Periodic = {p}
    MaxRounds = 2
    NoTask = NoTask
INVARIANTS
    TypeOK
    NoLostWakeup
    NoLostQuit
    BatchCompletes
    PeriodicSingleFlight
PROPERTIES
    ImplementsExecutor
CHECK_DEADLOCK FALSE
