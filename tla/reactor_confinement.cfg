\* Constructed in O and looped in L, as in tests/test_reactor.cpp: what O gives to
\* runInLoop runs in O.
SPECIFICATION Spec
CONSTANTS
    Threads = {L, O}
    LoopThread = L
    OwnerThread = O
    Timers = {w}
    Tasks = {k}
    Periodic = {}
    MaxRounds = 1
    NoTask = NoTask
INVARIANTS
    RunsInLoopOnly
CHECK_DEADLOCK FALSE
