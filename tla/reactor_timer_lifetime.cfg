\* A reactor destroyed while a runAfter sleeps.
SPECIFICATION Spec
CONSTANTS
    Threads = {L, A}
    LoopThread = L
    OwnerThread = L
    Timers = {w1, w2}
    Tasks = {j, k}
    Periodic = {}
    MaxRounds = 1
    NoTask = NoTask
SYMMETRY TimerSymmetry
INVARIANTS
    NoTimerOutlivesReactor
CHECK_DEADLOCK FALSE
