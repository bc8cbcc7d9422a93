\* An echo in the loop thread and a broadcast in another.
SPECIFICATION Spec
CONSTANTS
    Senders = {loop, app}
    LoopThread = loop
    Messages = {m1, m2, m3}
    Size = 2
    Capacity = 3
    WriteInterest = FALSE
INVARIANTS
    MessagesContiguous
CHECK_DEADLOCK FALSE
