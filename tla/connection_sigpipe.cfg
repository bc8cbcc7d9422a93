\* A broadcast to a peer that has reset its connection.
SPECIFICATION Spec
CONSTANTS
    Senders = {loop, app}
    LoopThread = loop
    Messages = {m1, m2, m3}
    Size = 2
    Capacity = 3
    WriteInterest = FALSE
INVARIANTS
    SurvivesReset
CHECK_DEADLOCK FALSE
