\* The program as written: nothing asks for write events.
SPECIFICATION FairSpec
CONSTANTS
    Senders = {loop}
    LoopThread = loop
    Messages = {m1, m2, m3}
    Size = 2
    Capacity = 3
    WriteInterest = FALSE
PROPERTIES
    OutputDrains
CHECK_DEADLOCK FALSE
