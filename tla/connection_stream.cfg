\* One sender.  With write events on handleWrite() takes part: every behaviour of the
\* program, which never enables them, is one of these.
SPECIFICATION Spec
CONSTANTS
    Senders = {loop}
    LoopThread = loop
    Messages = {m1, m2, m3}
    Size = 2
    Capacity = 3
    WriteInterest = TRUE
INVARIANTS
    TypeOK
    StreamIntact
CHECK_DEADLOCK FALSE
