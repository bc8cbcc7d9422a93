\* Two server threads and a log queue of two messages, so that callers wait for
\* room.  The process may end.
CONSTANTS
    Main = main
    Server = {s1, s2}
    QueueSize = 2
    MaxMessages = 2
    MaxStats = 1
SPECIFICATION FairSpec
CHECK_DEADLOCK FALSE
INVARIANTS TypeOK ServerLogsKept LogGapless
PROPERTIES StopExits
