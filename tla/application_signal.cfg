\* A SIGINT after the handlers are installed.
CONSTANTS
    Main = main
    Server = {s1, s2}
    QueueSize = 2
    MaxMessages = 2
    MaxStats = 1
SPECIFICATION FairSpec
CHECK_DEADLOCK FALSE
PROPERTIES SignalStops
