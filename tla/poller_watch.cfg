\* Two descriptors and an event array of one entry: the array is full whenever
\* both are ready.
CONSTANTS
    Channels = {c1, c2}
    Arrivals = {"IN", "ERR"}
    InitSize = 1
SPECIFICATION Spec
INVARIANTS TypeOK WatchesWhatIsAsked NoStaleWatch
PROPERTIES ReadyIsHandled
