\* Two threads load, reload, set and read while the files change.
CONSTANTS
    Threads = {t1, t2}
    Files = {f1}
    NoFile = NoFile
    Missing = Missing
    NoThread = NoThread
    Contents <- MCContents
    Keys <- MCKeys
    Values <- MCValues
    Sets <- MCSets
    Types <- MCTypes
    Convertible <- MCConvertible
    MaxCalls = 3
    MaxEdits = 1
SPECIFICATION Spec
INVARIANTS TypeOK WholeConfig NoFallback
PROPERTIES ReadsWhole
