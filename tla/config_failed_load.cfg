\* One thread: a load() of a file that cannot be opened, then a reload().
CONSTANTS
    Threads = {t1}
    Files = {f1, f2}
    NoFile = NoFile
    Missing = Missing
    NoThread = NoThread
    Contents <- MCContents
    Keys <- MCKeys
    Values <- MCValues
    Sets <- MCSets
    Types <- MCTypes
    Convertible <- MCConvertible
    MaxCalls = 3
    MaxEdits = 1
SPECIFICATION Spec
INVARIANTS ReloadsLoadedFile
