\* Two loads of one file that is changed between their reads.
CONSTANTS
    Threads = {t1, t2}
    Files = {f1}
    NoFile = NoFile
    Missing = Missing
    NoThread = NoThread
    Contents <- MCContents
    Keys <- MCKeys
    Values <- MCValues
    Sets <- MCSets
    Types <- MCTypes
    Convertible <- MCConvertible
    MaxCalls = 3
    MaxEdits = 1
SPECIFICATION Spec

PROPERTIES NoRegress
