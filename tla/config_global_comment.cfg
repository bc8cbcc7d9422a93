\* One thread loads the file of the test and asks for its keys.
CONSTANTS
    Threads = {t1}
    Files = {f1}
    NoFile = NoFile
    Missing = Missing
    NoThread = NoThread
    Contents <- TestContents
    Keys <- TestKeys
    Values <- MCValues
    Sets <- TestSets
    Types <- MCTypes
    Convertible <- MCConvertible
    MaxCalls = 1
    MaxEdits = 0
SPECIFICATION Spec
INVARIANTS GlobalAfterComment
