SPECIFICATION Spec
CONSTANTS
    Tree <- SmallTree
    Root = "top"
    DirNodes = {"top", "sub"}
    FileNodes = {"file", "other"}
    MaxLinks = 1
    Threads = {1, 2, 3, 4}
    MaxChanges = 2
    Faults = {"open", "write", "create"}
INVARIANTS
    TypeOK
    OneRuns
    OwnPath
    ListedOnce
    RightList
    GivesUpDisturbed
PROPERTIES
    ImplementsSequential
    ScanEnds
CHECK_DEADLOCK FALSE
