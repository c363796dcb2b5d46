SPECIFICATION Spec
CONSTANTS
    MAXSIZE = 2
    FileSizes = {5}
    Entries = {"doftp"}
    ShortReads = TRUE
    Crashable = {}
    Edits = {}
    OpenResults = {"open"}
INVARIANTS
    AllRecvMeansReceived
