SPECIFICATION FairSpec
CONSTANTS
    MAXSIZE = 2
    FileSizes <- WholeSizes
    Entries = {"doftp"}
    ShortReads = FALSE
    Crashable = {}
    Edits = {}
    OpenResults = {"open"}
PROPERTIES
    EveryTransferEnds
CHECK_DEADLOCK FALSE
