SPECIFICATION Spec
CONSTANTS
    MAXSIZE = 2
    FileSizes = {1}
    Entries = {"doftp"}
    ShortReads = FALSE
    Crashable = {}
    Edits = {}
    OpenResults = {"open"}
INVARIANTS
    ClosedMeansCopied
