SPECIFICATION FairSpec
CONSTANTS
    MAXSIZE = 2
    FileSizes = {5}
    Entries = {"dofile"}
    ShortReads = FALSE
    Crashable = {}
    Edits = {}
    OpenResults = {"open"}
PROPERTIES
    DofileServes
