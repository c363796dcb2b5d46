SPECIFICATION FairSpec
CONSTANTS
    MAXSIZE = 3
    FileSizes <- AllSizes
    Entries = {"dostr", "dofile", "doftp"}
    ShortReads = TRUE
    Crashable = {"snd", "rcv"}
    Edits <- EditSizes
    OpenResults = {"open", "null"}
INVARIANTS
    TypeOK
    Framing
    NoMutualWait
    Agreement
    CompleteMeansCopied
    AllRecvMeansCopied
    KeepsOldCopy
PROPERTIES
    ImplementsCopy
    PeerFollows
    TransferEnds
    DeliversWell
    DostrServesNobody
CHECK_DEADLOCK FALSE
