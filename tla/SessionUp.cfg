SPECIFICATION FairSpec
CONSTANTS
    Clients = {c1}
    NoClient = NoClient
    Sockids <- Listening
    MaxProcs = 1
    Kills = FALSE
PROPERTIES
    UpSends
CHECK_DEADLOCK FALSE
