SPECIFICATION FairSpec
CONSTANTS
    Clients = {c1, c2, c3}
    NoClient = NoClient
    Sockids <- AnySockid
    MaxProcs = 2
    Kills = TRUE
INVARIANTS
    TypeOK
    OneConversation
    Mute
PROPERTIES
    PeerFollows
    PortComesBack
