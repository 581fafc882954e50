SPECIFICATION FairSpec
CONSTANTS
    srv_thread = srv_thread
    handler = handler
    c1 = c1
    c2 = c2
    Server = srv_thread
    TempUsers <- MCTempUsers
    LightUsers <- MCLightUsers
    Clients <- MCClients
    Others <- MCOthers
    OtherWords <- MCWords
    NoOne = NoOne
    NoClient = NoClient
    MaxFds = 4
    Samples <- MCSamples
    Channels <- MCChannels
\* The monitor ends.
CHECK_DEADLOCK FALSE
INVARIANTS
    TypeOK
    RepliesMatch
    CommandsKept
    CelsiusTrue
    ClientTold
PROPERTIES
    Served
