SPECIFICATION FairSpec
CONSTANTS
    l1 = l1
    l2 = l2
    t1 = t1
    LightHandlers <- OneLight
    TempHandlers <- OneTemp
    Capacity = 1
    MaxExpiries = 2
INVARIANTS
    OutageLit
    OutageAnnounced
PROPERTIES
    FlagServed
    ShutdownCompletes
