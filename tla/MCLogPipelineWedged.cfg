SPECIFICATION FairSpec
CONSTANTS
    l1 = l1
    l2 = l2
    t1 = t1
    LightHandlers <- OneLight
    TempHandlers <- NoTemp
    Capacity = 1
    MaxExpiries = 3
PROPERTIES
    SenderGetsThrough
