SPECIFICATION Spec
CONSTANTS
    l1 = l1
    l2 = l2
    t1 = t1
    LightHandlers <- TwoLight
    TempHandlers <- NoTemp
    Capacity = 2
    MaxExpiries = 3
SYMMETRY Symmetry
INVARIANTS
    TypeOK
    ReceiveNeverBlocks
PROPERTIES
    Channel_Spec
