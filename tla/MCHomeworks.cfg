SPECIFICATION FairSpec
CONSTANTS
    QRounds = 10
    SRounds = 10
    PRounds = 10
    NRounds = 10
    Leftovers <- MCLeftovers
    OldPosts <- MCOldPosts
\* The programs end.
CHECK_DEADLOCK FALSE
INVARIANTS
    TypeOK
    ReadsWritten
    PipesHeld
    QuietWhenUnloaded
PROPERTIES
    ParentsEnd
    ChildrenEnd
