SPECIFICATION FairSpec
CONSTANTS
    Tasks <- MCTasks
    Base <- MCBase
    Idle = Idle
    Nobody = Nobody
    Period = 100
    TempEvery = 10
    MutexWait = 20
    QueueLength = 2
INVARIANTS
    TypeOK
    GivenByHolder
    AlertFirst
    AlertUnhindered
PROPERTIES
    NoGiveLost
    ExchangeUncut
    AlertServed
    LedServed
