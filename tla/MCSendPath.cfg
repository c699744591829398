CONSTANTS
    Users = {u1}
    Requests = {1, 2, 3, 4}
    Threads <- SendThreads
    Conns = {c1, c2, c3}
    MaxPerHour = 2
    Hour = 1
    MaxTime = 1
    MinConn = 1
    MaxConn = 1
    MaxDead = 1
    None = None
    Nil = Nil
SPECIFICATION FairSpec
CONSTRAINT
    TwoOrSmooth
INVARIANTS
    SendTypeOK
    OneHolder
    LeaksExplained
    RateBounded
PROPERTY
    EveryThreadEnds
