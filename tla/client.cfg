SPECIFICATION FairSpec
CONSTANTS
    Thread = {t1, t2}
    Capacity = 2
    Unit = 2
    Life = 4
    Buffer = 3
    MaxStall = 1
    MaxSleep = 1
INVARIANTS TypeOK TokenAlive
PROPERTY EveryCallEnds
