SPECIFICATION MeteredSpec
CONSTANTS
    Thread = {t1}
    Capacity = 3
    Unit = 3
    Life = 5
    Buffer = 3
    MaxStall = 1
    MaxSleep = 2
INVARIANT CallsConform
