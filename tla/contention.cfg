SPECIFICATION FairSpec
CONSTANTS
    Worker = {w1, w2}
    Order = {o1}
    OverLimit = {}
    Seat = {s1}
    Key = {k1, k2}
    NoOrder = NoOrder
    NoKey = NoKey
    MaxQuantity = 1
    MaxCopies = 2
    MaxCalls = 1
    Requests = {"create", "confirm", "cancel"}
    Faults = {}
    MayRaise = {"db"}
    Crashes = TRUE
    HoldExpiry = "never"
    Webhook = TRUE
PROPERTY EveryRequestEnds
CHECK_DEADLOCK FALSE
