SPECIFICATION Spec
CONSTANTS
    Worker = {w1, w2}
    Order = {o1}
    OverLimit = {}
    Seat = {s1}
    Key = {k1}
    NoOrder = NoOrder
    NoKey = NoKey
    MaxQuantity = 1
    MaxCopies = 1
    MaxCalls = 1
    Requests = {"create", "confirm", "cancel", "refund"}
    Faults = {}
    MayRaise = {}
    Crashes = FALSE
    HoldExpiry = "never"
    Webhook = TRUE
PROPERTY ImplementsLifecycle
CHECK_DEADLOCK FALSE
