SPECIFICATION Spec
CONSTANTS
    Worker = {w1, w2}
    Order = {o1}
    OverLimit = {}
    Seat = {s1}
    Key = {k1, k2}
    NoOrder = NoOrder
    NoKey = NoKey
    MaxQuantity = 1
    MaxCopies = 2
    MaxCalls = 2
    Requests = {"create", "confirm", "cancel", "refund"}
    Faults = {}
    MayRaise = {"redis", "db"}
    Crashes = TRUE
    HoldExpiry = "any_time"
    Webhook = TRUE
SYMMETRY Symmetry
INVARIANTS ConfirmOncePerKey OutboxComplete PaidIsDelivered
CHECK_DEADLOCK FALSE
