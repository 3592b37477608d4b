SPECIFICATION Spec
CONSTANTS
    Worker = {w1}
    Order = {o1, o2}
    OverLimit = {o2}
    Seat = {s1}
    Key = {k1, k2}
    NoOrder = NoOrder
    NoKey = NoKey
    MaxQuantity = 1
    MaxCopies = 1
    MaxCalls = 1
    Requests = {"create", "confirm", "cancel", "refund"}
    Faults = {}
    MayRaise = {"redis", "db"}
    Crashes = TRUE
    HoldExpiry = "any_time"
    Webhook = TRUE
SYMMETRY Symmetry
INVARIANTS TypeOK PaidIsDelivered
PROPERTIES ImplementsLifecycle OnlyOwnerReleases
CHECK_DEADLOCK FALSE
