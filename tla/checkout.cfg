SPECIFICATION Spec
CONSTANTS
    Worker = {w1, w2}
    Order = {o1, o2}
    OverLimit = {}
    Seat = {s1, s2}
    Key = {k1, k2}
    NoOrder = NoOrder
    NoKey = NoKey
    MaxQuantity = 2
    MaxCopies = 1
    MaxCalls = 2
    Requests = {"create", "confirm", "refund"}
    Faults = {}
    MayRaise = {}
    Crashes = FALSE
    HoldExpiry = "never"
    Webhook = TRUE
SYMMETRY SymmetryOfOrders
INVARIANTS CheckoutHoldsSeats PaymentMatchesOrder TmOrderOnce
PROPERTY OnlyOwnerReleases
CHECK_DEADLOCK FALSE
