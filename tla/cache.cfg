SPECIFICATION Spec
CONSTANTS
    Reader = {r1, r2}
    Event = {e1}
    Search = {s1}
    NoRequest = NoRequest
    TTL = 3
    MaxFlight = 1
SYMMETRY Symmetry
INVARIANTS TypeOK StalenessBound
PROPERTY WebhookClears
