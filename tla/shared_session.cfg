SPECIFICATION Spec
CONSTANTS
    Order = {o1, o2}
    Canceller = {t1, t2}
    Prober = {p}
    Stopper = {main}
    None = None
INVARIANT EventsWithData
CHECK_DEADLOCK FALSE
