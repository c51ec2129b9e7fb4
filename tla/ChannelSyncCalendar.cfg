SPECIFICATION Spec
CONSTANTS
    Sub = {a, b}
    Nobody = nobody
    Final = 1
    Window = 1
    MaxClock = 4
    Connected = {a, b}
    MayDefer = FALSE
    UserEdits = TRUE
SYMMETRY Subscribers
INVARIANT SuccessIsUpToDate
\* the clock is bounded, and every start of a sync takes a tick
CHECK_DEADLOCK FALSE
