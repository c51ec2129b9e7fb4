SPECIFICATION Spec
CONSTANTS
    Sub = {a, b}
    Nobody = nobody
    Final = 2
    Window = 2
    MaxClock = 6
    Connected = {}
    MayDefer = TRUE
    UserEdits = FALSE
SYMMETRY Subscribers
INVARIANT SuccessIsFresh
PROPERTIES RowNeverGoesBack OneFetchPerWindow ImplementsSnapshot
\* the clock is bounded, and every start of a sync takes a tick
CHECK_DEADLOCK FALSE
