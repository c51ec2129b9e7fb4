SPECIFICATION Spec
CONSTANTS
    Request = {p, q}
    Nobody = nobody
    MaxCalendar = 1
    MaxUser = 1
    Onboards = FALSE
    Syncs = FALSE
    UserActs = TRUE
    Answers404 = TRUE
SYMMETRY Requests
INVARIANT CompletedMeansGone
PROPERTY ImplementsSaga
CHECK_DEADLOCK FALSE
