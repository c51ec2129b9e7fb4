SPECIFICATION Spec
CONSTANTS
    Worker = w
    Callers = {w, m}
    Budget <- SmallBudget
    Protected <- SmallReserve
    SearchPages = 1
    Tracked = 1
    Attempts = 2
    DayStarts = {0, 5, 8, 12}
    Instants = {4, 5}
    Start = 4
    Horizon = 5
    FullDay = 4
    MaxStale = 1
    MaxTargets = 2
    MaxFetches = 1
    MaxCalls = 2
    MaxFaults = 1
INVARIANTS WithinBudget ReservationKept RetryAtReset SpentWithinBounds ReportsAgree
PROPERTIES ImplementsLedger
\* the clock, the pass and the manual calls are bounded
CHECK_DEADLOCK FALSE
