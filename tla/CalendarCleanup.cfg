SPECIFICATION FairSpec
CONSTANTS
    Channels = {c, d}
    Main = c
    Events = {e}
    Of <- AllOfMain
    Requests = {r, s}
    Removers = {r}
    Limit = 1
    Batch = 1
INVARIANTS EventOwned WithinLimit
PROPERTIES OrphansGo ImplementsRegistry
CHECK_DEADLOCK FALSE
