SPECIFICATION FairSpec
CONSTANTS
    Request = {p}
    Nobody = nobody
    MaxCalendar = 2
    MaxUser = 2
    Onboards = TRUE
    Syncs = TRUE
    UserActs = FALSE
    Answers404 = FALSE
INVARIANT SnapshotCalendarGone
PROPERTY DeletionCompletes
CHECK_DEADLOCK FALSE
