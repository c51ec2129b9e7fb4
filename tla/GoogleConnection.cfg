SPECIFICATION FairSpec
CONSTANTS
    Onboardings = {o}
    Workers = {w}
    MaxGrant = 2
    MaxCalendar = 2
INVARIANTS FlagHasReason NoSecondCalendar
PROPERTY LossIsNoticed
CHECK_DEADLOCK FALSE
