SPECIFICATION FairSpec
CONSTANTS
    Sub = {a}
    NoSub = noSub
    Watches = {v, w}
    Refreshers = {r}
    First = r
    Limit = 1
    MaxTries = 2
INVARIANTS SpinnerHasWatch
PROPERTY PageUnlocks
CHECK_DEADLOCK FALSE
