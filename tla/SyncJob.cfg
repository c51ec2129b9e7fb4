SPECIFICATION Spec
CONSTANTS
    Run = {1, 2}
    Sub = {s1}
    Deleted = {}
    Left = 0
    Worker = {w1, w2}
    NoRun = noRun
    NoSub = noSub
    NoWorker = noWorker
    Dead = dead
    MaxReceive = 2
    PassLimit = 1
    MaxCrash = 1
    SendOutcomes = {"ok"}
    Completions = {"SUCCESS"}
    UserActs = {"pause", "remove", "delete"}
CONSTRAINTS OnePass OneRunOfTheLeft
SYMMETRY Interchange
INVARIANTS TargetFollowsRun OneWorkerPerRun
PROPERTIES OutcomeStays SavedByOwner ImplementsJobStore
\* the only subscription may be removed
CHECK_DEADLOCK FALSE
