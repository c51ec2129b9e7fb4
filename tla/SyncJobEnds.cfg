SPECIFICATION FairSpec
CONSTANTS
    Run = {1, 2}
    Sub = {s1, s2}
    Deleted = {s2}
    Left = 1
    Worker = {w1}
    NoRun = noRun
    NoSub = noSub
    NoWorker = noWorker
    Dead = dead
    MaxReceive = 1
    PassLimit = 1
    MaxCrash = 1
    SendOutcomes = {"ok", "timeout"}
    Completions = {"SUCCESS"}
    UserActs = {}
PROPERTY RunsEnd
\* messages run out
CHECK_DEADLOCK FALSE
