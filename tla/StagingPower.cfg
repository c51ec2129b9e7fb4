SPECIFICATION FairSpec
CONSTANTS
    Operators = {p}
    Hours = {1}
    MaxTime = 2
    Disturbances = 1
INVARIANT ReportIsTrue
PROPERTIES InOrder WokenSleepsAgain
CHECK_DEADLOCK FALSE
