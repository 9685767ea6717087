CONSTANTS
    Worker = {w1, w2}
    Duration = 2
    MaxWait = 1
    MaxTime = 4
    MaxResults = 3
SPECIFICATION Spec
INVARIANT SeasonsFollow
CHECK_DEADLOCK FALSE
