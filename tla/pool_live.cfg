SPECIFICATION FairSpec
CONSTANTS
    t1 = t1
    t2 = t2
    t3 = t3
    NoThread = NoThread
    Thread = {t1, t2}
    Killers = {t1}
    NumBoxes = 1
    MaxDepth = 2
    MaxHolds = 1
    MaxListed = 1
PROPERTIES CallRuns ExitReclaims
CHECK_DEADLOCK FALSE
