SPECIFICATION Spec
CONSTANTS
    t1 = t1
    t2 = t2
    t3 = t3
    NoThread = NoThread
    Thread = {t1, t2}
    Killers = {t1}
    NumBoxes = 2
    MaxDepth = 2
    MaxHolds = 1
    MaxListed = 2
INVARIANT NotifiedThreadsExit
CHECK_DEADLOCK FALSE
