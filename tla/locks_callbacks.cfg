SPECIFICATION Spec
CONSTANTS
    Thread = {t1, t2}
    NoThread = NoThread
    CSPeLdr = CSPeLdr
    CSCb = CSCb
    Pointer = {CSPeLdr, CSCb}
    Precreated = {CSPeLdr}
    Nesting = {CSPeLdr}
    Section = {x1, x2, x3}
    Key = {k1, k2}
    Nil = Nil
    MaxDepth = 2
SYMMETRY Symmetry
INVARIANTS
    FreedWhenNotNeeded
CHECK_DEADLOCK FALSE
