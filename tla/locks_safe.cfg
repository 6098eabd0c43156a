SPECIFICATION Spec
CONSTANTS
    Thread = {t1, t2, t3}
    NoThread = NoThread
    CSPeLdr = CSPeLdr
    CSCb = CSCb
    Pointer = {CSPeLdr, CSCb}
    Precreated = {CSPeLdr}
    Nesting = {CSPeLdr}
    Section = {x1, x2, x3, x4}
    Key = {k1}
    Nil = Nil
    MaxDepth = 3
SYMMETRY Symmetry
INVARIANTS
    TypeOK
    NoMisuse
    
    MadeOnce
    IInv
