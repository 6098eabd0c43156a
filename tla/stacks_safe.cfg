SPECIFICATION Spec
CONSTANTS
    t1 = t1
    t2 = t2
    Thread = {t1, t2}
    Killers = {t2}
    Natives = {t2}
    Box = {b1}
    Stack = {s1, s2, s3}
    Cpu = {c1, c2}
    Teb = {e1, e2}
    Bochs = Bochs
    None = None
    MaxDepth <- Nesting
    MaxListed <- Entries
    MaxVoid = 0
SYMMETRY Interchangeable
INVARIANTS
    TypeOK
    Exclusive
    ListedByHolder
    Recoverable
    OneStackPerEngine
    TebAlive
    IInv
CHECK_DEADLOCK FALSE
