SPECIFICATION Spec
CONSTANTS
    NativeClass = {Edit}
    OwnClass = {Frame}
    Window = {w1, w2}
    X86 = {p, q}
    WindowProc = WindowProc
    Nil = Nil
INVARIANTS
    TypeOK
    NativeOnlySuperclassed
    Together
PROPERTIES
    ImplementsProcedures
CHECK_DEADLOCK FALSE
