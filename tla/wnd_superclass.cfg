SPECIFICATION Spec
CONSTANTS
    NativeClass = {Edit}
    OwnClass = {Frame}
    Window = {w1, w2}
    X86 = {p, q}
    WindowProc = WindowProc
    Nil = Nil
INVARIANTS
    NoNativeEmulated
CHECK_DEADLOCK FALSE
