SPECIFICATION Spec
CONSTANTS
    main = main
    t1 = t1
    t2 = t2
    exe = exe
    a = a
    b = b
    c = c
    d = d
    drv = drv
    stub = stub
    NoThread = NoThread
    Thread = {main, t1}
    Main = main
    File = {exe, a, b, drv, stub}
    ExeFile = exe
    Resolved <- SearchPath
    Imports <- ImportTable
    Flaky = {b, stub}
    Faulty = {exe, a, b, stub}
    MaxModules = 5
    MaxOpens = 5
    MaxHolds = 5
INVARIANTS TypeOK OneCopy HandleKept FramesLive AttachAfterImports IInv LoadOrder
PROPERTY DetachPaired
PROPERTY ImplementsLife
CHECK_DEADLOCK FALSE
