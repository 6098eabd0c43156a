SPECIFICATION FairSpec
CONSTANTS
    main = main
    t1 = t1
    t2 = t2
    exe = exe
    a = a
    b = b
    c = c
    d = d
    drv = drv
    stub = stub
    NoThread = NoThread
    Thread = {main, t1}
    Main = main
    File = {exe, a, b, c, d}
    ExeFile = exe
    Resolved <- SearchPath
    Imports <- ImportTable
    Flaky = {}
    Faulty = {}
    MaxModules = 6
    MaxOpens = 5
    MaxHolds = 0
PROPERTY AllNotified
CHECK_DEADLOCK FALSE
