SPECIFICATION Spec
CONSTANTS
    t1 = t1
    t2 = t2
    a = a
    b = b
    c = c
    Threads = {t1, t2}
    NoThread = NoThread
    Calls = {a, b}
    NoCall = NoCall
    NoEvent = NoEvent
    Arguments <- GoodAndBad
    None = None
    BigCalls = {}
    Keys = {key}
    Key = key
    LineCells = 3
    Fsync = FALSE
    MaxFaults = 0
    MaxCrashes = 0
INVARIANTS
    ClosedRaisesWriteError
CHECK_DEADLOCK FALSE
