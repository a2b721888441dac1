SPECIFICATION Spec
CONSTANTS
    t1 = t1
    t2 = t2
    a = a
    b = b
    c = c
    Threads = {t1, t2}
    NoThread = NoThread
    Calls = {a, b}
    NoCall = NoCall
    NoEvent = NoEvent
    Arguments <- GoodAndBad
    None = None
    BigCalls = {b}
    Keys = {key}
    Key = key
    LineCells = 3
    Fsync = TRUE
    MaxFaults = 1
    MaxCrashes = 0
INVARIANTS
    SuccessIsDurable
CHECK_DEADLOCK FALSE
