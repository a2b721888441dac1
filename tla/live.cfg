SPECIFICATION LiveSpec
CONSTANTS
    t1 = t1
    t2 = t2
    a = a
    b = b
    c = c
    Threads = {t1, t2}
    NoThread = NoThread
    Calls = {a, b, c}
    NoCall = NoCall
    NoEvent = NoEvent
    Arguments <- GoodOnly
    BigCalls = {b}
    Keys = {k1}
    Key = k1
    LineCells = 3
    Fsync = TRUE
    MaxFaults = 1
    MaxCrashes = 1
    NotInt = NotInt
    NotHash = NotHash
    NotCanonical = NotCanonical
    NoTail = NoTail
    None = None
SYMMETRY Symmetry
INVARIANTS
    OnlyTheTailFails
    AckedAreVerified
    RestartAgreesWithVerify
CHECK_DEADLOCK FALSE
