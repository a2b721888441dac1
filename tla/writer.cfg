SPECIFICATION Spec
CONSTANTS
    t1 = t1
    t2 = t2
    a = a
    b = b
    c = c
    Threads = {t1, t2}
    NoThread = NoThread
    Calls = {a, b, c}
    NoCall = NoCall
    NoEvent = NoEvent
    Arguments <- GoodAndBad
    None = None
    BigCalls = {b}
    Keys = {key}
    Key = key
    LineCells = 3
    Fsync = TRUE
    MaxFaults = 1
    MaxCrashes = 1
SYMMETRY Symmetry
INVARIANTS
    TypeOK
    ChainIntact
    AckedOnDisk
    AckedIsSynced
    NeverTwice
    MemoryMatchesDisk
    GettersBehindFile
    RefusedLeavesNoTrace
    CloseTearsNothing
PROPERTIES
    AtomicAppends
CHECK_DEADLOCK FALSE
