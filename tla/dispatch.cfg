SPECIFICATION ServerSpec
CONSTANTS
    t1 = t1
    t2 = t2
    a = a
    b = b
    Threads = {t1, t2}
    NoThread = NoThread
    Calls = {a, b}
    NoCall = NoCall
    NoEvent = NoEvent
    Arguments <- AllArguments
    None = None
    BigCalls = {b}
    Keys = {key}
    Key = key
    LineCells = 2
    Fsync = TRUE
    MaxFaults = 1
    MaxCrashes = 1
    Requests <- AllKinds
    Reads = {"read_note"}
    ValidToken = "valid"
    Subject = "alice"
SYMMETRY Symmetry
INVARIANTS
    NothingRunsUnrecorded
    LogKeepsTheOrder
CHECK_DEADLOCK FALSE
