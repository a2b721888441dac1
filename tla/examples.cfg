SPECIFICATION MainSpec
CONSTANTS
    main_thread = main_thread
    a = a
    b = b
    c = c
    d = d
    e = e
    f = f
    g = g
    h = h
    Threads = {main_thread}
    NoThread = NoThread
    Calls = {a, b, c, d, e, f, g, h}
    NoCall = NoCall
    NoEvent = NoEvent
    Arguments <- MCArguments
    None = None
    BigCalls = {}
    Keys = {key}
    Key = key
    LineCells = 2
    Fsync = FALSE
    MaxFaults = 1
    MaxCrashes = 1
    Requests <- MCRequests
    Reads = {"read_note"}
    ValidToken = "valid"
    Subject = "alice"
    Scripts <- MCScripts
    MaxRuns = 2
INVARIANTS
    AssertionsHold
    OkMeansComplete
    ScriptsKeepTheChain
CHECK_DEADLOCK FALSE
