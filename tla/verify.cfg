SPECIFICATION CliSpec
CONSTANTS
    a = a
    b = b
    c = c
    Calls = {a, b, c}
    Keys = {key, other_key}
    Key = key
    OtherKey = other_key
    Explicit = {None, "short"}
    Env = {"unset", key, other_key}
    LineCells = 3
    NotInt = NotInt
    NotHash = NotHash
    NotCanonical = NotCanonical
    NoTail = NoTail
    None = None
    MaxEvents = 3
    MaxEdits = 2
SYMMETRY Symmetry
INVARIANTS
    TypeOK
    VerdictIsFirstBadLine
    AcceptedIsGenuine
    UntouchedVerifies
    OneEditAsClaimed
    ResumeAgreesWithVerify
    AppendsKeepTheVerdict
    ExitIsTheVerdict
CHECK_DEADLOCK FALSE
