SPECIFICATION CliSpec
CONSTANTS
    a = a
    b = b
    c = c
    Calls = {a, b, c}
    Keys = {key, other_key}
    Key = key
    OtherKey = other_key
    Explicit = {None, "short"}
    Env = {"unset", key, other_key}
    LineCells = 3
    NotInt = NotInt
    NotHash = NotHash
    NotCanonical = NotCanonical
    NoTail = NoTail
    None = None
    MaxEvents = 2
    MaxEdits = 1
SYMMETRY Symmetry
INVARIANT
    ExitOneMeansTampering
CHECK_DEADLOCK FALSE
