CONSTANTS
    Calls = {c1, c2, c3}
    NoCall = NoCall
    Params = {p1, p2}
    CallKinds = {"session", "reload"}
    Workers = 2
    Tunneled = FALSE
    DisposeMayFail = TRUE
SPECIFICATION Spec
INVARIANT
    GetsRequestedParams
PROPERTY
    DropsOnlyUnseen
SYMMETRY Symmetry
CHECK_DEADLOCK FALSE
