CONSTANTS
    Calls = {c1, c2}
    NoCall = NoCall
    Params = {p1}
    CallKinds = {"reload"}
    Workers = 2
    Tunneled = TRUE
    DisposeMayFail = FALSE
SPECIFICATION Spec
PROPERTY
    DisposesOnlyClosedTunnels
CHECK_DEADLOCK FALSE
