CONSTANTS
    Calls = {c1}
    NoCall = NoCall
    Params = {p1, p2}
    CallKinds = {"plain"}
    Workers = 1
    Tunneled = TRUE
    DisposeMayFail = FALSE
SPECIFICATION FairSpec
PROPERTY
    ClosedTunnelDisposes
CHECK_DEADLOCK FALSE
