CONSTANTS
    Calls = {c1, c2}
    NoCall = NoCall
    Params = {p1}
    CallKinds = {"reload"}
    Workers = 2
    Tunneled = TRUE
    DisposeMayFail = FALSE
SPECIFICATION FairSpec
INVARIANTS TypeOK NoTunnelWithoutEngine
PROPERTIES CallsEnd TunnelLossHeals
CHECK_DEADLOCK FALSE
