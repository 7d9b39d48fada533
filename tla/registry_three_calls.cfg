CONSTANTS
    Calls = {c1, c2, c3}
    NoCall = NoCall
    Params = {p1, p2}
    CallKinds = {"session", "reload"}
    Workers = 3
    Tunneled = FALSE
    DisposeMayFail = TRUE
SPECIFICATION Spec
INVARIANTS
    PendingHasConnector
    NoZombieRegistration
PROPERTY
    RegistersOnlyFresh
SYMMETRY Symmetry
VIEW WithoutHistory
CHECK_DEADLOCK FALSE
