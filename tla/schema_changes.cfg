SPECIFICATION Spec
CONSTANTS
    Processes = {p1, p2}
    Changes = {r1, r2}
    Tables = {t1}
    Columns = {c1, c2}
    None = None
    Torn = Torn
    MaxUpsets = 1
SYMMETRY Symmetry
INVARIANTS TypeOK NoPhantomTable CopiesAgree
PROPERTY ReloadIsFresh
CHECK_DEADLOCK FALSE
