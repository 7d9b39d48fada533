SPECIFICATION Spec
CONSTANTS
    m1 = m1
    m2 = m2
    NoOne = NoOne
    Names = {1, 2}
    Models = {m1, m2}
    Saves = {s1, s2, s3}
    DraftFlags = {TRUE, FALSE}
    Bodies <- SmallBodies
SYMMETRY Symmetry
VIEW LiveState
INVARIANTS TypeOK LockIsLive SchemaFollowsRows
PROPERTY LoneSaveIsExact
CHECK_DEADLOCK FALSE
