SPECIFICATION Spec
CONSTANTS
    Requests = {r1, r2}
    Ids = {1, 2, 3}
    Null = Null
    Estimates = {2}
    Absent = Absent
    Cells = {2}
    MaxSiblings = 2
    Tables <- MCTables
    Walks <- MCWalks
    Reorders <- MCReorders
    Bulks <- MCBulks
INVARIANTS TypeOK NoEarlyEnd WalkIsComplete SiblingsAreNeighbours OrderIsKnown BulkReportIsTrue
CHECK_DEADLOCK FALSE
