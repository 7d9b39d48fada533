SPECIFICATION Spec
CONSTANTS
    None = None
    Absent = Absent
    Clients = {c1, c2}
    Changers = {w1, w2}
    CidModes = {TRUE, FALSE}
    CacheResponses = TRUE
    Workers = 4
    Drops = TRUE
    MaxVersion = 3
SYMMETRY Symmetry
INVARIANTS TypeOK NotModifiedMeansSame FreshDescriptions
