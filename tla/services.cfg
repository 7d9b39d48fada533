SPECIFICATION Spec
CONSTANTS
    Null = Null
    None = None
    Absent = Absent
    Off = Off
    Estimates <- MCEstimates
    Looks <- MCLooks
    DefaultLimit = 2
    MaxLimit = 3
    Contents <- MCContents
    QuerySet <- MCQuerySet
    Changes <- MCChanges
    MaxRowChanges = 1
    CellsOf <- MCCellsOf
    ArgumentsOf <- MCArgumentsOf
    MaxItems = 2
    SearchTexts <- MCSearchTexts
    Numbers <- MCNumbers
    Plain <- MCPlain
    ObjectIds <- MCObjectIds
    Written <- MCWritten
    TextFound <- MCTextFound
    Threads = {t1, t2}
    Paths = {"a", "b", "c"}
    Sizes = {1, 2}
    MaxCacheSize = 2
    MaxSaves = 3
    Requests = {r1, r2}
    NameCounts = {1, 2, 3}
    MaxTokens = 4
    Families <- MCFamilies
    TableNames = {"t1", "t2"}
    MaxRequests = 2
    ReadLimit = 2
    MaxReadRecords = 3
    Records <- MCRecords
    MaxRecords = 5
    MaxWrites = 1
INVARIANTS LookupsAreOwn PagesAreRight  CacheAccounts RefreshChainUnbroken SameIdSameEngine TypesFollowData
CHECK_DEADLOCK FALSE
