CONSTANTS
    Requests = {r1, r2}
    Writers = {w1}
    Keys = {published, draft}
    DraftKeys = {draft}
    None = None
    MaxContent = 2
SPECIFICATION FairSpec
INVARIANTS TypeOK FreshCache FreshAnswer ProgressHasGenerator
PROPERTY ImplementsReads ImplementsFairReads
CHECK_DEADLOCK FALSE
