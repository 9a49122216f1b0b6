SPECIFICATION FairSpec
CONSTANTS
    Threads = {t1, t2}
    t1 = t1
    t2 = t2
    f1 = f1
    Feeds = {f1}
    SavedRules <- MCSavedRules
    Presets <- MCPresets
    Requests <- MCRequests
    MaxHits = 2
    FeedLimit = 1
    MaxMade = 3
    MaxCalls = 3
    MaxFaults = 1
    DemoRule = DemoRule
    Idle = Idle
    None = None
INVARIANTS
    TypeOK
    LostOnlyByOverlap
PROPERTY
    HitsReachFeed
CHECK_DEADLOCK FALSE
