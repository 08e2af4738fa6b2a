SPECIFICATION FairSpec
CONSTANTS
    Processes = {w1, w2}
    CacheSlots = {s1, s2}
    Slugs = {g1}
    TTL = 2
    MaxFill = 1
    MaxChanges = 2
    NoEntry = NoEntry
    NoWorker = NoWorker
    NoSlug = NoSlug
    NoRead = NoRead
INVARIANTS
    BoundedStaleness
PROPERTY CachesConverge
CHECK_DEADLOCK FALSE
