CONSTANTS
    k1 = k1
    k2 = k2
    v1 = v1
    v2 = v2
    Keys <- MCKeys
    Vals <- MCVals
    None = None
    MaxEvents = 3
    MaxRestarts = 2
SPECIFICATION Spec
INVARIANTS
    TypeOK
    WatchSound
PROPERTIES
    AwaitWatchingReturns
    ShutdownReturns
    CacheConverges
    ImplementsWatchedCache
