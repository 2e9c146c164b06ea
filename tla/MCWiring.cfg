\* Two threads, one late package, one reset.
SPECIFICATION FairSpec

CONSTANTS
    t1 = t1
    t2 = t2
    Topic = {1, 2, 3, 4}
    Package = {1, 2}
    Late = {2}
    Ships <- ShippedBy
    WATCH_EVENTS = {}
    IGNORE_EVENTS = {4}
    Thread = {t1, t2}
    NoThread = NoThread
    Main = t1
    NoCatalog = NoCatalog
    MaxCalls = 3
    MaxResets = 1

\* The threads may have nothing left to call.
CHECK_DEADLOCK FALSE

INVARIANTS
    TypeOK
    CatalogIsAnswered
    WiredOncePerThread
    WiredIsRemembered
    AcceptedIsWired

PROPERTIES
    WatchedIsWired
