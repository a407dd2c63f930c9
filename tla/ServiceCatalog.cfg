SPECIFICATION FairSpec
CONSTANTS
    t1 = t1
    t2 = t2
    None = None
    Task = {t1, t2}
    Catalog <- MCCatalog
    Second = 1
    MaxAge = 4
    FutureSkew = 1
    Ttl = 2
    MaxDelay = 1
    MaxTime = 5
INVARIANTS StalenessBounded
PROPERTIES FetchTimesGrow CallsReturn
CHECK_DEADLOCK FALSE
