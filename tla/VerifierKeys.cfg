SPECIFICATION KeysSpec
CONSTANTS
    c1 = c1
    c2 = c2
    acme = acme
    k1 = k1
    k2 = k2
    NoKey = NoKey
    Down = Down
    None = None
    Call = {c1, c2}
    Domain = {acme}
    Key = {k1, k2}
    SignedList <- MCSignedList
    Override <- MCOverride
    Second = 1
    MaxAge = 3
    FutureSkew = 1
    Ttl = 2
    MaxDelay = 1
    MaxTime = 4
SYMMETRY Calls
INVARIANTS UserHasTheLastWord FreshOrOffline
PROPERTY GoodFetchesAreSpaced
CHECK_DEADLOCK FALSE
