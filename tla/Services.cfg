SPECIFICATION ServicesSpec
CONSTANTS
    frankies = frankies
    harbour = harbour
    Request = {"r1", "r2"}
    Business <- MCBusiness
    Service <- MCService
    Response <- MCResponse
    Nonce = {n1, n2}
    Conversation = {c1, c2}
    Writer = {w1}
    Value <- MCValue
    Inode = {i1, i2, i3}
    n1 = n1  n2 = n2  c1 = c1  c2 = c2
    Torn = Torn
    Nothing = Nothing
    Unknown = Unknown
    john = john
    jane = jane
    Never = Never
    Peer = {john, jane}
    Grant <- MCGrant
    Second = 2
    MaxAge = 4
    FutureSkew = 2
    MaxUses = 2
    MaxTime = 6
INVARIANTS
    ToldOnce
    NothingSwallowed
    SavedIsPrivate
    IndexAsTold
    FollowUpsAreSpaced
PROPERTIES
    ImplementsAtomicCell
CHECK_DEADLOCK FALSE
