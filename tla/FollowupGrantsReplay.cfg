SPECIFICATION GrantsSpec
CONSTANTS
    john = john
    jane = jane
    Never = Never
    Peer = {john, jane}
    Grant <- MCGrant
    Second = 2
    MaxAge = 4
    FutureSkew = 2
    MaxUses = 2
    MaxTime = 5
PROPERTY StoredOnce
CHECK_DEADLOCK FALSE
