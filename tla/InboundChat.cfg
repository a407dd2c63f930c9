SPECIFICATION ChatSpec
CONSTANTS
    alice = alice
    bob = bob
    carol = carol
    sigA = sigA
    sigB = sigB
    sigC = sigC
    repo = repo
    NoResource = NoResource
    Self = carol
    Envelope <- MCEnvelope
    Delivery <- MCDelivery
    Row <- MCRow
    AllowedTypes <- MCAllowedTypes
    AllowPlaintext = FALSE
    Second = 2
    MaxAge = 3
    FutureSkew = 2
    Ttl = 7
    Backed = TRUE
    MaxTime = 11
INVARIANTS PassedIsRemembered OnlyInterruptionsBurn OneVerdict
PROPERTIES ImplementsOnceOnly
