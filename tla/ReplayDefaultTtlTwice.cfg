SPECIFICATION Spec
CONSTANTS
    alice = alice
    sigA = sigA
    sigB = sigB
    Envelope <- MCEnvelope
    Second = 2
    MaxAge = 4
    FutureSkew = 2
    Ttl = 4
    Backed = TRUE
    MaxTime = 12
INVARIANT AtMostOnce
