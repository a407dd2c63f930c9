SPECIFICATION FlowsSpec
CONSTANTS
    Agent = {alice, bob}
    Me = alice
    Identity = {phone, mail}
    Owner <- MCOwner
    alice = alice
    bob = bob
    phone = phone
    mail = mail
    CodeTtl = 1
    AttTtl = 2
    MaxTime = 3
    MaxCalls = 3
    Verifier = {v1, v2}
    Candidates <- MCCandidates
    v1 = v1
    v2 = v2
    MaxQueries = 3
    MaxAsked = 2
    MaxFaults = 1
    Nobody = Nobody
INVARIANTS
    PendingIsTrue
    HeldIsEarned
    RecordedIsKept
    FoundWithConsent
    NoneMeansAllAsked
PROPERTIES
    QueryReturns
