SPECIFICATION BothSpec
CONSTANTS
    john = john
    mary = mary
    repo = repo
    n1 = n1
    n2 = n2
    n3 = n3
    r1 = r1
    r2 = r2
    NoResource = NoResource
    Self = john
    Peer = {mary}
    Handshake <- MCHandshake
    Revoke <- MCRevoke
    Second = 1
    MaxAge = 2
    FutureSkew = 1
    MaxTime = 4
    None = None
    Agent = {john, mary}
    Nonce = {n1, n2, n3}
    Proposer <- MCProposer
    RevokeNonce = {"x1"}
    Networks = {"ordered", "duplicating"}
    MaxCopies = 1
    MaxInFlight = 2
INVARIANTS
    AnswersAreDurable
    RevokeOnce
    OneRowPerConsent
    FriendshipIsMutual
    RevokerIsStranger
PROPERTIES
    AcceptedBecomesMutual
    AcceptWorksOnce
CHECK_DEADLOCK FALSE
