SPECIFICATION GroupSpec
CONSTANTS
    alice = alice
    bob = bob
    carol = carol
    NoConversation = NoConversation
    NoChange = NoChange
    Agent = {alice, bob, carol}
    Founder = alice
    Networks = {"ordered", "reordering", "duplicating"}
    MaxEvents = 4
    MaxMembers = 3
    Second = 1
    MaxAge = 2
    FutureSkew = 1
SYMMETRY Others
INVARIANTS AtMostOneConvener NoSilentDivergence OrderedMembersAgree ConvenerCountsOnlyMembers
CHECK_DEADLOCK FALSE
