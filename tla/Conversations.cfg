SPECIFICATION BroadcastSpec
CONSTANTS
    alice = alice
    bob = bob
    carol = carol
    dave = dave
    None = None
    NoConversation = NoConversation
    NoChange = NoChange
    Self = bob
    Event <- MCEvent
    LocalRoster <- OwnRoster
    MaxMembers = 4
    Second = 1
    MaxAge = 1
    FutureSkew = 1
    MaxEdits = 1
    MaxTime = 2
INVARIANTS LogExplainsConversation LogIsAuthorized
PROPERTIES EveryoneIsReported
