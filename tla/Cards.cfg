SPECIFICATION BothSpec
CONSTANTS
    None = None
    LastKey = 2
    Second = 1
    MaxAge = 2
    FutureSkew = 1
    MaxTime = 4
    Address = {a1, a2}
    EnvSeed = {seed1}
    EnvKey = {key1}
    a1 = a1
    a2 = a2
    seed1 = seed1
    key1 = key1
    MaxFresh = 5
    Absent = Absent
INVARIANTS
    RetiredKeyFades
    MailOpens
    NotShutOut
PROPERTIES
    ChangedKeyFailsClosed
