SPECIFICATION IndexSpec
CONSTANTS
    Nonce = {n1, n2}
    Conversation = {c1, c2}
    Writer = {w1, w2}
    Value <- MCValue
    Inode = {i1, i2, i3}
    n1 = n1  n2 = n2  c1 = c1  c2 = c2
    Torn = Torn
    Nothing = Nothing
    Unknown = Unknown
INVARIANT FileIsWhole
