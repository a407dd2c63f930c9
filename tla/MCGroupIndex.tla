----------------------------- MODULE MCGroupIndex -----------------------------
EXTENDS GroupIndex

CONSTANTS n1, n2, c1, c2

MCValue == [Nonce -> Conversation \cup {Nothing}]
===============================================================================
