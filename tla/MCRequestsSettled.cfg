SPECIFICATION FairSpec
CONSTANTS
    Key = {k1, k2}
    Mac = {m1}
    Create = {c1, c2}
    Operator = {}
    Cap = 1
    Expiry = 1
    Ttl = 1
    Retention = 0
    Lifetimes = {}
    MaxTime = 1
    MaxId = 2
    Null = null
INVARIANTS PendingCapHolds
PROPERTIES SettledAndForgotten
CHECK_DEADLOCK FALSE
