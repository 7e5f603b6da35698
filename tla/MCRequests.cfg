SPECIFICATION Spec
CONSTANTS
    Key = {k1}
    Mac = {m1, m2}
    Create = {c1, c2}
    Operator = {o1}
    Cap = 1
    Expiry = 1
    Ttl = 2
    Retention = 0
    Lifetimes = {1}
    MaxTime = 2
    MaxId = 2
    Null = null
SYMMETRY Symmetric
INVARIANTS OneRequestPerKey GrantCapped
PROPERTIES DecidedOnce
CHECK_DEADLOCK FALSE
