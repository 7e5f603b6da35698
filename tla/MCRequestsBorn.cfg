SPECIFICATION Spec
CONSTANTS
    Key = {k1}
    Mac = {m1}
    Create = {c1}
    Operator = {o1}
    Cap = 1
    Expiry = 3
    Ttl = 2
    Retention = 0
    Lifetimes = {1}
    MaxTime = 4
    MaxId = 1
    Null = null
PROPERTIES NotBornExpired
CHECK_DEADLOCK FALSE
