SPECIFICATION Spec
CONSTANTS
    c1 = c1
    c2 = c2
    k1 = k1
    k2 = k2
    n1 = n1
    n2 = n2
    m1 = m1
    m2 = m2
    t1 = t1
    t2 = t2
    v1 = v1
    v2 = v2
    p1 = p1
    p2 = p2
    Client = {c1, c2}
    Cred = {k1, k2}
    Name = {n1, n2}
    Meta = {m1, m2}
    Tag = {t1, t2}
    Value = {v1, v2}
    Key = {p1, p2}
    Configs <- Deployed
    Alike <- OneTag
    MaxCopies = 2
    Null = null
INVARIANTS Converged CredentialsAsConfigured NeverCollides QuietRestart
PROPERTY OperatorRowsKept
