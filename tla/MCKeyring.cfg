SPECIFICATION Spec
CONSTANTS
    Txn = {t1, t2, t3}
    Kek = {k1, k2}
    Client = {a}
    Name = {n}
    Request = {r}
    MayStore = {a}
    Kinds = {"deposit", "create", "rotate", "approve_store", "request",
             "delete", "verify"}
    Cap = 1
    Window = 1
    MaxTime = 1
    Null = null
SYMMETRY Symmetric
INVARIANTS RowsOpenable ReportStaysTrue NoCyclicWait DepositCap
CHECK_DEADLOCK FALSE
