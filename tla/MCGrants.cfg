SPECIFICATION FairSpec
CONSTANTS
    Grant = {g1}
    Key = {k1}
    Call = {c1, c2}
    ReleaseLimits = {1, 2}
    ProxyLimits = {1, unlimited}
    ReplayWindow = 1
    MaxTime = 3
    MaxVersions = 2
    MaxEpochs = 1
    MaxSends = 1
    Unlimited = unlimited
    Null = null
    Passthrough = passthrough
INVARIANTS TypeOK UseBudget OneAnswerPerKey ReplayEntitlement WriteAheadAudit
PROPERTIES ImplementsLedger NothingHeldForever
CHECK_DEADLOCK FALSE
