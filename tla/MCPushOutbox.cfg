SPECIFICATION FairSpec
CONSTANTS
    Request = {r1, r2}
    Sweeper = sweeper
    Window = 1
    FyiWindow = 1
    MaxTime = 1
    MaxAttempts = 1
    MaxFaults = 2
    Null = null
INVARIANTS NoRepeatedPush SomeoneTold
PROPERTIES EventuallyPushed
CHECK_DEADLOCK FALSE
