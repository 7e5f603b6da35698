SPECIFICATION Spec
CONSTANTS
    Request = {r1, r2, r3}
    Sweeper = sweeper
    Window = 1
    FyiWindow = 1
    MaxTime = 1
    MaxAttempts = 1
    MaxFaults = 1
    Null = null
SYMMETRY Symmetric
PROPERTY OnlyRealPushesSuppress
CHECK_DEADLOCK FALSE
