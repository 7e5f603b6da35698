SPECIFICATION FairSpec
CONSTANTS
    r1 = r1
    r2 = r2
    late = late
    issued = issued
    none = none
    key = key
    Run = {r1, r2}
    Late = late
    GrantId = issued
    Null = none
    Upper <- MCUpper
    Methods = {"GET", "POST", "post", "trace"}
    StripList = {"connection", "host", "content-length", "cookie"}
    Hosts = {"h1", "h2"}
    MaxBody = 1
    MaxTtl = 1
    MaxUses = 2
    MaxKey = 1
    CommandLines <- MCCommandLines
    Existing <- MCExisting
    Injections <- MCInjections
    Attempts = 2
    MaxErrors = 2
    MaxWaits = 1
    MaxStreams = 1
    OutputBefore = "old"
INVARIANTS SlotsAccounted ExitHonest ApprovalServesCall ApprovedCallSent OutputKept
PROPERTIES EveryRunEnds
CHECK_DEADLOCK FALSE
