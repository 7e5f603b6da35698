CONSTANTS
    ClientName = c
    Name = {"s", "t"}
    Tag = {"old"}
    Host = {"h"}
    Method = {"GET", "get", "PUT", "TRACE"}
    Segment = {"a", "A", "b"}
    Upper <- MCUpper
    Lower <- MCLower
    Id = {1, 2}
    Forever = 9
    Null = Null
    Request = {r1}
    Written <- MCWritten
    Tiers = {2}
    Ttls = {1, 2}
    Uses = {Null, 1}
    Asks <- MCAsks
    Clients <- MCClients
    Tables <- MCTables
    Calls <- MCCalls
    MaxEdits = 1
    MaxTime = 1
SPECIFICATION Spec
INVARIANT AutoWithinScope
INVARIANT DenyRespected
INVARIANT LapsesWithRow
INVARIANT TieNeverWidens
CHECK_DEADLOCK FALSE
