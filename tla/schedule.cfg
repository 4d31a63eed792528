SPECIFICATION Spec
CONSTANTS
    Jobs = {j1, j2}
    Old = {j1}
    Cap = 1
    Concurrent = 1
    Monthly = 2
    Crawls = {c1}
    Ticks = {1, 2}
    MaxAsks = 1
    MaxRequests = 2
    Perils = {"lost", "outage", "refuse", "ambiguous", "api_crash", "full"}
    MaxPerils = 2
    c1 = c1
    j1 = j1
    j2 = j2
INVARIANTS MetersHold EngineFollowsRow
PROPERTY TicksEnd
CHECK_DEADLOCK FALSE
