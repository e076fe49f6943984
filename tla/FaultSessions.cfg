SPECIFICATION MCSpec
CONSTANTS
    r1 = r1
    r2 = r2
    p1 = p1
    p2 = p2
    api = api
    None = None
    Runs = {r1, r2}
    Purgers = {p1, p2}
    Api = api
    Ids = {1, 2, 3}
    MaxThreads = 1
    Ttl = 0
    MaxRuns = 3
    WithSubAgents = FALSE
SYMMETRY Symmetry
INVARIANTS TypeOK MainEntriesAccountedFor SessionsBounded ClosedIsClean
CHECK_DEADLOCK FALSE
