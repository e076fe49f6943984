SPECIFICATION MCSpec
CONSTANTS
    r1 = r1
    p1 = p1
    api = api
    None = None
    Runs = {r1}
    Purgers = {p1}
    Api = api
    Ids = {1, 2}
    MaxThreads = 1
    Ttl = 0
    MaxRuns = 2
    WithSubAgents = TRUE
PROPERTIES ShutdownCompletes ExpiredEntriesGo
CHECK_DEADLOCK FALSE
