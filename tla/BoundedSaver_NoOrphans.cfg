SPECIFICATION Spec
CONSTANTS
    w1 = w1
    w2 = w2
    t1 = t1
    other = other
    short = t1
    beginning = {}
    Workers = {w1, w2}
    Threads = {t1}
    FirstOfKey <- MCFirstOfKey
    MaxThreads = 2
    Ttl = 1
    MaxWrites = 3
    MaxClock = 2
INVARIANTS NoOrphans
CHECK_DEADLOCK FALSE
