SPECIFICATION Spec
CONSTANTS
    w1 = w1
    w2 = w2
    t1 = t1
    t2 = t2
    t3 = t3
    other = other
    short = t1
    beginning = {t2}
    Workers = {w1, w2}
    Threads = {t1, t2, t3}
    FirstOfKey <- MCFirstOfKey
    MaxThreads = 2
    Ttl = 1
    MaxWrites = 4
    MaxClock = 2
SYMMETRY Symmetry
INVARIANTS LruSound Agreement
PROPERTIES SweepsOnlyExpired ImplementsAtomicSaver
CHECK_DEADLOCK FALSE
