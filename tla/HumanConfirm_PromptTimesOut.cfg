SPECIFICATION MCSpec
CONSTANTS
    c1 = c1
    c2 = c2
    o1 = o1
    o2 = o2
    restart = restart
    store = store
    Calls = {c1, c2}
    OpIds = {o1, o2}
    Tools = {restart, store}
    DangerousTools = {restart}
    FirstCall = c1
    FirstId = o1
    Timeout = 2
    PollInterval = 1
    GetTime = 1
    MaxActs = 2
CHECK_DEADLOCK FALSE
INVARIANT PromptTimesOut
