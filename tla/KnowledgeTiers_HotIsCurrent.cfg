SPECIFICATION NewestSpec
CONSTANTS
    d1 = d1
    d2 = d2
    order = order
    unknown = unknown
    none = none
    a1 = a1
    r1 = r1
    w1 = w1
    w2 = w2
    FirstService = order
    Docs = {d1, d2}
    GoodDocs = {d1, d2}
    Services = {order, unknown}
    Unknown = unknown
    NoService = none
    None = none
    Safe <- MCSafe
    ServiceOf <- MCServiceOf
    Alerts = {a1}
    Readers = {r1}
    Writers = {w1, w2}
    HitThreshold = 2
    HotMax = 2
    HotTop = 2
    TopK = 2
    Outages = FALSE
    MaxSearches = 2
INVARIANTS HotIsCurrent
CHECK_DEADLOCK FALSE
