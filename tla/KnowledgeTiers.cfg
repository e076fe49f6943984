SPECIFICATION Spec
CONSTANTS
    d1 = d1
    d2 = d2
    order = order
    unknown = unknown
    none = none
    a1 = a1
    r1 = r1
    w1 = w1
    w2 = w2
    FirstService = order
    FirstDoc = d1
    Docs = {d1, d2}
    GoodDocs = {d1}
    Services = {order, unknown}
    Unknown = unknown
    NoService = none
    None = none
    Safe <- MCSafe
    ServiceOf <- MCServiceOf
    Alerts = {a1}
    Readers = {r1}
    Writers = {w1, w2}
    HitThreshold = 2
    HotMax = 1
    HotTop = 1
    TopK = 2
    Outages = TRUE
    MaxSearches = 3
SYMMETRY Symmetry
INVARIANTS TypeOK HotWasServed OwnDocsHot FastTiersJudged
CHECK_DEADLOCK FALSE
