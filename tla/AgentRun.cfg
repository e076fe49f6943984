SPECIFICATION MCSpec
CONSTANTS
    Callers = {c1, c2}
    Kinds = {"tool"}
    Buckets = {"all", "one"}
    Limits <- MCLimits
    Rpm <- MCRpm
    Minute = 2
    Strategies = {"wait", "reject"}
    WaitTimeout = 2
    Threads = {t1, t2}
    Tools = {"tool"}
    Schema <- MCSchema
    Inputs <- MCInputs
    MaxRetries = 2
    Jobs = {j1, j2}
    Faults = {"f1", "f2"}
    Rules <- MCRules
    DefaultModel = "default"
    Configurable = FALSE
    MaxModelCalls = 2
    Windows = {"sliding", "summary"}
    StateKinds = {"object", "dict"}
    Content <- MCContent
    MaxMessages = 5
    PreserveRecent = 3
    PreserveFirst = TRUE
    MaxTokens = 9
    Tokens = 2
    MaxToolCalls = 2
    MaxSaid = 13
    Deployments <- MCDeployments
    MaxAttempts = 3
    ChannelLists <- MCChannelLists
INVARIANTS
    AgentRunTypeOK
    RateBound EmptyOnlyIfSpent
    ErrorsBounded RepairDoesNoHarm
    LoneRunAudited LoneRunModel
    NothingLost CallFits
    RestartsAreConfirmed ActsOnce SuccessIsEarned NothingLeftOpen
PROPERTIES WaitsEnd
CHECK_DEADLOCK FALSE
