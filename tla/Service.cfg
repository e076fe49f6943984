SPECIFICATION MCSpec
CONSTANTS
    ServiceFiles <- MCServiceFiles
    Answers <- MCAnswers
    Requests = {r1, r2}
    FaultIds = {f1, f2}
    Operations = {o1, o2}
    ResultTtl = 2
    ResultMax = 1
    ConfirmTtl = 1
    ConfirmMax = 1
    Lessons = {"lesson"}
    Manuals = {"manual"}
    Categories <- MCCategories
    CategoryOf <- MCCategoryOf
    Score <- MCScore
    Threshold = 7
    TopK = 5
INVARIANTS
    ServiceTypeOK
    StoresBounded ResultAccounted
    KnowledgeSurvives
PROPERTIES DroppedWereOld ExitsIfHeld
CHECK_DEADLOCK FALSE
