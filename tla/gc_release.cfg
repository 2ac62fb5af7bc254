SPECIFICATION FairSpec
CONSTANTS
    Cells = {"p", "q", "l"}
    SelfLoops = FALSE
    Null = Null
    Slot = {1, 2, 3}
    Global = {3}
    Field = {1, 2}
    Object <- MCObject
    Layout <- MCLayout
    Refs <- MCRefs
    Length <- MCLength
    Traceable <- MCCyclic
    Cyclic <- MCCyclic
    CyclicMutable <- MCCyclicMutable
    Mutable <- MCMutable
    MayPoint <- MCMayPoint
    BUDGET_GC_TRACING = 1
    BUDGET_GC_RELEASING = 1
    THRESHOLD_RELEASING_BUCKET = 0
    THRESHOLD_MEM_CYCLIC_OBJ = 0
    RatioNum = 0
    RatioDen = 1
    LoadsWhileTracing = TRUE
    BorrowedStores = TRUE
PROPERTIES
    EventuallyReleased
