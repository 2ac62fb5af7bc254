SPECIFICATION Spec
CONSTANTS
    Cells = {"m", "n", "l"}
    SelfLoops = FALSE
    Null = Null
    Slot = {1, 2}
    Global = {}
    Field = {1, 2}
    Object <- MCObject
    Layout <- MCLayout
    Refs <- MCRefs
    Length <- MCLength
    Traceable <- MCCyclic
    Cyclic <- MCCyclic
    CyclicMutable <- MCCyclicMutable
    Mutable <- MCMutable
    MayPoint <- MCMayPoint
    BUDGET_GC_TRACING = 100
    BUDGET_GC_RELEASING = 100
    THRESHOLD_RELEASING_BUCKET = 0
    THRESHOLD_MEM_CYCLIC_OBJ = 0
    RatioNum = 0
    RatioDen = 1
    LoadsWhileTracing = TRUE
    BorrowedStores = TRUE
INVARIANTS
    TypeOK
    NoDangling
    RcExact
    IdleAllMarked
    LostIsUnreachable
PROPERTIES
    ImplementsHeap
    NoGarbageAfterTrace
