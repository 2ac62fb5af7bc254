SPECIFICATION Spec
CONSTANTS
    Cells = {"m", "n", "c"}
    SelfLoops = TRUE
    Null = Null
    Slot = {1, 2}
    Global = {}
    Field = {1}
    Object <- MCObject
    Layout <- MCLayout
    Refs <- MCRefs
    Length <- MCLength
    Traceable <- MCCyclic
    Cyclic <- MCCyclic
    CyclicMutable <- MCCyclicMutable
    Mutable <- MCMutable
    MayPoint <- MCMayPoint
    BUDGET_GC_TRACING = 1
    BUDGET_GC_RELEASING = 100
    THRESHOLD_RELEASING_BUCKET = 2
    THRESHOLD_MEM_CYCLIC_OBJ = 0
    RatioNum = 0
    RatioDen = 1
    LoadsWhileTracing = TRUE
    BorrowedStores = FALSE
CONSTRAINT DriftBounded
INVARIANTS
    NoEmptyPop
    TraceListsDrained
    TracingFlagExact
    WaitingIsTraced
    RegistryConsistent
    ScanComplete
    LostTwiceOnlySelf
PROPERTIES
    FreedUnderTracer
    AccountingDrift
CHECK_DEADLOCK FALSE
