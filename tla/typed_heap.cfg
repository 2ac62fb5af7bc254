SPECIFICATION Spec
CONSTANTS
    Declarations <- MCDeclarations
    ArrayLength = {0, 2}
    MaxObjects = 4
    MaxCaptures = 1
CHECK_DEADLOCK FALSE
INVARIANTS
    LayoutExact
    
    CycleClosersAreCandidates
    ComponentsExact
