SPECIFICATION Spec
CONSTANTS
    Thread = {1, 2}
    Owner = 1
    REFCOUNT_SIZE_BITS = 3
    Flag = {"Cyclic_Candidate", "Waiting_Remove"}
    MaxRefs = 3
CONSTRAINT Intact
CHECK_DEADLOCK FALSE
INVARIANTS
    MetaExact
