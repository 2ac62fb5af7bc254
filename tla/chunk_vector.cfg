SPECIFICATION Spec
CONSTANTS
    Value = {1, 2}
    Garbage = 0
    CHUNK_SIZE = 2
    INITIAL_CAPACITY = 1
    MaxElements = 5
INVARIANTS
    CursorExact
PROPERTIES
    ImplementsVector
    OperationsExact
