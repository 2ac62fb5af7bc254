SPECIFICATION Spec
CONSTANTS
    Object <- MCObject
    Section <- MCSection
    Stack <- MCStack
INVARIANTS
    TypeOK
    TableExact
    LookupExact
    RootsExact
PROPERTY CollectionEnds
CHECK_DEADLOCK FALSE
