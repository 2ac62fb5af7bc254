SPECIFICATION Spec
CONSTANTS
    NoVar = NoVar
    Nil = Nil
    Entry = 1
    FieldObject = "w"
    Var <- MCVar
    Block <- MCBlock
    Object <- MCObject
    Functions <- MCFunctions
    ParamObject <- MCParamObject
INVARIANTS
    LivenessExact
    LiveIsValidUnaliased
    RcExact
    SetKeepsValue
    OwnerIsLive
PROPERTIES
    AnalysisEnds
CHECK_DEADLOCK FALSE
