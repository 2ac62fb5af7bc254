SPECIFICATION Spec
CONSTANTS
    NoVar = NoVar
    Nil = Nil
    Entry = 1
    FieldObject = "w"
    Var <- MCVar
    Block <- MCBlock
    Object <- MCObject
    Functions <- MCFunctions
    ParamObject <- MCParamObject
INVARIANT LiveIsValid
CHECK_DEADLOCK FALSE
