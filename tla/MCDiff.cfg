SPECIFICATION Spec
CONSTANTS
    Elements = {v, w}
    MaxLen = 5
    Inputs <- MCInputs
INVARIANTS
    TypeOK
    SearchInRange
    FurthestReaching
    ScriptTransforms
    ScriptIsShortest
PROPERTY
    Returns
CHECK_DEADLOCK FALSE
