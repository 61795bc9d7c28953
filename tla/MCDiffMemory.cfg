SPECIFICATION Spec
CONSTANTS
    Elements = {v, w}
    MaxLen = 2
    Inputs <- MCInputs
INVARIANT
    FailureReported
CHECK_DEADLOCK FALSE
