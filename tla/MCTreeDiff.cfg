SPECIFICATION Spec
CONSTANTS
    Inputs <- MCInputs
INVARIANTS
    MatchesMutual
    MatchesAlike
    AssertsHold
    BothReadable
    EqualUnmarked
    DefsFollowRefs
PROPERTY
    Returns
CHECK_DEADLOCK FALSE
