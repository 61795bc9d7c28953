SPECIFICATION Spec
CONSTANTS
    Inputs <- MCFootnoteInputs
INVARIANT
    DefsInOrderOfRefs
CHECK_DEADLOCK FALSE
