SPECIFICATION Spec
CONSTANTS
    Inputs <- MCInputs
    Defs <- MCDefs
    Documents <- MCDocuments
INVARIANTS
    AssertsHold
    TextOnce
    LettersOnce
PROPERTY
    GetsFurther
