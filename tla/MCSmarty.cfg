SPECIFICATION Spec
CONSTANTS
    Trees <- MCDocs
INVARIANT
    SmartAsOneLine
