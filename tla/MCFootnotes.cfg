SPECIFICATION Spec
CONSTANTS
    Texts <- MCFootnoteTexts
    Footnotes = {f1, f2, f3}
    MaxColumns = 0
    maxdepth = 0
PROPERTY
    FootnotesOrdered
