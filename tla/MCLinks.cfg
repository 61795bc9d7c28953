SPECIFICATION Spec
CONSTANTS
    Texts <- MCLinkTexts
    Footnotes = {}
    MaxColumns = 0
    maxdepth = 0
INVARIANT
    NoAutolinkInLink
