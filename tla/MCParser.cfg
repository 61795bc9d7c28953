SPECIFICATION Spec
CONSTANTS
    Texts <- MCTexts
    Footnotes = {}
    MaxColumns = 2
    maxdepth = 5
INVARIANTS
    TypeOK
    OpenPath
    DepthLimited
    ChildLists
    BlocksAboveSpans
    TablesRectangular
    DefinitionsMerged
    BlockFlagSticks
    LinkFlagScoped
PROPERTY
    OnlyTitlesMove
