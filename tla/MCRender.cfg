SPECIFICATION Spec
CONSTANTS
    Jobs <- MCJobs
    Width <- MCWidth
    Columns = 8
    Vmargin = 1
INVARIANTS
    AssertsHold
    StylesClosed
    BulletsOnce
    LinksResolve
    BlocksApart
    TextInOrder
    WellNested
    IdsDiffer
    FontsFollowSpans
    RequestsBeginLines
    StylesFit
CHECK_DEADLOCK FALSE
