SPECIFICATION Spec
CONSTANTS
    Jobs <- LinkJobs
    Width <- MCWidth
    Columns = 8
    Vmargin = 1
INVARIANTS
    TextInOrder
CHECK_DEADLOCK FALSE
