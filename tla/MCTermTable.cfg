SPECIFICATION Spec
CONSTANTS
    Jobs <- TableJobs
    Width <- MCWidth
    Columns = 8
    Vmargin = 1
INVARIANTS
    AssertsHold
CHECK_DEADLOCK FALSE
