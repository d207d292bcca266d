\* No errors, no shutdown: only logging and flushing.
SPECIFICATION Spec
CONSTANTS
    NTables = 1
    MaxRows = 2
    MaxFailures = 0
    MayStop = FALSE
INVARIANTS
    NoRowLost
