\* Two tables of up to two rows, one database error, and a shutdown that may
\* come in the middle of a flush.
SPECIFICATION Spec
CONSTANTS
    NTables = 2
    MaxRows = 2
    MaxFailures = 1
    MayStop = TRUE
INVARIANTS
    TypeOK
    RowsAccountedFor
    RowsInOrderOnce
PROPERTIES
    RowsAreStored
\* A server that was shut down stops.
CHECK_DEADLOCK FALSE
