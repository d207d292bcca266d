\* The firmware may restart at any time: four events are read, and a fifth comes
\* after the restart.
SPECIFICATION Spec
CONSTANTS
    Depth = 2
    IdxModulus = 8
    Blind = 1
    MaxLag = 2
    Restarts = "any"
    MaxEvents = 5
    MaxTime = 6
    MaxIdx = 8
PROPERTIES
    RestartDetected
\* The clock is bounded, and an exception may end the reader.
CHECK_DEADLOCK FALSE
