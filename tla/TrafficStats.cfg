\* Two nodes, so that a frame of one purges a request of the other; gaps of up
\* to twice the window; deques of one element, so that a second measurement
\* evicts the first.  Four frames are two requests and two answers.
\* Frames and endpoint calls are bounded, so the model stops.
SPECIFICATION Spec
CONSTANTS
    Nodes = {1, 2}
    Window = 1
    PendingLimit = 1
    MeasLen = 1
    MaxGap = 2
    MaxFrames = 4
    MaxEdits = 1
CHECK_DEADLOCK FALSE
INVARIANTS
    TypeOK
    LoadIsWindowSum
    LatenciesBelong
    IntervalsSinceReset
