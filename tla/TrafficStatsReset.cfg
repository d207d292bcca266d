\* The bounds of TrafficStats.cfg.
SPECIFICATION Spec
CONSTANTS
    Nodes = {1, 2}
    Window = 1
    PendingLimit = 1
    MeasLen = 1
    MaxGap = 2
    MaxFrames = 4
    MaxEdits = 1
CHECK_DEADLOCK FALSE
PROPERTIES
    ResetClearsLatency
