\* The counter wraps three times; captures are 2 to 3 ticks apart, or more
\* when an edge comes late, but never a whole counter period.  A ring of two
\* slots goes round three times; one restart of the firmware under a cursor
\* beyond the depth, noticed before the next event.
SPECIFICATION FirmwareSpec
CONSTANTS
    IepPeriod = 5
    BlindCounts = 2
    MaxIdle = 4
    LastFall = 16
    Depth = 2
    IdxModulus = 8
    Blind = 1
    MaxLag = 2
    Restarts = "noticed"
    MaxEvents = 6
    MaxTime = 7
    MaxIdx = 8
INVARIANTS
    CaptureTypeOK
    PollTellsTheTruth
    CapturesSound
    TypeOK
    EveryEventOnce
    StampsSound
PROPERTIES
    SofOnlyAtEdge
    DrainEnds
\* The bounded clock of the capture loop stops after LastFall.
CHECK_DEADLOCK FALSE
