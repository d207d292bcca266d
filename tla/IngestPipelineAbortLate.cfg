\* A tick is 5 ms: the window and the timeout are one tick, the blind period
\* two, the sleep four.
SPECIFICATION Spec
CONSTANTS
    MaxDelta = 1
    QueueLen = 4
    MaxTime = 10
    MaxFrames = 3
    MaxSofs = 3
    Blind = 2
    Poll = 4
    Timeout = 1
INVARIANTS
    IsolatedAbortShownSoon
\* The bounded clock stops.
CHECK_DEADLOCK FALSE
