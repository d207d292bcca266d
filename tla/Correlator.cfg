\* A third SOF or frame overflows a deque of two; frames and SOFs can be
\* early, in the window (one tick wide) and too late.
SPECIFICATION Spec
CONSTANTS
    MaxDelta = 1
    QueueLen = 2
    MaxTime = 4
    MaxFrames = 3
    MaxSofs = 3
INVARIANTS
    TypeOK
    NothingLeftToMatch
    FramesConserved
    PairsDoNotCross
PROPERTIES
    NoPairMissed
    OnlyYoungFramesWait
    ConduitSpec
