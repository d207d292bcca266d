\* Two frames before and two after the trigger; room for two sessions, one of
\* them kept, and for frames between them.
SPECIFICATION Spec
CONSTANTS
    PreSize = 2
    PostSize = 2
    MaxCaptures = 1
    MaxFrames = 6
INVARIANTS
    PreIsRolling
