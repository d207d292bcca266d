\* One frame before and one after the trigger: two sessions between two passes
\* of the logger's task.
SPECIFICATION Spec
CONSTANTS
    PreSize = 1
    PostSize = 1
    MaxCaptures = 2
    MaxFrames = 4
INVARIANTS
    EverySessionLogged
