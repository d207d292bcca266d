\* Seven frames.  A store of three and updates of two: a page can fall behind
\* the cap and behind the store, on a first connection or on a third.  Two
\* frames before and two after the trigger: room for two sessions, one of them
\* kept, and for frames between them.
SPECIFICATION ConsumersSpec
CONSTANTS
    StoreLen = 3
    Cap = 2
    MaxWire = 2
    MaxPublished = 7
    MaxDrops = 2
    PreSize = 2
    PostSize = 2
    MaxCaptures = 1
    MaxFrames = 7
INVARIANTS
    LiveTypeOK
    TypeOK
    PostFollowsTrigger
    PreIsNewestArmed
    LoggedAtMostOnce
PROPERTY
    FeedSpec
