SPECIFICATION FairSpec
CONSTANT
    MaxClicks = 4
INVARIANTS
    TypeOK
    NoCallbackAfterStop
PROPERTIES
    HandshakeCompletes
    DoubleClickShows
\* A Show under way when Run returns leaves both threads waiting for each
\* other: StopAlwaysReturns is about that.
CHECK_DEADLOCK FALSE
