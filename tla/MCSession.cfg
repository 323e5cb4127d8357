SPECIFICATION FairSpec
CONSTANTS
    MaxSeq = 10
    MaxSinkFaults = 1
INVARIANTS
    TypeOK
    SinkOrdered
    CoverageFirst
    GapSound
    RestartDeclared
    CoverageChangedRef
    SessionEndSound
    MirrorHonest
    NoStrayProbe
PROPERTIES
    CollectorsEndStands
    FeedSpec
    StopEndsSession
    RestartResolves
