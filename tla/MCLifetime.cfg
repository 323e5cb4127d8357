SPECIFICATION Spec
CONSTANTS
    a1 = a1
    a2 = a2
    a3 = a3
    Launch = {a1, a2, a3}
    LoginOf <- MCLoginOf
    MaxCrashes = 1
    MaxDamage = 1
    MaxFeed = 2
    MaxAtOnce = 2
INVARIANTS
    TypeOK
    OneCollectorPerLogin
    ProbeIsEmbedded
    OrphanHasNoJob
PROPERTIES
    OrphansEnd
    FeedSurvivesSecondLaunch
    LaunchResolves
CHECK_DEADLOCK FALSE
