SPECIFICATION FairSpec
CONSTANT
    MaxClicks = 1
PROPERTY
    MenuOffered
CHECK_DEADLOCK FALSE
