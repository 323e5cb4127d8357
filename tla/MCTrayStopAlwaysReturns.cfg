SPECIFICATION FairSpec
CONSTANT
    MaxClicks = 1
PROPERTY
    StopAlwaysReturns
CHECK_DEADLOCK FALSE
