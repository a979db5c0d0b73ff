SPECIFICATION FairSpec
CHECK_DEADLOCK FALSE
CONSTANTS
    Hosted <- MCHosted
    Configs <- MCConfigs
    Invalid = {3}
    Limits <- MCLimits
INVARIANTS
    
    RunningIsServed
PROPERTIES
    RoutesConverge
    RoutesFollow
