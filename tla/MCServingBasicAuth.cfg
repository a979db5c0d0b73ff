SPECIFICATION MCSpec
CONSTANTS
    LBRoutes = {"r1", "r2", "r3"}
    LBRequests = {"q"}
    MaxHealth = 1
    HostOf <- MCHostOf
    RuleLists <- MCRuleLists
    RuleReqs <- MCRuleReqs
    MConfigs <- MCMConfigs
    MRequests = {"q1", "q2"}
    MInputs <- MCMInputs
    Trusted = {"proxy"}
    Allowed = {"client"}
    Burst = 1
    Filters = {"a", "b"}
    Duration <- MCDuration
    MaxEntries = 3
    SaveTicks = 2
    MaxNow = 7
    MaxStarts = 3
    MaxVersion = 3
    MaxCrashes = 1
    HRetries <- MCHRetries
    MaxConsec = 6
    RouteInputs <- MCRouteInputs
    FileRoutes <- MCFileRoutes
    WeightInputs <- MCWeightInputs
    ComposeInputs <- MCComposeInputs
    LookupInputs <- MCLookupInputs
    Normal <- MCNormal
    OldNames = {"app-old"}
    BuildxNames = {"buildx_1"}
    ImagePort <- MCImagePort
    AliasPort <- MCAliasPort
    BlacklistNames = {"postgres"}
    BlacklistAuthors = {}
    OwnPorts = {80, 443}
INVARIANTS
    BasicAuthAnswers
CHECK_DEADLOCK FALSE
