SPECIFICATION MCSpec
CONSTANTS
    SClients = {"c1"}
    SPackets = {"k1", "k2", "k3"}
    AReqs = {"r1", "r2"}
    MaxSid = 2
    MaxRestarts = 1
    MaxVersion = 1
    MaxCrashes = 0
    AclIPs = {"pub", "priv"}
    AclKind <- MCKind
    Country <- MCCountry
    AclConfigs <- MCAclConfigs
    AclWorkers = {"tcp", "udp"}
    AclCap = 1
    MaxAsked = 2
CHECK_DEADLOCK FALSE
INVARIANTS
    ProviderAskedOnce
    VerdictHolds
PROPERTIES
    StreamEnds
