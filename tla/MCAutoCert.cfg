SPECIFICATION CertFairSpec
CONSTANTS
    Renewers = {r1}
    RequestCooldown = 2
    RenewalCooldown = 3
    MaxIssued = 3
    MaxCertFails = 1
    MaxCrashes = 1
INVARIANTS
    PairMatches
PROPERTIES
    SentAfterCooldown
    DueIsRenewed
