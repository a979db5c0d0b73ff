SPECIFICATION FairSpec
CHECK_DEADLOCK FALSE
CONSTANTS
    Notifiers = {n1, n2}
    QueueCap = 1
    MaxReloads = 2
INVARIANTS
    OneProxy
    NoOrphans
PROPERTIES
    ReloadEnds
    NotifyReturns
