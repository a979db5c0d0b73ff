SPECIFICATION Spec
CHECK_DEADLOCK FALSE
CONSTANTS
    Notifiers = {}
    QueueCap = 1
    MaxReloads = 1
INVARIANTS
    ProxyInForce
