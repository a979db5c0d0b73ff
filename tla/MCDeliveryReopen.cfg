SPECIFICATION MCSpec
CONSTANTS
    NMessages = {"m1", "m2"}
    NProviders = {"p1", "p2"}
    Recipients <- MCRecipients
    MaxRetries <- MCMaxRetries
    NCap = 1
    Loggers = {"l1", "l2"}
    MaxLogged = 2
    MaxFiles = 2
INVARIANTS
    OpenedIsReturned
CHECK_DEADLOCK FALSE
