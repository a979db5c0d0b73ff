SPECIFICATION FairSpec
CHECK_DEADLOCK FALSE
CONSTANTS
    Users = {u1}
    Watchers = {w1}
    Listers = {l1, l2}
    MaxClients = 2
    MaxFails = 1
INVARIANTS
    RefCountExact
    NewClientStaysOpen
PROPERTIES
    UnusedIsClosed
