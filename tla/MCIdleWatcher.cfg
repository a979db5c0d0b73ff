SPECIFICATION Spec
CONSTANTS
    HttpReqs = {h1}
    StreamReqs = {s1}
    StopMethod = "stop"
    MaxOps = 1
    MaxDrops = 0
    MaxReloads = 1
    MaxStopFails = 0
    MaxLag = 1
INVARIANTS
    ReadyAgrees
    StatusAgrees
