SPECIFICATION FairSpec
CONSTANTS
    HttpReqs = {}
    StreamReqs = {s1}
    StopMethod = "pause"
    MaxOps = 1
    MaxDrops = 1
    MaxReloads = 0
    MaxStopFails = 1
    MaxLag = 0
PROPERTIES
    StartingResolves
    IdleIsStopped
    ExitReleasesWaiters
