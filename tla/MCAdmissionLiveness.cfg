SPECIFICATION FairSpec
CONSTANTS
    NItems = 2
    SameProject = {}
    Mode = "containers"
    Capacity = 1
    HardLimit = 1
    RefillBelow = 2
    Batch = 2
    MinInterval = TRUE
    MaxMishaps = 1
    Events = {"stalls", "drops", "retries", "startFails", "stops", "dockerFails"}
PROPERTIES LaunchWithinCapacity WaitingEnds
CHECK_DEADLOCK FALSE
