SPECIFICATION Spec
CONSTANTS
    NItems = 4
    SameProject = {1, 2}
    Mode = "tasks"
    Capacity = 2
    HardLimit = 3
    RefillBelow = 2
    Batch = 1
    MinInterval = FALSE
    MaxMishaps = 0
    Events = {}
INVARIANT TypeOK
PROPERTY ProjectsWithinCapacity
CHECK_DEADLOCK FALSE
