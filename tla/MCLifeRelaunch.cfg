SPECIFICATION Spec
CONSTANTS
    MaxLaunches = 2
    MaxTasks = 2
    StalledLimit = 1
    MaxAttempts = 2
    AttemptsCap = 2
    MaxRetries = 1
    MaxCrashes = 1
    Events = {"failure"}
INVARIANTS
    TypeOK
    SlotInv
    RunningRecordIsOwned
    WorkersAreWatched
    DoneIsOwn
    TasksPaid
PROPERTIES KeepsContract
CHECK_DEADLOCK FALSE
