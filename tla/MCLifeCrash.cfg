SPECIFICATION Spec
CONSTANTS
    MaxLaunches = 1
    MaxTasks = 2
    StalledLimit = 1
    MaxAttempts = 2
    AttemptsCap = 2
    MaxRetries = 0
    MaxCrashes = 1
    Events = {"aborted", "reviewable", "failure", "containers", "dies", "helperTimesOut", "skillSelects", "createFails", "answerLost", "cancelFails", "startFails", "slowContainers", "operator"}
INVARIANTS
    HeldIffActive
    MarkersHaveHolder
    
PROPERTIES SyncHoldsTracked TasksKept KeepsContract RefillAllows
CHECK_DEADLOCK FALSE
