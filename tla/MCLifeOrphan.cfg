SPECIFICATION MonitorSpec
CONSTANTS
    MaxLaunches = 2
    MaxTasks = 1
    StalledLimit = 1
    MaxAttempts = 2
    AttemptsCap = 2
    MaxRetries = 0
    MaxCrashes = 0
    Events = {}
PROPERTY OrphanReleased
CHECK_DEADLOCK FALSE
