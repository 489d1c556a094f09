SPECIFICATION Spec
CONSTANTS
    MaxLaunches = 1
    MaxTasks = 1
    StalledLimit = 1
    MaxAttempts = 2
    AttemptsCap = 2
    MaxRetries = 0
    MaxCrashes = 0
    Events = {"dies"}
INVARIANT RefundIsCancelled
CHECK_DEADLOCK FALSE
