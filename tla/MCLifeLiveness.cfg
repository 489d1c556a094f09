SPECIFICATION FairSpec
CONSTANTS
    MaxLaunches = 2
    MaxTasks = 1
    StalledLimit = 1
    MaxAttempts = 2
    AttemptsCap = 2
    MaxRetries = 0
    MaxCrashes = 1
    Events = {}
INVARIANT LaunchBudget
PROPERTIES
    SlotReturns
    CompletionIsSeen
CHECK_DEADLOCK FALSE
