SPECIFICATION FairSpec
CONSTANTS
    NSides = 2
    Limit = 1
    MaxJobs = 1
    MaxStarts = 2
    MaxWorkers = 1
    MaxMishaps = 1
INVARIANTS TypeOK OneRunner RelaunchesBounded OwnWithinMax
PROPERTIES CooldownKept NeedIsServed
CHECK_DEADLOCK FALSE
