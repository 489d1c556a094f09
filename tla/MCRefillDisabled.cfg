SPECIFICATION Spec
CONSTANTS
    Projects = {p1}
    Threads = {t1}
    MaxItems = 1
    Target = 1
    Batch = 1
    OfferedFirst = {p1}
    DisabledFirst = {}
    MaxDisturbances = 1
    Events = {}
PROPERTY DisabledStaysOut
CHECK_DEADLOCK FALSE
