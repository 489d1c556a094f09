SPECIFICATION FairSpec
CONSTANTS
    Projects = {p1, p2}
    Threads = {t1, t2}
    MaxItems = 2
    Target = 2
    Batch = 1
    OfferedFirst = {p1, p2}
    DisabledFirst = {p1}
    MaxDisturbances = 2
    Events = {"retries", "orphans", "revives", "partial"}
INVARIANTS TypeOK BlocklistAgrees
PROPERTIES OnlyOwnProject NoWorkDiscarded AddsNeverDouble WantedIsQueued
CHECK_DEADLOCK FALSE
