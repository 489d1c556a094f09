SPECIFICATION FairSpec
CONSTANTS
    Cards = {c1}
    Texts = {a}
    Absent = Absent
    QueueRoom = 1
    LogRoom = 1
    RingRoom = 2
    Backlog = 2
    WireRoom = 1
    MaxChanges = 2
    MaxEntries = 2
    MaxFetches = 1
    MaxMishaps = 2
INVARIANTS TypeOK CardsInStep LogComplete
PROPERTY PageConverges
CHECK_DEADLOCK FALSE
