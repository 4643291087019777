\* One host arms wakes, two poll.
SPECIFICATION FairSpec
CONSTANTS
    w1 = w1
    w2 = w2
    Hosts = {h1, h2}
    Writers = {h1, h2}
    Armers = {h1}
    Wakes = {w1, w2}
    Deadline <- TheDeadline
    LocalOnly = {w1}
    Affordable = {w1}
    MaxTime = 2
    MaxFaults = 2
    Files = {"wake", "schedule"}
    Records <- TheRecords
    Absent = Absent
    Empty = Empty
    Torn = Torn
INVARIANTS TypeOK ArmedIsDurable ConsumedWhenDecided
PROPERTIES NoReplay ArmedIsDispatched
CHECK_DEADLOCK FALSE
