\* Two hosts arm wakes.
SPECIFICATION Spec
CONSTANTS
    w1 = w1
    w2 = w2
    Hosts = {h1, h2}
    Writers = {h1, h2}
    Armers = {h1, h2}
    Wakes = {w1, w2}
    Deadline <- TheDeadline
    LocalOnly = {w1, w2}
    Affordable = {w1, w2}
    MaxTime = 2
    MaxFaults = 0
    Files = {"wake", "schedule"}
    Records <- TheRecords
    Absent = Absent
    Empty = Empty
    Torn = Torn
INVARIANT ArmedIsDurable
CHECK_DEADLOCK FALSE
