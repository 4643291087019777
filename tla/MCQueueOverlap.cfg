\* A completion whose result file cannot be written.
SPECIFICATION Spec
CONSTANTS
    inner = inner
    outer = outer
    beside = beside
    Agents = {a1, a2}
    Tasks = {outer, inner}
    Scope <- TheScope
    Assignees <- Anybody
    MaxLease = 2
    MaxTime = 2
    MaxAhead = 0
    Nobody = Nobody
INVARIANT OverlapRejected
CHECK_DEADLOCK FALSE
