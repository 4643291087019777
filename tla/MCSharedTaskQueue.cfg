SPECIFICATION Spec
CONSTANTS
    inner = inner
    outer = outer
    beside = beside
    Agents = {a1, a2}
    Tasks = {outer, inner, beside}
    Scope <- TheScope
    Assignees <- Anybody
    MaxLease = 1
    MaxTime = 1
    MaxAhead = 1
    Nobody = Nobody
SYMMETRY Symmetry
INVARIANTS TypeOK LedgerDisjoint NoSharedScope AnswersHonest
CHECK_DEADLOCK FALSE
