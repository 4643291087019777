SPECIFICATION FairSpec
CONSTANTS
    Procs = {p1, p2}
    MaxCalls = 2
    Nobody = Nobody
INVARIANTS
    TypeOK
    MutualExclusion
    ChainIntact
    HistoryReadable
    OutcomesHonest
    ProgramOrder
PROPERTIES
    Linearizable
    EveryCallSettles
CHECK_DEADLOCK FALSE
