\* Two attempts at a governed run, whose external step may be repeated.
SPECIFICATION FairSpec
CONSTANTS
    NumSteps = 2
    Cost <- UnitCost
    Budget = 1
    External = {1}
    Keyed = {1}
    Gated = {1}
    Governed = TRUE
    MaxAttempts = 2
    Exclusive = TRUE
PROPERTY EveryAttemptEnds
CHECK_DEADLOCK FALSE
