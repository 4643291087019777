\* Two attempts at one run at the same time.
SPECIFICATION Spec
CONSTANTS
    NumSteps = 2
    Cost <- NoCost
    Budget = 0
    External = {1}
    Keyed = {}
    Gated = {}
    Governed = FALSE
    MaxAttempts = 2
    Exclusive = FALSE
INVARIANTS DependenciesFirst CheckpointDelivered
CHECK_DEADLOCK FALSE
