\* Attempts at one run, one after the other.
SPECIFICATION Spec
CONSTANTS
    NumSteps = 2
    Cost <- UnitCost
    Budget = 1
    External = {1}
    Keyed = {}
    Gated = {1}
    Governed = FALSE
    MaxAttempts = 3
    Exclusive = TRUE
INVARIANTS TypeOK ApprovalPerAttempt UnkeyedInvokedOnce MemoryMatchesLog CheckpointLead CheckpointAtomic SummaryAgrees
PROPERTY OneRun
CHECK_DEADLOCK FALSE
