\* A run whose adapters fail and is resumed.
SPECIFICATION Spec
CONSTANTS
    NumSteps = 2
    Cost <- UnitCost
    Budget = 2
    External = {}
    Keyed = {}
    Gated = {}
    Governed = FALSE
    MaxAttempts = 2
    Exclusive = TRUE
INVARIANT ConsumptionBounded
CHECK_DEADLOCK FALSE
