\* Plans of up to three steps, a host with two steps and two calls of a provider.
SPECIFICATION ControlSpec
CONSTANTS
    Profiles <- TwoProfiles
    AutoId = 0
    Claims <- SomeClaims
    Contracts = {"note"}
    Plans <- SomePlans
    Floors <- SomeFloors
    NoFloor = NoFloor
    MaxOutcomes = 2
    Roles = {"contract", "domain"}
    Reviews <- SomeReviews
    Workflows = {w1, w2}
    GateFloors <- SomeGateFloors
    Classes = {"B", "C"}
    MaxReviews = 3
    MaxEdits = 1
    Work = {keyed, unkeyed}
    Gates = {unkeyed}
    Effects = {keyed, unkeyed}
    WithKey = {keyed}
    TryLimit = 2
    MaxStops = 2
    Callers = {c1, c2}
    Errands <- SomeErrands
    Prompt <- Prompts
    MaxOutput = 1
    ReserveTokens = 0
    CharsPerToken = 4
    MarginTenths = 2
    Headroom = 1
    MaxAge = 1
    Ttl = 2
    WindowTokens = 8
    WindowLength = 2
    Ceiling = 1
    MaxClock = 3
INVARIANTS ControlTypeOK CompiledSound ContinuationSound EffectsAccounted CallWithinGrant
PROPERTIES StepsEndOrWait
CHECK_DEADLOCK FALSE
