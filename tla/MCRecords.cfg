\* Two writers of shared records and of receipts, and one context request, one checkpoint.
SPECIFICATION RecordsSpec
CONSTANTS
    Agents = {a1, a2}
    Keys = {ordered, open}
    TurnTaking = {ordered}
    MaxPuts = 2
    Workers = {w1, w2}
    Senders = {s1, s2}
    OneSender = {w1}
    Workflows = {f1, f2}
    MaxCost = 1
    MaxInstant = 1
    Lease = 1
    MaxReceipts = 3
    Manifests <- SomeManifests
    Candidates <- SomeCandidates
    None = "none"
    MaxRequest = 2
    Links = {"link"}
    Verified = {"self", "library"}
    Contents <- SomeContents
    Edits = {"title", "fence", "binary"}
    MaxWrites = 2
    Files = {src, notes}
    Card = card
    Tracked = {src}
    Versions = {1, 2}
    Branches = {main, other}
    Schemas = {"current", "legacy", "unknown"}
    Projects = {"p"}
    NoProject = "none"
    MaxMoves = 3
INVARIANTS RecordsTypeOK LedgerFollowsRecords SummaryIsNewest PacketSound HandoffSound
PROPERTIES NoStaleOverwrite
CHECK_DEADLOCK FALSE
