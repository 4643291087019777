\* An event that is acknowledged onto the line a failed write left.
SPECIFICATION Spec
CONSTANTS
    Procs = {p1, p2}
    MaxCalls = 2
    Nobody = Nobody
PROPERTY AcknowledgedReadable
CHECK_DEADLOCK FALSE
