CONSTANTS
    None = None
    a1 = a1
    a2 = a2
    d1 = d1
    d2 = d2
    Agents = {a1, a2}
    Dbs = {d1}
    Requests <- ProtocolRequests
    PipeSize = 1
    MaxSessions = 3
    MaxCalls = 3
    MaxFaults = 1
SPECIFICATION FairSpec
CHECK_DEADLOCK FALSE
INVARIANT Aligned
INVARIANT OwnResponse
PROPERTY CallsReturn
