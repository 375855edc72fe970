CONSTANTS
    None = None
    a1 = a1
    a2 = a2
    d1 = d1
    d2 = d2
    Agents = {a1, a2}
    Dbs = {d1, d2}
    Requests <- RegistryRequests
    PipeSize = 1
    MaxSessions = 3
    MaxCalls = 3
    MaxFaults = 1
SPECIFICATION Spec
CHECK_DEADLOCK FALSE
SYMMETRY TwoAgents
INVARIANT OneServePerDb
INVARIANT NoOrphans
 
