CONSTANTS
    Agents = {a1, a2}
    Server <- MCServer
    Names <- MCNames
    Real <- MCReal
    Widths <- MCWidths
    RealWidth <- MCRealWidth
    Exprs <- MCExprs
    Refs <- MCRefs
    Width <- MCWidth
    BusExprs <- MCBusExprs
    None = None
    Requests <- ChainRequests
    MaxDepth = 2
    MaxCache = 2
    MaxCalls = 5
    MaxCrashes = 1
    a1 = a1
    a2 = a2
    v1 = v1
    v2 = v2
    v3 = v3
    clk = clk
SPECIFICATION Spec
CHECK_DEADLOCK FALSE
SYMMETRY TwoAgents
INVARIANTS
    Acyclic
    AloneIsCurrent
    AnswersOwnExpression
PROPERTIES
    DeletesOnlyUnused
