CONSTANTS
    None = None
    c1 = c1
    c2 = c2
    w1 = w1
    w2 = w2
    dflt = dflt
    sess = sess
    sig = sig
    CursorRef = CursorRef
    Clients = {c1, c2}
    Waves = {w1, w2}
    Names = {dflt, sess}
    DefaultName = dflt
    Slot <- MCSlot
    Keys = {sig}
    Times <- MCTimes
    Requests <- ContextRequests
    MaxCalls = 3
    MaxCrashes = 1
SPECIFICATION FairSpec
CHECK_DEADLOCK FALSE
PROPERTY ExplicitCallsIndependent
PROPERTY CallsReturn
