CONSTANTS
    None = None
    c1 = c1
    c2 = c2
    w1 = w1
    w2 = w2
    dflt = dflt
    sess = sess
    sig = sig
    CursorRef = CursorRef
    Clients = {c1, c2}
    Waves = {w1}
    Names = {dflt}
    DefaultName = dflt
    Slot <- MCSlot
    Keys = {sig}
    Times <- MCTimes
    Requests <- FirstRequests
    MaxCalls = 3
    MaxCrashes = 0
SPECIFICATION Spec
CHECK_DEADLOCK FALSE
PROPERTY NoLostUpdates
