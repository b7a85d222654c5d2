SPECIFICATION XmitFairSpec
CONSTANTS
    f = f
    g = g
    h = h
    Callers = {c1, c2}
    Frames <- MCFrames
    Big <- MCBig
    Batches <- MCBatches
    num_tdesc = 3
INVARIANT
    XmitTypeOK
PROPERTIES
    RingSpec
    SendTellsTheTruth
    LockReturns
