SPECIFICATION RecvFairSpec
CONSTANTS
    p = p
    q = q
    bad = bad
    Callers = {c1, c2}
    Packets <- MCPackets
    Faulty <- MCFaulty
    num_rdesc = 4
    num = 2
INVARIANT
    RecvTypeOK
PROPERTIES
    RingSpec
    GivesWhatArrived
    LockReturns
