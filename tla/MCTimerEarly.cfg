SPECIFICATION TimerSpec
CONSTANTS
    U32 = 8
    U64 = 4096
    period = 3
    FsecPerNsec = 2
    NsecPerUsec = 2
    Requests = {2, 4, 5}
    MaxStep = 3
    LastStart = 18
    MaxCount = 40
PROPERTY SleepsLongEnough
