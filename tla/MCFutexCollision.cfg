SPECIFICATION SyncSpec
CONSTANTS
    Threads = {t1, t2, t3}
    NULL = NULL
    NONE = NONE
    Kinds <- FutexKind
    Types <- AllTypes
    MaxRec = 2
    InitialValue = 0
    MaxValue = 2
    total = 3
    MaxGen = 3
    Neighbours <- MCSameOffset
    SameOffset <- MCSameOffset
INVARIANT NoWakeupLost
