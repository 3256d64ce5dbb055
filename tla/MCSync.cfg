SPECIFICATION FairSpec
CONSTANTS
    Threads = {t1, t2, t3}
    NULL = NULL
    NONE = NONE
    Kinds <- AllKinds
    Types <- AllTypes
    MaxRec = 2
    InitialValue = 0
    MaxValue = 2
    total = 3
    MaxGen = 3
    Neighbours <- MCNeighbours
    SameOffset <- MCSameOffset
INVARIANTS OnItsQueue MutualExclusion NoLostWakeup ObjectSound
PROPERTIES StepsKept WaitEnds
