SPECIFICATION FairSpec
CONSTANTS
    t1 = t1
    t2 = t2
    t3 = t3
    Threads = {t1, t2}
    Idle = idle
    LowestLevel = 0
    priority <- PrioSame
    Queues = {"q"}
    Quantum = 1
    Timeouts = {0, 1}
    MaxPreempt = 1
    Sleepers = {t2}
    Signalled = {t1}
PROPERTIES FairShare
