SPECIFICATION Spec
CONSTANTS
    t1 = t1
    t2 = t2
    t3 = t3
    Threads = {t1, t2, t3}
    Idle = idle
    LowestLevel = 2
    priority <- PrioLowest
    Queues = {"q"}
    Quantum = 2
    Timeouts = {0, 1}
    MaxPreempt = 1
    Sleepers = {t2}
    Signalled = {t1}
INVARIANTS QueuesExact PreemptionOwed
PROPERTIES WakeResultStable ImplementsSchedAbs
