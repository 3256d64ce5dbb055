SPECIFICATION Spec
CONSTANTS
    PCBs = {p1, p2, p3}
    Init_pcb = init
    PidMax = 5
    Spaces = {s1, s2, s3}
    NULL = NULL
    WaitersAvoidThreads = TRUE
SYMMETRY Perms
INVARIANTS TablesExact TreeExact  SleepersSafe
