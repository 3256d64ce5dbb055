SPECIFICATION IoSpec
CONSTANTS
    Kinds <- AllKinds
    Signals = {2, 9, 17}  Uncatchable = {9}  Fatal = {2, 9}
    Trio = {p1, p2, p3}  Pair = {q1, q2}
    NULL = NULL  Fds = {f1, f2}
    PIPE_CAP = 2  Chunk = 2  Mod = 4
SYMMETRY Perms
INVARIANTS HandlersNotReentered MasksExact EndsExact Fifo SleepersHaveReason
CHECK_DEADLOCK FALSE
