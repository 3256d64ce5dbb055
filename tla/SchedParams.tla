---------------------------- MODULE SchedParams ----------------------------
(* The threads, their priorities and who outranks whom. *)
EXTENDS Integers

CONSTANTS
    Threads,        \* threads other than idle
    Idle,           \* idle_thread
    LowestLevel,    \* PRIO_IDLE; 0 is the highest level
    priority        \* priority[t]: the level of thread t

Levels == 0..LowestLevel
AllThreads == Threads \cup {Idle}

ASSUME SchedParamsAssumption ==
    /\ Idle \notin Threads
    /\ LowestLevel \in Nat
    /\ priority \in [Threads -> Levels]

\* A smaller rank goes first; idle, which is on no run queue, ranks last.
rank == [t \in AllThreads |-> IF t = Idle THEN LowestLevel + 1 ELSE priority[t]]
=============================================================================
