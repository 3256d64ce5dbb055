------------------------------ MODULE Barrier ------------------------------
(***************************************************************************)
(* A pthread_barrier_t, kernel/pthread/pthread.c, used again and again by  *)
(* a pool of threads that may be larger than its count.                    *)
(***************************************************************************)
EXTENDS WaitQueue

CONSTANTS
    Threads,
    total,          \* pthread_barrier_init's count
    MaxGen          \* bound on the generations

VARIABLES
    count, generation, wq,
    blocked,        \* the threads in state BLOCKED
    gen,            \* the caller's local, in its loop; NotIn outside
    arrived         \* per generation, the threads that have arrived in it

vars == <<count, generation, wq, blocked, gen, arrived>>

NotIn == -1

TypeOK ==
    /\ count \in 0..(total - 1)
    /\ generation \in 0..MaxGen
    /\ wq \in Seq(Threads)
    /\ blocked \in SUBSET Threads
    /\ gen \in [Threads -> NotIn..MaxGen]
    /\ arrived \in [0..MaxGen -> SUBSET Threads]

Init ==
    /\ count = 0 /\ generation = 0 /\ wq = <<>> /\ blocked = {}
    /\ gen = [t \in Threads |-> NotIn]
    /\ arrived = [g \in 0..MaxGen |-> {}]

\* The last arrival opens the barrier and returns at once.
Open ==
    /\ count + 1 = total
    /\ generation < MaxGen
    /\ count' = 0
    /\ generation' = generation + 1
    /\ wq' = <<>>
    /\ blocked' = blocked \ WakeAll(wq, blocked)
    /\ UNCHANGED gen

\* pthread_barrier_wait up to its first sleep.
Arrive(t) ==
    /\ gen[t] = NotIn
    /\ arrived' = [arrived EXCEPT ![generation] = @ \cup {t}]
    /\ \/ Open
       \/ /\ count + 1 # total
          /\ count' = count + 1
          /\ gen' = [gen EXCEPT ![t] = generation]
          /\ wq' = Append(wq, t)
          /\ blocked' = blocked \cup {t}
          /\ UNCHANGED generation

\* Back from sched_wait_event: sleep on while the generation is the same.
Again(t) ==
    /\ t \notin blocked /\ gen[t] # NotIn
    /\ IF gen[t] = generation
       THEN /\ wq' = Append(Unlinked(wq, t), t)
            /\ blocked' = blocked \cup {t}
            /\ UNCHANGED gen
       ELSE /\ wq' = Unlinked(wq, t)
            /\ gen' = [gen EXCEPT ![t] = NotIn]
            /\ UNCHANGED blocked
    /\ UNCHANGED <<count, generation, arrived>>

\* signal_send to a BLOCKED thread
Interrupt(t) ==
    /\ t \in blocked
    /\ blocked' = blocked \ {t}
    /\ UNCHANGED <<count, generation, wq, gen, arrived>>

\* The bound on the generations is reached and everyone waits.
AtBound == generation = MaxGen /\ UNCHANGED vars

Next == (\E t \in Threads : Arrive(t) \/ Again(t) \/ Interrupt(t)) \/ AtBound

Spec == Init /\ [][Next]_vars

\* Woken threads go on with their calls; threads keep coming to the barrier.
Resume(t) == Again(t)
Duty(t) == Arrive(t)

\* A thread that waits, where the bound does not stop it.
Inside(t) == gen[t] # NotIn /\ generation < MaxGen

-----------------------------------------------------------------------------
\* A generation ends with exactly total distinct threads in it, so nobody
\* passes the barrier early and nobody is counted twice, signals included.
FullGenerations ==
    /\ \A g \in 0..(generation - 1) : Cardinality(arrived[g]) = total
    /\ Cardinality(arrived[generation]) = count

\* A thread leaves pthread_barrier_wait only when its generation is over.
NobodyLeavesEarly ==
    [][\A t \in Threads : gen[t] # NotIn /\ gen'[t] = NotIn => gen[t] < generation]_vars

\* No thread sleeps in a generation that is over: wq_wake_all reached them all.
NobodyLeftBehind == \A t \in blocked : gen[t] = generation /\ t \in Nodes(wq)
=============================================================================
