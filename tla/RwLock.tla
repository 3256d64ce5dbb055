------------------------------- MODULE RwLock -------------------------------
(***************************************************************************)
(* A pthread_rwlock_t, kernel/pthread/pthread.c: writer-preferring, with a *)
(* queue of readers, a queue of writers and a count of waiting writers.    *)
(***************************************************************************)
EXTENDS WaitQueue

CONSTANT Threads

VARIABLES
    state,              \* rw->state: 0 free, > 0 reader count, -1 writer
    waiting_writers,
    rq, wq,             \* queues of blocked readers and writers
    blocked,            \* the threads in state BLOCKED
    pc                  \* "out", "rd"/"wr" (in the loop), "reader"/"writer" (holds)

vars == <<state, waiting_writers, rq, wq, blocked, pc>>

Holders(k) == {t \in Threads : pc[t] = k}

TypeOK ==
    /\ state \in -1..Cardinality(Threads)
    /\ waiting_writers \in 0..Cardinality(Threads)
    /\ rq \in Seq(Threads) /\ wq \in Seq(Threads)
    /\ blocked \in SUBSET Threads
    /\ pc \in [Threads -> {"out", "rd", "wr", "reader", "writer"}]

Init ==
    /\ state = 0 /\ waiting_writers = 0
    /\ rq = <<>> /\ wq = <<>> /\ blocked = {}
    /\ pc = [t \in Threads |-> "out"]

-----------------------------------------------------------------------------
ReadersMustWait == state < 0 \/ waiting_writers > 0

pthread_rwlock_rdlock(t) ==
    /\ t \notin blocked /\ pc[t] \in {"out", "rd"}
    /\ IF ReadersMustWait
       THEN /\ rq' = Append(Unlinked(rq, t), t)
            /\ blocked' = blocked \cup {t}
            /\ pc' = [pc EXCEPT ![t] = "rd"]
            /\ UNCHANGED <<state, waiting_writers, wq>>
       ELSE /\ state' = state + 1
            /\ rq' = Unlinked(rq, t)
            /\ pc' = [pc EXCEPT ![t] = "reader"]
            /\ UNCHANGED <<waiting_writers, wq, blocked>>

\* EBUSY changes nothing.
pthread_rwlock_tryrdlock(t) ==
    /\ pc[t] = "out" /\ ~ReadersMustWait
    /\ state' = state + 1
    /\ pc' = [pc EXCEPT ![t] = "reader"]
    /\ UNCHANGED <<waiting_writers, rq, wq, blocked>>

\* A woken writer leaves the count and joins it again if it must wait on.
pthread_rwlock_wrlock(t) ==
    /\ t \notin blocked /\ pc[t] \in {"out", "wr"}
    /\ LET waiting == IF pc[t] = "wr" THEN waiting_writers - 1 ELSE waiting_writers
       IN  IF state # 0
           THEN /\ waiting_writers' = waiting + 1
                /\ wq' = Append(Unlinked(wq, t), t)
                /\ blocked' = blocked \cup {t}
                /\ pc' = [pc EXCEPT ![t] = "wr"]
                /\ UNCHANGED <<state, rq>>
           ELSE /\ waiting_writers' = waiting
                /\ state' = -1
                /\ wq' = Unlinked(wq, t)
                /\ pc' = [pc EXCEPT ![t] = "writer"]
                /\ UNCHANGED <<rq, blocked>>

pthread_rwlock_trywrlock(t) ==
    /\ pc[t] = "out" /\ state = 0
    /\ state' = -1
    /\ pc' = [pc EXCEPT ![t] = "writer"]
    /\ UNCHANGED <<waiting_writers, rq, wq, blocked>>

\* Mutant: one reader is woken where all could go.
pthread_rwlock_unlock_one_reader(t) ==
    /\ pc[t] \in {"reader", "writer"}
    /\ state' = IF state < 0 THEN 0 ELSE state - 1
    /\ pc' = [pc EXCEPT ![t] = "out"]
    /\ IF state' # 0 THEN UNCHANGED <<rq, wq, blocked>>
       ELSE IF waiting_writers > 0
       THEN /\ wq' = AfterWakeOne(wq, blocked)
            /\ blocked' = blocked \ WakeOne(wq, blocked)
            /\ UNCHANGED rq
       ELSE /\ rq' = AfterWakeOne(rq, blocked)
            /\ blocked' = blocked \ WakeOne(rq, blocked)
            /\ UNCHANGED wq
    /\ UNCHANGED waiting_writers

\* Callers unlock what they hold.  The last one out wakes a writer if any is
\* counted, else all readers.
pthread_rwlock_unlock(t) ==
    /\ pc[t] \in {"reader", "writer"}
    /\ state' = IF state < 0 THEN 0 ELSE state - 1
    /\ pc' = [pc EXCEPT ![t] = "out"]
    /\ IF state' # 0 THEN UNCHANGED <<rq, wq, blocked>>
       ELSE IF waiting_writers > 0
       THEN /\ wq' = AfterWakeOne(wq, blocked)
            /\ blocked' = blocked \ WakeOne(wq, blocked)
            /\ UNCHANGED rq
       ELSE /\ rq' = <<>>
            /\ blocked' = blocked \ WakeAll(rq, blocked)
            /\ UNCHANGED wq
    /\ UNCHANGED waiting_writers

\* signal_send to a BLOCKED thread: both loops go round again.
Interrupt(t) ==
    /\ t \in blocked
    /\ blocked' = blocked \ {t}
    /\ UNCHANGED <<state, waiting_writers, rq, wq, pc>>

Next ==
    \E t \in Threads :
        \/ pthread_rwlock_rdlock(t) \/ pthread_rwlock_tryrdlock(t)
        \/ pthread_rwlock_wrlock(t) \/ pthread_rwlock_trywrlock(t)
        \/ pthread_rwlock_unlock(t) \/ Interrupt(t)

Spec == Init /\ [][Next]_vars

\* Woken threads go on with their calls; holders unlock.
Resume(t) == \/ pc[t] = "rd" /\ pthread_rwlock_rdlock(t)
             \/ pc[t] = "wr" /\ pthread_rwlock_wrlock(t)
Duty(t) == pthread_rwlock_unlock(t)

-----------------------------------------------------------------------------
\* One writer or any readers, and the state word says which.
Exclusion ==
    /\ state = -1 <=> Holders("writer") # {}
    /\ state = -1 => Cardinality(Holders("writer")) = 1 /\ Holders("reader") = {}
    /\ state >= 0 => Cardinality(Holders("reader")) = state

\* Every writer in the waiting loop is counted, and no one else: a count left
\* behind by a signal or a barging writer would shut readers out for ever.
WritersCounted == waiting_writers = Cardinality(Holders("wr"))

\* A sleeper has someone to wake it: a holder that will unlock, or a woken
\* writer on its way to take and release the lock (pthread_rwlock_unlock).
NobodyStranded ==
    \A t \in blocked :
        \/ Holders("reader") \cup Holders("writer") # {}
        \/ \E u \in Holders("wr") : u \notin blocked

\* Writers come before readers: while one waits, no reader gets in
\* (pthread_rwlock_rdlock: "avoid starvation").
WritersPreferred ==
    [][Holders("wr") # {} => Holders("reader")' \subseteq Holders("reader")]_vars

\* If writers stop coming, every waiting reader gets in.
ReadersGetIn ==
    <>[](\A u \in Threads : pc[u] \notin {"wr", "writer"})
        => \A t \in Threads : pc[t] = "rd" ~> pc[t] = "reader"
=============================================================================
