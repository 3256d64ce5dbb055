----------------------------- MODULE Semaphore -----------------------------
(***************************************************************************)
(* A counting semaphore, kernel/pthread/sem.c.  The value is capped by     *)
(* MaxValue.                                                               *)
(***************************************************************************)
EXTENDS WaitQueue

CONSTANTS
    Threads,
    InitialValue,   \* sem_init's value
    MaxValue        \* bound on the value

VARIABLES
    value,          \* s->value
    wq,             \* s->wq
    blocked,        \* the threads in state BLOCKED
    waiting,        \* the threads inside the loop of sem_wait or sem_timedwait
    deadline,       \* of these, the ones in sem_timedwait
    expired,        \* of these, the ones whose deadline has passed
    early           \* the ones sched_wait_event returns nonzero to

vars == <<value, wq, blocked, waiting, deadline, expired, early>>

TypeOK ==
    /\ value \in 0..MaxValue
    /\ wq \in Seq(Threads)
    /\ waiting \in SUBSET Threads
    /\ blocked \in SUBSET waiting /\ deadline \in SUBSET waiting
    /\ expired \in SUBSET deadline /\ early \in SUBSET waiting

Init ==
    /\ value = InitialValue /\ wq = <<>>
    /\ blocked = {} /\ waiting = {} /\ deadline = {} /\ expired = {} /\ early = {}

-----------------------------------------------------------------------------
\* t leaves its call, its node unlinked.
Leave(t) ==
    /\ wq' = Unlinked(wq, t)
    /\ waiting' = waiting \ {t} /\ deadline' = deadline \ {t}
    /\ expired' = expired \ {t} /\ early' = early \ {t}
    /\ UNCHANGED blocked

\* The value is taken: the end of sem_wait, sem_trywait and sem_timedwait.
Take(t) ==
    /\ t \notin blocked
    /\ value > 0
    /\ value' = value - 1
    /\ Leave(t)

\* sched_wait_event on s->wq; d: with a timeout.
Sleep(t, d) ==
    /\ wq' = Append(Unlinked(wq, t), t)
    /\ blocked' = blocked \cup {t}
    /\ waiting' = waiting \cup {t}
    /\ deadline' = IF d THEN deadline \cup {t} ELSE deadline
    /\ early' = early \ {t}
    /\ UNCHANGED <<value, expired>>

sem_wait(t) ==
    /\ t \notin blocked /\ t \notin deadline
    /\ value = 0
    /\ Sleep(t, FALSE)

\* Past the deadline, or back from a wait that was not ended by sem_post, it
\* gives up; else it sleeps (again).
sem_timedwait(t) ==
    /\ t \notin blocked
    /\ t \in deadline \/ t \notin waiting
    /\ value = 0
    /\ IF t \in expired \/ t \in early
       THEN Leave(t) /\ UNCHANGED value
       ELSE Sleep(t, TRUE)

sem_post ==
    /\ value < MaxValue
    /\ value' = value + 1
    /\ wq' = AfterWakeOne(wq, blocked)
    /\ blocked' = blocked \ WakeOne(wq, blocked)
    /\ early' = early \ WakeOne(wq, blocked)
    /\ UNCHANGED <<waiting, deadline, expired>>

-----------------------------------------------------------------------------
\* The deadline of t passes: the timer wakes it if it sleeps.
Timeout(t) ==
    /\ t \in deadline \ expired
    /\ expired' = expired \cup {t}
    /\ blocked' = blocked \ {t}
    /\ early' = IF t \in blocked THEN early \cup {t} ELSE early
    /\ UNCHANGED <<value, wq, waiting, deadline>>

\* signal_send to a BLOCKED thread
Interrupt(t) ==
    /\ t \in blocked
    /\ blocked' = blocked \ {t}
    /\ early' = early \cup {t}
    /\ UNCHANGED <<value, wq, waiting, deadline, expired>>

Next ==
    \/ \E t \in Threads : \/ Take(t) \/ sem_wait(t) \/ sem_timedwait(t)
                          \/ Timeout(t) \/ Interrupt(t)
    \/ sem_post

Spec == Init /\ [][Next]_vars

\* A woken thread goes on with its call; the timer ticks.
Resume(t) == t \in waiting /\ (Take(t) \/ sem_wait(t) \/ sem_timedwait(t))
Duty(t) == Timeout(t)

-----------------------------------------------------------------------------
\* The threads that will look at the value again without another wake-up.
Retriers == waiting \ blocked

\* While anyone sleeps, every unit of the value has a woken thread coming for
\* it: however posts, barging takers, timeouts and signals interleave, no post
\* leaves its unit unclaimed beside a sleeper (sem_post, sem_timedwait).
NoUnclaimedUnit == blocked # {} => value <= Cardinality(Retriers)

\* A BLOCKED thread is on the queue and no thread is on it twice.
QueueExact ==
    /\ blocked \subseteq Nodes(wq) /\ Nodes(wq) \subseteq waiting
    /\ \A i, j \in DOMAIN wq : wq[i] = wq[j] => i = j
=============================================================================
