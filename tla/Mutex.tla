------------------------------- MODULE Mutex -------------------------------
(***************************************************************************)
(* One pthread_mutex_t and one pthread_cond_t of kernel/pthread/pthread.c. *)
(*                                                                         *)
(* An action is one section of code that runs with interrupts off.  A call *)
(* that blocks leaves the CPU inside sched_wait_event; when the thread     *)
(* runs again it unlinks its node and goes round its loop, which the model *)
(* does in one step: nobody but the thread itself looks at that node once  *)
(* it is stale, so nothing can tell the two apart.                         *)
(***************************************************************************)
EXTENDS WaitQueue

CONSTANTS
    Threads,
    NULL,
    Types,          \* the mutex types considered
    MaxRec          \* bound on the nesting of a recursive mutex

ASSUME MutexAssumption ==
    /\ IsFiniteSet(Threads)
    /\ NULL \notin Threads
    /\ Types \subseteq {"NORMAL", "RECURSIVE", "ERRORCHECK"}
    /\ MaxRec \in Nat \ {0}

VARIABLES
    type,           \* m->type
    locked, owner, recursion,
    mwq,            \* m->wq
    cwq,            \* c->wq
    blocked,        \* the threads in state BLOCKED
    pc,             \* "out", "lock" (in its loop), "cond", "relock" (after cond)
    saved_rec,      \* cond_wait_common's local
    timed,          \* what sched_wait_event will return on c->wq (0, 1 or 2)
    deadline,       \* the threads whose cond wait has a timeout
    depth           \* locks minus unlocks that returned 0 (what callers believe)

vars == <<type, locked, owner, recursion, mwq, cwq, blocked, pc, saved_rec,
          timed, deadline, depth>>

TypeOK ==
    /\ type \in Types
    /\ locked \in BOOLEAN
    /\ owner \in Threads \cup {NULL}
    /\ recursion \in 0..MaxRec
    /\ mwq \in Seq(Threads) /\ cwq \in Seq(Threads)
    /\ blocked \in SUBSET Threads
    /\ pc \in [Threads -> {"out", "lock", "cond", "relock"}]
    /\ saved_rec \in [Threads -> 0..MaxRec]
    /\ timed \in [Threads -> 0..2]
    /\ deadline \in SUBSET Threads
    /\ depth \in [Threads -> 0..MaxRec]

\* pthread_mutex_init and pthread_cond_init, before the threads share them.
Init ==
    /\ type \in Types
    /\ locked = FALSE /\ owner = NULL /\ recursion = 0
    /\ mwq = <<>> /\ cwq = <<>>
    /\ blocked = {}
    /\ pc = [t \in Threads |-> "out"]
    /\ saved_rec = [t \in Threads |-> 0]
    /\ timed = [t \in Threads |-> 0]
    /\ deadline = {}
    /\ depth = [t \in Threads |-> 0]

-----------------------------------------------------------------------------
(* One round of the loop of pthread_mutex_lock *)

\* m was free: t takes it.  After a cond wait a recursive mutex gets back the
\* nesting it had (cond_wait_common).  The locals of a cond wait end here.
Take(t) ==
    LET nesting == IF pc[t] = "relock" /\ type = "RECURSIVE" /\ saved_rec[t] > 0
                   THEN saved_rec[t] ELSE 1
    IN  /\ ~locked
        /\ locked' = TRUE /\ owner' = t /\ recursion' = nesting
        /\ mwq' = Unlinked(mwq, t)
        /\ pc' = [pc EXCEPT ![t] = "out"]
        /\ depth' = [depth EXCEPT ![t] = nesting]
        /\ saved_rec' = [saved_rec EXCEPT ![t] = 0]
        /\ timed' = [timed EXCEPT ![t] = 0]
        /\ UNCHANGED <<type, cwq, blocked, deadline>>

\* Only a caller that never waited can own m here; other types get EDEADLK.
Relock(t) ==
    /\ locked /\ owner = t /\ type = "RECURSIVE" /\ recursion < MaxRec
    /\ recursion' = recursion + 1
    /\ depth' = [depth EXCEPT ![t] = @ + 1]
    /\ UNCHANGED <<type, locked, owner, mwq, cwq, blocked, pc, saved_rec, timed, deadline>>

\* Mutant: waiters are queued at the head.
Wait_at_head(t) ==
    /\ locked /\ owner # t
    /\ mwq' = <<t>> \o Unlinked(mwq, t)
    /\ blocked' = blocked \cup {t}
    /\ pc' = [pc EXCEPT ![t] = IF @ = "out" THEN "lock" ELSE @]
    /\ UNCHANGED <<type, locked, owner, recursion, cwq, saved_rec, timed, deadline, depth>>

Wait(t) ==
    /\ locked /\ owner # t
    /\ mwq' = Append(Unlinked(mwq, t), t)
    /\ blocked' = blocked \cup {t}
    /\ pc' = [pc EXCEPT ![t] = IF @ = "out" THEN "lock" ELSE @]
    /\ UNCHANGED <<type, locked, owner, recursion, cwq, saved_rec, timed, deadline, depth>>

pthread_mutex_lock(t) ==
    /\ t \notin blocked /\ pc[t] \in {"out", "lock", "relock"}
    /\ Take(t) \/ Relock(t) \/ Wait(t)

\* EBUSY changes nothing.
pthread_mutex_trylock(t) ==
    /\ t \notin blocked /\ pc[t] = "out"
    /\ Take(t) \/ Relock(t)

\* The last unlock: m is free and one waiter is woken.
Release(s, B) ==
    /\ locked' = FALSE /\ owner' = NULL /\ recursion' = 0
    /\ mwq' = AfterWakeOne(s, B)

\* Mutant: a free mutex is handed to nobody: the waiter is not woken.
pthread_mutex_unlock_no_wake(t) ==
    /\ t \notin blocked /\ pc[t] = "out"
    /\ locked /\ (type = "NORMAL" \/ owner = t)
    /\ locked' = FALSE /\ owner' = NULL /\ recursion' = 0
    /\ depth' = [depth EXCEPT ![owner] = 0]
    /\ UNCHANGED <<type, mwq, cwq, blocked, pc, saved_rec, timed, deadline>>

\* Mutant: the ownership test is dropped for every type.
pthread_mutex_unlock_any_owner(t) ==
    /\ t \notin blocked /\ pc[t] = "out"
    /\ locked
    /\ Release(mwq, blocked)
    /\ blocked' = blocked \ WakeOne(mwq, blocked)
    /\ depth' = [depth EXCEPT ![t] = 0]
    /\ UNCHANGED <<type, cwq, pc, saved_rec, timed, deadline>>

\* EPERM, for a caller that does not own m, changes nothing.
pthread_mutex_unlock(t) ==
    /\ t \notin blocked /\ pc[t] = "out"
    /\ locked /\ (type = "NORMAL" \/ owner = t)
    /\ IF type = "RECURSIVE" /\ recursion > 1
       THEN /\ recursion' = recursion - 1
            /\ depth' = [depth EXCEPT ![owner] = @ - 1]
            /\ UNCHANGED <<locked, owner, mwq, blocked>>
       ELSE /\ Release(mwq, blocked)
            /\ blocked' = blocked \ WakeOne(mwq, blocked)
            /\ depth' = [depth EXCEPT ![owner] = 0]
    /\ UNCHANGED <<type, cwq, pc, saved_rec, timed, deadline>>

-----------------------------------------------------------------------------
(* Condition variable *)

\* cond_wait_common up to the switch: m is released and t queued on c in one
\* section; d says whether there is a timeout.  EPERM changes nothing.
cond_wait_common(t, d) ==
    /\ t \notin blocked /\ pc[t] = "out"
    /\ locked /\ owner = t
    /\ saved_rec' = [saved_rec EXCEPT ![t] = recursion]
    /\ Release(mwq, blocked)
    /\ cwq' = Append(cwq, t)
    /\ blocked' = (blocked \ WakeOne(mwq, blocked)) \cup {t}
    /\ timed' = [timed EXCEPT ![t] = 0]
    /\ deadline' = IF d THEN deadline \cup {t} ELSE deadline
    /\ pc' = [pc EXCEPT ![t] = "cond"]
    /\ depth' = [depth EXCEPT ![t] = 0]
    /\ UNCHANGED type

\* Mutant: sched_wait_event returns without wq_remove.
cond_woken_no_unlink(t) ==
    /\ t \notin blocked /\ pc[t] = "cond"
    /\ pc' = [pc EXCEPT ![t] = "relock"]
    /\ deadline' = deadline \ {t}
    /\ UNCHANGED <<type, locked, owner, recursion, mwq, cwq, blocked, saved_rec, timed, depth>>

\* sched_wait_event returns on c->wq; pthread_mutex_lock(m) comes next.
cond_woken(t) ==
    /\ t \notin blocked /\ pc[t] = "cond"
    /\ cwq' = Unlinked(cwq, t)
    /\ pc' = [pc EXCEPT ![t] = "relock"]
    /\ deadline' = deadline \ {t}
    /\ UNCHANGED <<type, locked, owner, recursion, mwq, blocked, saved_rec, timed, depth>>

\* Mutant: a stale node takes the wake-up.
pthread_cond_signal_stale ==
    /\ cwq # <<>>
    /\ cwq' = Tail(cwq)
    /\ blocked' = blocked \ {Head(cwq)}
    /\ timed' = [timed EXCEPT ![Head(cwq)] = 0]
    /\ UNCHANGED <<type, locked, owner, recursion, mwq, pc, saved_rec, deadline, depth>>

pthread_cond_signal ==
    /\ cwq' = AfterWakeOne(cwq, blocked)
    /\ blocked' = blocked \ WakeOne(cwq, blocked)
    /\ timed' = [t \in Threads |-> IF t \in WakeOne(cwq, blocked) THEN 0 ELSE timed[t]]
    /\ UNCHANGED <<type, locked, owner, recursion, mwq, pc, saved_rec, deadline, depth>>

pthread_cond_broadcast ==
    /\ cwq' = <<>>
    /\ blocked' = blocked \ WakeAll(cwq, blocked)
    /\ timed' = [t \in Threads |-> IF t \in WakeAll(cwq, blocked) THEN 0 ELSE timed[t]]
    /\ UNCHANGED <<type, locked, owner, recursion, mwq, pc, saved_rec, deadline, depth>>

-----------------------------------------------------------------------------
(* Wake-ups from elsewhere: the nodes stay on their queue *)

\* wake_expired_sleepers
Timeout(t) ==
    /\ t \in blocked /\ pc[t] = "cond" /\ t \in deadline
    /\ blocked' = blocked \ {t}
    /\ timed' = [timed EXCEPT ![t] = 1]
    /\ UNCHANGED <<type, locked, owner, recursion, mwq, cwq, pc, saved_rec, deadline, depth>>

\* signal_send to a BLOCKED thread
Interrupt(t) ==
    /\ t \in blocked
    /\ blocked' = blocked \ {t}
    /\ timed' = IF pc[t] = "cond" THEN [timed EXCEPT ![t] = 2] ELSE timed
    /\ UNCHANGED <<type, locked, owner, recursion, mwq, cwq, pc, saved_rec, deadline, depth>>

-----------------------------------------------------------------------------
\* A NORMAL mutex is unlocked by its holder only: the callers' obligation.
MayUnlock(t) == type = "NORMAL" => depth[t] > 0

Step(t) ==
    \/ pthread_mutex_lock(t) \/ pthread_mutex_trylock(t)
    \/ MayUnlock(t) /\ pthread_mutex_unlock(t)
    \/ \E d \in BOOLEAN : cond_wait_common(t, d)
    \/ cond_woken(t)
    \/ Timeout(t) \/ Interrupt(t)

Next == (\E t \in Threads : Step(t)) \/ pthread_cond_signal \/ pthread_cond_broadcast

Spec == Init /\ [][Next]_vars

\* A woken thread goes on with its call.
Resume(t) == (pc[t] \in {"lock", "relock"} /\ pthread_mutex_lock(t)) \/ cond_woken(t)

\* What callers owe each other: a holder unlocks.
Duty(t) == depth[t] > 0 /\ pthread_mutex_unlock(t)

-----------------------------------------------------------------------------
(* Properties *)

\* A caller that believes it holds m is its owner, so no two callers do; and
\* the nesting of a recursive mutex is what its holder has counted, across
\* cond waits too (pthread_mutex_lock, _unlock, cond_wait_common).
MutualExclusion ==
    /\ \A t \in Threads : depth[t] > 0 => locked /\ owner = t
    /\ locked => owner \in Threads /\ depth[owner] = recursion /\ recursion > 0

\* A thread that will retry the lock without any further wake-up.
Retrying(t) == t \notin blocked /\ pc[t] \in {"lock", "relock"}

\* m is never free with a thread asleep on it unless a woken thread is on its
\* way to take it: no interleaving of unlock, barging lockers, cond waits,
\* timeouts and signals loses the wake-up of pthread_mutex_unlock.
NoLostWakeup ==
    ~locked /\ (\E t \in blocked : pc[t] \in {"lock", "relock"})
        => \E t \in Threads : Retrying(t)

\* A BLOCKED thread is on the queue of the call it is in (so that a wake-up can
\* find it), and no thread is on a queue twice or on one it has left.
QueuesExact ==
    /\ \A t \in blocked : t \in Nodes(IF pc[t] = "cond" THEN cwq ELSE mwq)
    /\ \A t \in Nodes(mwq) : pc[t] \in {"lock", "relock"}
    /\ \A t \in Nodes(cwq) : pc[t] = "cond"
    /\ \A s \in {mwq, cwq} : \A i, j \in DOMAIN s : s[i] = s[j] => i = j

CondWaiters == {t \in blocked : pc[t] = "cond"}

\* A signal on c is never absorbed by a waiter that has timed out but not run
\* yet: when threads are asleep on c, pthread_cond_signal wakes exactly one of
\* them, and that one will not report a timeout.
SignalReachesSleeper ==
    [][pthread_cond_signal /\ CondWaiters # {}
         => \E t \in CondWaiters : CondWaiters' = CondWaiters \ {t} /\ timed'[t] = 0]_vars
=============================================================================
