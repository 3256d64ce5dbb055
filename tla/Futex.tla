------------------------------- MODULE Futex -------------------------------
(***************************************************************************)
(* The hashed-bucket futex of kernel/futex.c and the threads that use it.  *)
(* A word is named by its physical address; user code changes a word and   *)
(* then calls futex_wake, and sleeps on it with futex_wait.                *)
(*                                                                         *)
(* A system call runs with interrupts off, so each of futex_wait (up to    *)
(* its sleep) and futex_wake is one step; user code between them is not.   *)
(***************************************************************************)
EXTENDS WaitQueue

CONSTANTS
    Threads,
    Words,          \* physical addresses of the words in use
    NONE,           \* no word
    WakeN,          \* the n callers pass to futex_wake
    MaxWaiters      \* how many threads callers let sleep on one word

NBUCKETS == 64

bucket_of(phys) == (phys \div 4) % NBUCKETS

Buckets == {bucket_of(w) : w \in Words}

VARIABLES
    word,           \* the contents of each word, 0 or 1
    bucket,         \* the wait queue of each bucket
    blocked,        \* the threads in state BLOCKED
    uaddr, val,     \* the arguments of the futex_wait a thread is in
    owes            \* the word a thread has changed and will next wake

vars == <<word, bucket, blocked, uaddr, val, owes>>

TypeOK ==
    /\ word \in [Words -> 0..1]
    /\ bucket \in [Buckets -> Seq(Threads)]
    /\ blocked \in SUBSET {t \in Threads : uaddr[t] # NONE}
    /\ uaddr \in [Threads -> Words \cup {NONE}]
    /\ val \in [Threads -> 0..1]
    /\ owes \in [Threads -> Words \cup {NONE}]

Init ==
    /\ word \in [Words -> 0..1]
    /\ bucket = [b \in Buckets |-> <<>>]
    /\ blocked = {}
    /\ uaddr = [t \in Threads |-> NONE]
    /\ val = [t \in Threads |-> 0]
    /\ owes = [t \in Threads |-> NONE]

-----------------------------------------------------------------------------
(* User code *)

Free(t) == uaddr[t] = NONE /\ owes[t] = NONE

\* t changes a word, by a plain store or an atomic instruction, and will call
\* futex_wake on it; the exit path of a thread does the same for its
\* clear_child_tid.
Store(t, w) ==
    /\ Free(t)
    /\ word' = [word EXCEPT ![w] = 1 - @]
    /\ owes' = [owes EXCEPT ![t] = w]
    /\ UNCHANGED <<bucket, blocked, uaddr, val>>

-----------------------------------------------------------------------------
(* System calls *)

\* -EAGAIN, for a word that is not v, changes nothing.
futex_wait(t, w, v) ==
    /\ Free(t)
    /\ word[w] = v
    /\ bucket' = [bucket EXCEPT ![bucket_of(w)] = Append(@, t)]
    /\ blocked' = blocked \cup {t}
    /\ uaddr' = [uaddr EXCEPT ![t] = w]
    /\ val' = [val EXCEPT ![t] = v]
    /\ UNCHANGED <<word, owes>>

\* futex_wait returns: 0, -ETIMEDOUT or -EINTR, user code looks again.
futex_wait_returns(t) ==
    /\ uaddr[t] # NONE /\ t \notin blocked
    /\ bucket' = [bucket EXCEPT ![bucket_of(uaddr[t])] = Unlinked(@, t)]
    /\ uaddr' = [uaddr EXCEPT ![t] = NONE]
    /\ val' = [val EXCEPT ![t] = 0]
    /\ UNCHANGED <<word, blocked, owes>>

\* The positions of the first n BLOCKED threads of s.
FirstN(s, n) ==
    {i \in DOMAIN s : s[i] \in blocked
                      /\ Cardinality({j \in 1..(i - 1) : s[j] \in blocked}) < n}

\* What n rounds of wq_wake_one leave.
AfterWake(s, n) ==
    IF Cardinality(FirstN(s, n)) < n THEN <<>>
    ELSE SubSeq(s, 1 + CHOOSE i \in FirstN(s, n) : \A j \in FirstN(s, n) : j <= i, Len(s))

futex_wake(t, w) ==
    LET s == bucket[bucket_of(w)]
    IN  /\ uaddr[t] = NONE /\ owes[t] = w
        /\ bucket' = [bucket EXCEPT ![bucket_of(w)] = AfterWake(s, WakeN)]
        /\ blocked' = blocked \ {s[i] : i \in FirstN(s, WakeN)}
        /\ owes' = [owes EXCEPT ![t] = NONE]
        /\ UNCHANGED <<word, uaddr, val>>

\* wake_expired_sleepers or signal_send: the node stays in the bucket.
WokenElsewhere(t) ==
    /\ t \in blocked
    /\ blocked' = blocked \ {t}
    /\ UNCHANGED <<word, bucket, uaddr, val, owes>>

Waiters(w) == {t \in Threads : uaddr[t] = w}

Next ==
    \E t \in Threads :
        \/ \E w \in Words :
            \/ Store(t, w) \/ futex_wake(t, w)
            \/ /\ Cardinality(Waiters(w)) < MaxWaiters
               /\ \E v \in 0..1 : futex_wait(t, w, v)
        \/ futex_wait_returns(t)
        \/ WokenElsewhere(t)

Spec == Init /\ [][Next]_vars
-----------------------------------------------------------------------------
\* A thread sleeps on a word that has changed only while the thread that
\* changed it has yet to call futex_wake: the check and the sleep are one step
\* against every wake, so no wake-up is lost (kernel/futex.c, header comment).
NoWakeupLost ==
    \A t \in blocked : word[uaddr[t]] # val[t] => \E u \in Threads : owes[u] = uaddr[t]

\* A BLOCKED thread is in the bucket of its word, and no thread is in a bucket
\* twice or after its call has returned.
BucketsExact ==
    /\ \A t \in blocked : t \in Nodes(bucket[bucket_of(uaddr[t])])
    /\ \A b \in Buckets : \A i \in DOMAIN bucket[b] :
          /\ uaddr[bucket[b][i]] # NONE /\ bucket_of(uaddr[bucket[b][i]]) = b
          /\ \A j \in DOMAIN bucket[b] : bucket[b][i] = bucket[b][j] => i = j
=============================================================================
