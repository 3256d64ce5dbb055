------------------------------ MODULE MCSync --------------------------------
(***************************************************************************)
(* A set of threads that share one synchronisation object, of any kind the *)
(* kernel has.  kind says which: the objects do not interact, so one       *)
(* behaviour uses one of them.  They share the scheduler's view of the     *)
(* threads (blocked), the queue of objects that have one queue (wq) and    *)
(* the place of a thread in its call (pc).  Mutex is extended, not         *)
(* instantiated, so that its properties here are those its proofs are of.  *)
(***************************************************************************)
EXTENDS SyncProofs, TLC

CONSTANTS
    Kinds,                      \* the kinds of object considered
    Neighbours, SameOffset      \* futex words of one page; one offset of two pages

AllKinds == {"mutex", "semaphore", "rwlock", "barrier", "once", "futex", "futex_all"}

ASSUME KindsAssumption ==
    Kinds \subseteq AllKinds /\ NONE \notin Neighbours \cup SameOffset

VARIABLE kind

\* A futex of these words, with wakes of WakeN and at most MaxWaiters waiters on a word.
Fu(Words, WakeN, MaxWaiters) == INSTANCE Futex

mutex_vars == <<type, locked, owner, recursion, mwq, cwq, saved_rec, timed, depth>>
sem_vars == <<value, waiting, expired, early>>
rw_vars == <<state, waiting_writers, rq>>
barrier_vars == <<count, generation, gen, arrived>>
once_vars == <<done, running, runs>>
futex_vars == <<word, bucket, uaddr, val, owes>>

sync_vars == <<kind, blocked, wq, pc, deadline, mutex_vars, sem_vars, rw_vars, barrier_vars,
          once_vars, futex_vars>>

\* One waiter and one wake per word, on words of different buckets; and any
\* number of waiters, all of them woken, on words that share a bucket.
FxInit == Fu(Neighbours, 1, 1)!Init
FxNext == Fu(Neighbours, 1, 1)!Next
FaInit == Fu(SameOffset, Cardinality(Threads), Cardinality(Threads))!Init
FaNext == Fu(SameOffset, Cardinality(Threads), Cardinality(Threads))!Next

SyncInit ==
    /\ kind \in Kinds
    /\ Init /\ Sm!Init /\ Rw!Init /\ Br!Init /\ On!Init
    /\ IF kind = "futex_all" THEN FaInit ELSE FxInit
    /\ kind # "mutex" => type = "NORMAL"
    /\ kind \notin {"futex", "futex_all"} => \A w \in Neighbours : word[w] = 0

MutexOnly == kind = "mutex"
    /\ UNCHANGED <<kind, wq, sem_vars, rw_vars, barrier_vars, once_vars, futex_vars>>
SemOnly == kind = "semaphore"
    /\ UNCHANGED <<kind, pc, mutex_vars, rw_vars, barrier_vars, once_vars, futex_vars>>
RwOnly == kind = "rwlock"
    /\ UNCHANGED <<kind, deadline, mutex_vars, sem_vars, barrier_vars, once_vars, futex_vars>>
BarrierOnly == kind = "barrier"
    /\ UNCHANGED <<kind, pc, deadline, mutex_vars, sem_vars, rw_vars, once_vars, futex_vars>>
OnceOnly == kind = "once"
    /\ UNCHANGED <<kind, deadline, mutex_vars, sem_vars, rw_vars, barrier_vars, futex_vars>>
FutexOnly(k) == kind = k
    /\ UNCHANGED <<kind, wq, pc, deadline, mutex_vars, sem_vars, rw_vars, barrier_vars, once_vars>>

SyncNext ==
    \/ MutexOnly /\ Next
    \/ SemOnly /\ Sm!Next
    \/ RwOnly /\ Rw!Next
    \/ BarrierOnly /\ Br!Next
    \/ OnceOnly /\ On!Next
    \/ FutexOnly("futex") /\ FxNext
    \/ FutexOnly("futex_all") /\ FaNext

SyncSpec == SyncInit /\ [][SyncNext]_sync_vars

-----------------------------------------------------------------------------
\* A woken thread that can run does: the scheduler's promise.
WokenRuns(t) ==
    \/ MutexOnly /\ Resume(t)
    \/ SemOnly /\ Sm!Resume(t)
    \/ RwOnly /\ Rw!Resume(t)
    \/ BarrierOnly /\ Br!Resume(t)
    \/ OnceOnly /\ On!Resume(t)

\* Threads keep their side of the use of an object.
CallersGoOn(t) ==
    \/ MutexOnly /\ Duty(t)
    \/ SemOnly /\ Sm!Duty(t)
    \/ RwOnly /\ Rw!Duty(t)
    \/ BarrierOnly /\ Br!Duty(t)
    \/ OnceOnly /\ On!Duty(t)

Fairness ==
    \A t \in Threads : WF_sync_vars(WokenRuns(t)) /\ WF_sync_vars(CallersGoOn(t))

FairSpec == SyncSpec /\ Fairness

-----------------------------------------------------------------------------
(* The properties of the components, besides those of Mutex, which hold of its *)
(* idle mutex when kind is another; each has its comment in its module.        *)

\* A BLOCKED thread is on the queue its wake-up will come through, and nobody
\* is on a queue twice or on one it has left.
OnItsQueue ==
    CASE kind = "mutex" -> TypeOK /\ QueuesExact
      [] kind = "semaphore" -> Sm!TypeOK /\ Sm!QueueExact
      [] kind = "rwlock" -> Rw!TypeOK
      [] kind = "barrier" -> Br!TypeOK
      [] kind = "once" -> On!TypeOK
      [] kind = "futex" -> Fu(Neighbours, 1, 1)!TypeOK /\ Fu(Neighbours, 1, 1)!BucketsExact
      [] kind = "futex_all" -> /\ Fu(SameOffset, Cardinality(Threads), Cardinality(Threads))!TypeOK
                               /\ Fu(SameOffset, Cardinality(Threads), Cardinality(Threads))!BucketsExact

\* What each object is for, and that no thread sleeps on with nobody left to wake it:
\* no unit stays unclaimed beside a sleeper (sem_post); one writer or any readers, with
\* waiting_writers the number of waiting writers, and a sleeper has a holder or a woken
\* thread to wait for (pthread_rwlock_*); exactly total threads in a generation and
\* nobody asleep in one that is over (pthread_barrier_wait); no caller back before
\* init_routine is (pthread_once); a sleeper's word has changed only while a wake is
\* due (futex_wait, futex_wake).
ObjectSound ==
    CASE kind = "mutex" -> TRUE
      [] kind = "semaphore" -> Sm!NoUnclaimedUnit
      [] kind = "rwlock" -> Rw!Exclusion /\ Rw!WritersCounted /\ Rw!NobodyStranded
      [] kind = "barrier" -> Br!FullGenerations /\ Br!NobodyLeftBehind
      [] kind = "once" -> On!ReturnsAfterInit
      [] kind = "futex" -> Fu(Neighbours, 1, 1)!NoWakeupLost
      [] kind = "futex_all" -> Fu(SameOffset, Cardinality(Threads), Cardinality(Threads))!NoWakeupLost

\* No futex wake-up is lost, which ObjectSound has for words that keep to themselves: a thread
\* sleeps on a word that has changed only while the wake for it is still to come (futex_wait,
\* futex_wake).
NoWakeupLost == Fu(Neighbours, 1, 1)!NoWakeupLost

\* What a step may not do: a signal of a condition wakes a sleeper if there is one
\* (pthread_cond_signal), no reader gets in while a writer waits (pthread_rwlock_rdlock),
\* nobody leaves before its generation is over (pthread_barrier_wait).
StepsKept == SignalReachesSleeper /\ Rw!WritersPreferred /\ Br!NobodyLeavesEarly

\* The waits that must end: for a mutex or a rwlock's writer until it is woken,
\* for the others until the call is over.
Waits(t) ==
    CASE kind = "mutex" -> t \in blocked /\ pc[t] \in {"lock", "relock"}
      [] kind = "semaphore" -> t \in deadline
      [] kind = "rwlock" -> t \in blocked /\ pc[t] = "wr"
      [] kind = "barrier" -> Br!Inside(t)
      [] kind = "once" -> pc[t] \in {"init", "wait"}
      [] OTHER -> FALSE

\* The holder of a recursive mutex does not lock it again for ever before it unlocks it.
HoldersLetGo == []<>(kind # "mutex" \/ ~locked)

\* While holders unlock, threads come to a barrier, init_routine returns and
\* the timer ticks, no wait lasts for ever: a mutex's sleeper is woken however
\* often others barge in, and so is a writer; a sem_timedwait, a barrier wait
\* and a pthread_once call come to their end, through any signals; and once
\* writers stop coming, waiting readers get in (pthread_rwlock_rdlock).
WaitEnds == /\ HoldersLetGo => \A t \in Threads : Waits(t) ~> ~Waits(t)
            /\ Rw!ReadersGetIn

-----------------------------------------------------------------------------
(* Futexes, module Futex: for any set W of words, wakes of N and at most M waiters on a word. *)

\* A wake reaches every waiter of its word: it is for as many threads as there are, or for as
\* many as may sleep on the word, in a bucket of its own.
FuFits(W, N, M) ==
    /\ NONE \notin W /\ N \in Nat /\ M \in Nat
    /\ \/ Cardinality(Threads) <= N
       \/ /\ M <= N /\ N > 0
          /\ \A v, w \in W : Fu(W, N, M)!bucket_of(v) = Fu(W, N, M)!bucket_of(w) => v = w

\* The operators the futex takes from other modules are those used here.
LEMMA FuQueue ==
    ASSUME NEW W, NEW N, NEW M
    PROVE  /\ \A s : Fu(W, N, M)!Nodes(s) = Nodes(s)
           /\ \A s, t : Fu(W, N, M)!Unlinked(s, t) = Unlinked(s, t)
           /\ \A S : Fu(W, N, M)!Cardinality(S) = Cardinality(S)
<1>1. \A s : Fu(W, N, M)!Nodes(s) = Nodes(s)
  BY Zenon DEF Fu!Nodes, Nodes
<1>2. \A s, t : Fu(W, N, M)!Unlinked(s, t) = Unlinked(s, t)
  BY Zenon DEF Fu!Unlinked, Unlinked, Fu!Nodes, Nodes
<1>3. \A S : Fu(W, N, M)!Cardinality(S) = Cardinality(S)
  BY Zenon DEF Fu!Cardinality, Cardinality
<1> QED
  BY <1>1, <1>2, <1>3, Zenon

FuBucket(W, N, M) == [w \in W |-> Fu(W, N, M)!bucket_of(w)]

FuInv(W, N, M) == FuIInv(W, M, FuBucket(W, N, M))

\* Words nobody waits for satisfy the invariant.
LEMMA FuInitIInv ==
    ASSUME NEW W, NEW N, NEW M, FuFits(W, N, M), Fu(W, N, M)!Init
    PROVE  FuInv(W, N, M)
<1> DEFINE b == FuBucket(W, N, M)
<1>1. /\ word \in [W -> 0..1] /\ bucket = [c \in Fu(W, N, M)!Buckets |-> <<>>] /\ blocked = {}
      /\ uaddr = [t \in Threads |-> NONE] /\ val = [t \in Threads |-> 0]
      /\ owes = [t \in Threads |-> NONE]
  BY Zenon DEF Fu!Init
<1>2. Fu(W, N, M)!Buckets = {b[w] : w \in W}
  BY Zenon DEF Fu!Buckets, FuBucket
<1>3. <<>> \in Seq(Threads) /\ 0 \in 0..1 /\ Nodes(<<>>) = {} /\ Distinct(<<>>)
  BY DEF Nodes, Distinct
<1>4. FuTypes(W, b)
  <2>1. bucket \in [{b[w] : w \in W} -> Seq(Threads)]
    BY <1>1, <1>2, <1>3, Zenon
  <2>2. /\ uaddr \in [Threads -> W \cup {NONE}] /\ val \in [Threads -> 0..1]
        /\ owes \in [Threads -> W \cup {NONE}]
    BY <1>1, <1>3, Zenon
  <2> QED
    BY <1>1, <2>1, <2>2, Zenon DEF FuTypes
<1>5. FuBuckets(W, b)
  <2>1. \A c \in {b[w] : w \in W} : bucket[c] = <<>>
    BY <1>1, <1>2, Zenon
  <2> HIDE DEF b
  <2> QED
    BY <1>1, <1>3, <2>1, Zenon DEF FuBuckets
<1>6. FuLost
  BY <1>1, Zenon DEF FuLost
<1>7. \A w \in W : Cardinality(FuWaiters(w)) <= M
  <2>1. \A w \in W : FuWaiters(w) = {}
    BY <1>1 DEF FuWaiters, FuFits
  <2>2. Cardinality({}) = 0 /\ 0 <= M
    BY FS_EmptySet DEF FuFits
  <2> QED
    BY <2>1, <2>2, Zenon
<1> QED
  BY <1>4, <1>5, <1>6, <1>7, Zenon DEF FuInv, FuIInv

\* futex_wake wakes everybody asleep on its word.
LEMMA FuWakeReaches ==
    ASSUME NEW W, NEW N, NEW M, FuFits(W, N, M), FuInv(W, N, M), NEW t \in Threads, NEW w \in W,
           Fu(W, N, M)!futex_wake(t, w)
    PROVE  FuInv(W, N, M)'
<1> DEFINE b == FuBucket(W, N, M)
           s == bucket[b[w]]
           F == Fu(W, N, M)!FirstN(s, N)
           r == Popped(s, F, N)
<1>1. b[w] = Fu(W, N, M)!bucket_of(w)
  BY Zenon DEF FuBucket
<1>2. F = {i \in DOMAIN s :
             s[i] \in blocked /\ Cardinality({j \in 1..(i - 1) : s[j] \in blocked}) < N}
  BY FuQueue, Zenon DEF Fu!FirstN
<1>3. Fu(W, N, M)!AfterWake(s, N) = r
  <2>1. Fu(W, N, M)!Cardinality(Fu(W, N, M)!FirstN(s, N)) = Cardinality(Fu(W, N, M)!FirstN(s, N))
    BY FuQueue, Zenon
  <2>2. CASE Cardinality(Fu(W, N, M)!FirstN(s, N)) < N
    BY <2>1, <2>2, Zenon DEF Fu!AfterWake, Popped
  <2>3. CASE ~(Cardinality(Fu(W, N, M)!FirstN(s, N)) < N)
    BY <2>1, <2>3, SMTT(30) DEF Fu!AfterWake, Popped
  <2> QED
    BY <2>2, <2>3, Zenon
<1>4. /\ owes[t] = w /\ bucket' = [bucket EXCEPT ![b[w]] = r] /\ blocked' = blocked \ {s[i] : i \in F}
      /\ owes' = [owes EXCEPT ![t] = NONE] /\ UNCHANGED <<word, uaddr, val>>
  <2> HIDE DEF F, r
  <2> QED
    BY <1>1, <1>3, Zenon DEF Fu!futex_wake, F
<1> HIDE DEF b, F
<1>5. /\ s \in Seq(Threads) /\ Distinct(s)
      /\ \A u \in Nodes(s) : u \in Threads /\ uaddr[u] \in W /\ b[uaddr[u]] = b[w]
  <2>1. FuTypes(W, b) /\ FuBuckets(W, b) /\ b[w] \in {b[x] : x \in W}
    BY Zenon DEF FuInv, FuIInv, b
  <2> QED
    BY <2>1, Zenon DEF FuTypes, FuBuckets
<1> HIDE DEF s
<1>6. \E S : IsFiniteSet(S) /\ Cardinality(S) <= N /\ \A u \in Nodes(s) \cap blocked : u \in S
  <2>1. CASE Cardinality(Threads) <= N
    BY <1>5, <2>1, MutexAssumption, Zenon
  <2>2. CASE /\ M <= N
             /\ \A v, x \in W : Fu(W, N, M)!bucket_of(v) = Fu(W, N, M)!bucket_of(x) => v = x
    <3>1. \A v, x \in W : b[v] = b[x] => v = x
      BY <2>2, Zenon DEF FuBucket, b
    <3>2. \A u \in Nodes(s) : u \in FuWaiters(w)
      BY <1>5, <3>1, Zenon DEF FuWaiters
    <3>3. FuWaiters(w) \in SUBSET Threads /\ Cardinality(FuWaiters(w)) <= M
      BY Zenon DEF FuInv, FuIInv, FuWaiters
    <3>4. IsFiniteSet(FuWaiters(w)) /\ Cardinality(FuWaiters(w)) \in Nat
      BY <3>3, MutexAssumption, FS_Subset, FS_CardinalityType, Zenon
    <3>5. M \in Nat /\ N \in Nat
      BY Zenon DEF FuFits
    <3>6. Cardinality(FuWaiters(w)) <= N
      BY <2>2, <3>3, <3>4, <3>5
    <3> QED
      BY <3>2, <3>4, <3>6, Zenon
  <2> QED
    BY <2>1, <2>2, Zenon DEF FuFits
<1>7. N \in Nat \ {0}
  <2>1. CASE Cardinality(Threads) <= N
    <3>1. Cardinality(Threads) \in Nat /\ Cardinality(Threads) # 0
      BY Counting, Zenon
    <3> QED
      BY <2>1, <3>1 DEF FuFits
  <2>2. CASE N > 0
    BY <2>2 DEF FuFits
  <2> QED
    BY <2>1, <2>2, Zenon DEF FuFits
<1>8. F \subseteq DOMAIN s /\ {s[i] : i \in F} = Nodes(s) \cap blocked
  BY <1>2, <1>5, <1>6, <1>7, WakeNFacts, Zenon
<1>9. r \in Seq(Threads) /\ Distinct(r) /\ Nodes(r) \subseteq Nodes(s)
  BY <1>5, <1>7, <1>8, PopFacts, Zenon
<1> HIDE DEF r
<1>10. NONE \notin W /\ FuIInv(W, M, b)
  BY Zenon DEF FuFits, FuInv, b
<1>11. blocked' = blocked \ (Nodes(bucket[b[w]]) \cap blocked) /\ Nodes(r) \subseteq Nodes(bucket[b[w]])
  BY <1>4, <1>8, <1>9, Zenon DEF s
<1>12. FuIInv(W, M, b)'
  BY <1>4, <1>9, <1>10, <1>11, FuWakeIInv, Zenon
<1> QED
  BY <1>12, Zenon DEF FuInv, b

\* Every step of the futex keeps the invariant.
LEMMA FuNextIInv ==
    ASSUME NEW W, NEW N, NEW M, FuFits(W, N, M), FuInv(W, N, M),
           [Fu(W, N, M)!Next]_(Fu(W, N, M)!vars)
    PROVE  FuInv(W, N, M)'
<1> DEFINE b == FuBucket(W, N, M)
<1>1. NONE \notin W /\ M \in Nat /\ FuIInv(W, M, b)
  BY Zenon DEF FuFits, FuInv
<1>2. \A w \in W : b[w] = Fu(W, N, M)!bucket_of(w)
  BY Zenon DEF FuBucket
<1>3. FuIInv(W, M, b)' => FuInv(W, N, M)'
  BY Zenon DEF FuInv
<1>4. \A w : Fu(W, N, M)!Waiters(w) = FuWaiters(w)
  BY Zenon DEF Fu!Waiters, FuWaiters
<1> HIDE DEF b
<1>5. ASSUME NEW t \in Threads, NEW w \in W, Fu(W, N, M)!Store(t, w)
      PROVE  FuInv(W, N, M)'
  BY <1>1, <1>3, <1>5, FuStoreIInv, Zenon DEF Fu!Store, Fu!Free
<1>6. ASSUME NEW t \in Threads, NEW w \in W, NEW v \in 0..1, Fu(W, N, M)!futex_wait(t, w, v),
             Fu(W, N, M)!Cardinality(Fu(W, N, M)!Waiters(w)) < M
      PROVE  FuInv(W, N, M)'
  <2>1. /\ uaddr[t] = NONE /\ Cardinality(FuWaiters(w)) < M
        /\ bucket' = [bucket EXCEPT ![b[w]] = Append(bucket[b[w]], t)]
        /\ blocked' = blocked \cup {t} /\ uaddr' = [uaddr EXCEPT ![t] = w]
        /\ val' = [val EXCEPT ![t] = word[w]] /\ UNCHANGED <<word, owes>>
    BY <1>2, <1>4, <1>6, FuQueue, Zenon DEF Fu!futex_wait, Fu!Free
  <2> QED
    BY <1>1, <1>3, <2>1, FuWaitIInv, Zenon
<1>7. ASSUME NEW t \in Threads, Fu(W, N, M)!futex_wait_returns(t)
      PROVE  FuInv(W, N, M)'
  <2>1. uaddr[t] # NONE /\ uaddr \in [Threads -> W \cup {NONE}]
    BY <1>1, <1>7, Zenon DEF Fu!futex_wait_returns, FuIInv, FuTypes
  <2>2. b[uaddr[t]] = Fu(W, N, M)!bucket_of(uaddr[t])
    BY <1>2, <2>1, Zenon
  <2>3. Fu(W, N, M)!Unlinked(bucket[b[uaddr[t]]], t) = Unlinked(bucket[b[uaddr[t]]], t)
    <3>1. \A q, u : Fu(W, N, M)!Unlinked(q, u) = Unlinked(q, u)
      BY FuQueue
    <3> QED
      BY <3>1, Zenon
  <2>4. /\ t \notin blocked
        /\ bucket' = [bucket EXCEPT ![b[uaddr[t]]] = Unlinked(bucket[b[uaddr[t]]], t)]
        /\ uaddr' = [uaddr EXCEPT ![t] = NONE] /\ val' = [val EXCEPT ![t] = 0]
        /\ UNCHANGED <<word, blocked, owes>>
    BY <1>7, <2>2, <2>3, Zenon DEF Fu!futex_wait_returns
  <2> QED
    BY <1>1, <1>3, <2>1, <2>4, FuReturnsIInv, Zenon
<1>8. ASSUME NEW t \in Threads, Fu(W, N, M)!WokenElsewhere(t)
      PROVE  FuInv(W, N, M)'
  BY <1>1, <1>3, <1>8, FuWokenIInv, Zenon DEF Fu!WokenElsewhere
<1>9. CASE UNCHANGED (Fu(W, N, M)!vars)
  <2>1. blocked' = blocked \ {} /\ UNCHANGED <<word, bucket, uaddr, val, owes>>
    BY <1>9 DEF Fu!vars
  <2> QED
    BY <1>1, <1>3, <2>1, FuWokenIInv, Zenon
<1> QED
  BY <1>5, <1>6, <1>7, <1>8, <1>9, FuWakeReaches, Zenon DEF Fu!Next

\* The invariant says that no wake-up is lost and what the buckets hold.
LEMMA FuEnough ==
    ASSUME NEW W, NEW N, NEW M, FuFits(W, N, M), FuInv(W, N, M)
    PROVE  Fu(W, N, M)!TypeOK /\ Fu(W, N, M)!BucketsExact /\ Fu(W, N, M)!NoWakeupLost
<1> DEFINE b == FuBucket(W, N, M)
<1>1. FuTypes(W, b) /\ FuBuckets(W, b) /\ FuLost /\ NONE \notin W
  BY Zenon DEF FuInv, FuIInv, FuFits
<1>2. Fu(W, N, M)!Buckets = {b[w] : w \in W} /\ \A w \in W : b[w] = Fu(W, N, M)!bucket_of(w)
  BY Zenon DEF Fu!Buckets, FuBucket
<1> HIDE DEF b
<1>3. Fu(W, N, M)!TypeOK
  <2>1. blocked \in SUBSET {t \in Threads : uaddr[t] # NONE}
    BY <1>1, Zenon DEF FuTypes
  <2> QED
    BY <1>1, <1>2, <2>1, Zenon DEF FuTypes, Fu!TypeOK
<1>4. Fu(W, N, M)!NoWakeupLost
  BY <1>1, Zenon DEF FuLost, Fu!NoWakeupLost
<1>5. Fu(W, N, M)!BucketsExact
  <2>1. \A t \in blocked : t \in Nodes(bucket[b[uaddr[t]]]) /\ uaddr[t] \in W
    BY <1>1, Zenon DEF FuBuckets, FuTypes
  <2>2. \A t \in blocked : t \in Fu(W, N, M)!Nodes(bucket[Fu(W, N, M)!bucket_of(uaddr[t])])
    <3>1. \A t \in blocked : t \in Nodes(bucket[Fu(W, N, M)!bucket_of(uaddr[t])])
      BY <1>2, <2>1, Zenon
    <3> QED
      BY <3>1, FuQueue, Zenon
  <2>3. ASSUME NEW c \in {b[w] : w \in W}, NEW i \in DOMAIN bucket[c]
        PROVE  /\ uaddr[bucket[c][i]] # NONE /\ Fu(W, N, M)!bucket_of(uaddr[bucket[c][i]]) = c
               /\ \A j \in DOMAIN bucket[c] : bucket[c][i] = bucket[c][j] => i = j
    <3>1. bucket[c][i] \in Nodes(bucket[c])
      BY Zenon DEF Nodes
    <3>2. uaddr[bucket[c][i]] \in W /\ b[uaddr[bucket[c][i]]] = c /\ Distinct(bucket[c])
      BY <1>1, <3>1, Zenon DEF FuBuckets
    <3> QED
      BY <1>1, <1>2, <3>2, Zenon DEF Distinct
  <2> QED
    BY <1>2, <2>2, <2>3, Zenon DEF Fu!BucketsExact
<1> QED
  BY <1>3, <1>4, <1>5, Zenon

\* No futex wake-up is lost, and a sleeper is on the queue its wake will look at (futex_wait,
\* futex_wake): for any threads and words, as long as a wake reaches every waiter of its word.
THEOREM FutexSound ==
    ASSUME NEW CONSTANT W, NEW CONSTANT N, NEW CONSTANT M, FuFits(W, N, M)
    PROVE  Fu(W, N, M)!Spec => [](Fu(W, N, M)!BucketsExact /\ Fu(W, N, M)!NoWakeupLost)
<1>1. Fu(W, N, M)!Init => FuInv(W, N, M)
  BY FuInitIInv, Zenon
<1>2. FuInv(W, N, M) /\ [Fu(W, N, M)!Next]_(Fu(W, N, M)!vars) => FuInv(W, N, M)'
  BY FuNextIInv, Zenon
<1>3. FuInv(W, N, M) => Fu(W, N, M)!BucketsExact /\ Fu(W, N, M)!NoWakeupLost
  BY FuEnough, Zenon
<1> QED
  BY <1>1, <1>2, <1>3, PTL DEF Fu!Spec

-----------------------------------------------------------------------------
(* The proof, for any threads, kinds and bounds: the invariant of the object that is used, *)
(* from its own part of SyncProofs, and the idleness of the others.                        *)

\* The words for one waiter and one wake each are in buckets of their own.
Apart == \A v, w \in Neighbours :
             Fu(Neighbours, 1, 1)!bucket_of(v) = Fu(Neighbours, 1, 1)!bucket_of(w) => v = w

ObjectInv ==
    /\ kind \in AllKinds
    /\ kind = "mutex" => IInv
    /\ kind = "semaphore" => SemIInv
    /\ kind = "rwlock" => RwIInv
    /\ kind = "barrier" => BrIInv
    /\ kind = "once" => OnIInv
    /\ kind = "futex" => FuInv(Neighbours, 1, 1)
    /\ kind = "futex_all" => FuInv(SameOffset, Cardinality(Threads), Cardinality(Threads))

OthersIdle ==
    /\ kind # "mutex" => locked = FALSE /\ depth = [t \in Threads |-> 0]
    /\ kind # "barrier" => gen = [t \in Threads |-> -1]
    /\ kind \notin {"mutex", "rwlock", "once"} => pc = [t \in Threads |-> "out"]

\* A futex wake reaches every waiter of its word, in both uses of a futex.
LEMMA WakesReach ==
    ASSUME Apart
    PROVE  /\ FuFits(Neighbours, 1, 1)
           /\ FuFits(SameOffset, Cardinality(Threads), Cardinality(Threads))
<1>1. Cardinality(Threads) \in Nat /\ Cardinality(Threads) <= Cardinality(Threads)
  <2>1. Cardinality(Threads) \in Nat
    BY MutexAssumption, FS_CardinalityType, Zenon
  <2> QED
    BY <2>1
<1>2. 1 \in Nat /\ 1 <= 1 /\ 1 > 0
  OBVIOUS
<1>3. NONE \notin Neighbours /\ NONE \notin SameOffset
  BY KindsAssumption, Zenon
<1> QED
  BY <1>1, <1>2, <1>3, Zenon DEF FuFits, Apart

\* Whatever the object, it starts as its own invariant asks.
LEMMA SyncInitInv ==
    ASSUME SyncInit, Apart
    PROVE  ObjectInv /\ OthersIdle
<1>1. kind \in AllKinds
  BY KindsAssumption, Zenon DEF SyncInit
<1>2. IInv /\ SemIInv /\ RwIInv /\ BrIInv /\ OnIInv
  BY InitIInv, SemInitIInv, RwInitIInv, BrInitIInv, OnInitIInv, Zenon DEF SyncInit
<1>3. kind = "futex" => FuInv(Neighbours, 1, 1)
  <2>1. kind = "futex" => FxInit
    BY DEF SyncInit
  <2> QED
    BY <2>1, WakesReach, FuInitIInv, Zenon DEF FxInit
<1>4. kind = "futex_all" => FuInv(SameOffset, Cardinality(Threads), Cardinality(Threads))
  <2>1. kind = "futex_all" => FaInit
    BY Zenon DEF SyncInit
  <2> QED
    BY <2>1, WakesReach, FuInitIInv, Zenon DEF FaInit
<1>5. /\ locked = FALSE /\ depth = [t \in Threads |-> 0] /\ pc = [t \in Threads |-> "out"]
      /\ gen = [t \in Threads |-> -1]
  BY Zenon DEF SyncInit, Init, Br!Init, Br!NotIn
<1> QED
  BY <1>1, <1>2, <1>3, <1>4, <1>5, Zenon DEF ObjectInv, OthersIdle

\* A step is one of the object that is used, and leaves the others alone.
LEMMA SyncNextInv ==
    ASSUME Apart, ObjectInv, OthersIdle, [SyncNext]_sync_vars
    PROVE  ObjectInv' /\ OthersIdle'
<1>1. CASE MutexOnly /\ Next
  <2>1. kind' = "mutex" /\ gen' = gen /\ kind = "mutex"
    BY <1>1, Zenon DEF MutexOnly, barrier_vars
  <2>2. IInv'
    BY <1>1, <2>1, NextIInv, Zenon DEF ObjectInv
  <2>3. gen' = [t \in Threads |-> -1]
    BY <2>1 DEF OthersIdle
  <2> QED
    BY <2>1, <2>2, <2>3 DEF ObjectInv, OthersIdle, AllKinds
<1>2. CASE SemOnly /\ Sm!Next
  <2>1. kind' = "semaphore" /\ kind = "semaphore" /\ gen' = gen /\ pc' = pc /\ locked' = locked /\ depth' = depth
    BY <1>2, Zenon DEF SemOnly, barrier_vars, mutex_vars
  <2>2. SemIInv'
    BY <1>2, <2>1, SemNextIInv, Zenon DEF ObjectInv
  <2> QED
    BY <2>1, <2>2 DEF ObjectInv, OthersIdle, AllKinds
<1>3. CASE RwOnly /\ Rw!Next
  <2>1. kind' = "rwlock" /\ kind = "rwlock" /\ gen' = gen /\ locked' = locked /\ depth' = depth
    BY <1>3, Zenon DEF RwOnly, barrier_vars, mutex_vars
  <2>2. RwIInv'
    BY <1>3, <2>1, RwNextIInv, Zenon DEF ObjectInv
  <2> QED
    BY <2>1, <2>2 DEF ObjectInv, OthersIdle, AllKinds
<1>4. CASE BarrierOnly /\ Br!Next
  <2>1. kind' = "barrier" /\ kind = "barrier" /\ pc' = pc /\ locked' = locked /\ depth' = depth
    BY <1>4, Zenon DEF BarrierOnly, mutex_vars
  <2>2. BrIInv'
    BY <1>4, <2>1, BrNextIInv, Zenon DEF ObjectInv
  <2> QED
    BY <2>1, <2>2 DEF ObjectInv, OthersIdle, AllKinds
<1>5. CASE OnceOnly /\ On!Next
  <2>1. kind' = "once" /\ kind = "once" /\ gen' = gen /\ locked' = locked /\ depth' = depth
    BY <1>5, Zenon DEF OnceOnly, barrier_vars, mutex_vars
  <2>2. OnIInv'
    BY <1>5, <2>1, OnNextIInv, Zenon DEF ObjectInv
  <2> QED
    BY <2>1, <2>2 DEF ObjectInv, OthersIdle, AllKinds
<1>6. CASE FutexOnly("futex") /\ FxNext
  <2>1. kind' = "futex" /\ kind = "futex" /\ gen' = gen /\ pc' = pc /\ locked' = locked /\ depth' = depth
    BY <1>6, Zenon DEF FutexOnly, barrier_vars, mutex_vars
  <2>2. FuInv(Neighbours, 1, 1)'
    BY <1>6, <2>1, WakesReach, FuNextIInv, Zenon DEF ObjectInv, FxNext
  <2> QED
    BY <2>1, <2>2 DEF ObjectInv, OthersIdle, AllKinds
<1>7. CASE FutexOnly("futex_all") /\ FaNext
  <2>1. kind' = "futex_all" /\ kind = "futex_all" /\ gen' = gen /\ pc' = pc /\ locked' = locked /\ depth' = depth
    BY <1>7, Zenon DEF FutexOnly, barrier_vars, mutex_vars
  <2>2. FuInv(SameOffset, Cardinality(Threads), Cardinality(Threads))'
    BY <1>7, <2>1, WakesReach, FuNextIInv, Zenon DEF ObjectInv, FaNext
  <2> QED
    BY <2>1, <2>2 DEF ObjectInv, OthersIdle, AllKinds
<1>8. CASE UNCHANGED sync_vars
  <2>1. kind' = kind /\ gen' = gen /\ pc' = pc /\ locked' = locked /\ depth' = depth
    BY <1>8, Zenon DEF sync_vars, barrier_vars, mutex_vars
  <2>2. UNCHANGED vars /\ UNCHANGED Sm!vars /\ UNCHANGED Rw!vars
    BY <1>8, Zenon DEF sync_vars, mutex_vars, sem_vars, rw_vars, vars, Sm!vars, Rw!vars
  <2>3. UNCHANGED Br!vars /\ UNCHANGED On!vars
    BY <1>8, Zenon DEF sync_vars, barrier_vars, once_vars, Br!vars, On!vars
  <2>4. UNCHANGED (Fu(Neighbours, 1, 1)!vars)
    BY <1>8, Zenon DEF sync_vars, futex_vars, Fu!vars
  <2>5. UNCHANGED (Fu(SameOffset, Cardinality(Threads), Cardinality(Threads))!vars)
    BY <1>8, Zenon DEF sync_vars, futex_vars, Fu!vars
  <2>6. (kind = "mutex" => IInv') /\ (kind = "semaphore" => SemIInv') /\ (kind = "rwlock" => RwIInv')
    BY <2>2, NextIInv, SemNextIInv, RwNextIInv, Zenon DEF ObjectInv
  <2>7. (kind = "barrier" => BrIInv') /\ (kind = "once" => OnIInv')
    BY <2>3, BrNextIInv, OnNextIInv, Zenon DEF ObjectInv
  <2>8. kind = "futex" => FuInv(Neighbours, 1, 1)'
    BY <2>4, WakesReach, FuNextIInv, Zenon DEF ObjectInv
  <2>9. kind = "futex_all" => FuInv(SameOffset, Cardinality(Threads), Cardinality(Threads))'
    BY <2>5, WakesReach, FuNextIInv, Zenon DEF ObjectInv
  <2> QED
    BY <2>1, <2>6, <2>7, <2>8, <2>9 DEF ObjectInv, OthersIdle
<1> QED
  BY <1>1, <1>2, <1>3, <1>4, <1>5, <1>6, <1>7, <1>8, Zenon DEF SyncNext

\* The invariant of the object in use says all that is promised of it.
LEMMA SyncEnough ==
    ASSUME Apart, ObjectInv, OthersIdle
    PROVE  OnItsQueue /\ ObjectSound /\ MutualExclusion /\ NoLostWakeup
<1>1. CASE kind = "mutex"
  <2>1. IInv
    BY <1>1, Zenon DEF ObjectInv
  <2>2. TypeOK /\ QueuesExact /\ MutualExclusion /\ NoLostWakeup
    BY <2>1, Zenon DEF IInv
  <2> QED
    BY <1>1, <2>2 DEF OnItsQueue, ObjectSound
<1>2. ASSUME kind # "mutex", \A t \in Threads : pc[t] \notin {"lock", "relock"}, blocked \subseteq Threads
      PROVE  MutualExclusion /\ NoLostWakeup
  <2>1. locked = FALSE /\ \A t \in Threads : depth[t] = 0
    BY <1>2, Zenon DEF OthersIdle
  <2>2. MutualExclusion
    BY <2>1 DEF MutualExclusion
  <2>3. NoLostWakeup
    BY <1>2, Zenon DEF NoLostWakeup
  <2> QED
    BY <2>2, <2>3, Zenon
<1>3. kind \notin {"mutex", "rwlock", "once"} => \A t \in Threads : pc[t] \notin {"lock", "relock"}
  BY DEF OthersIdle
<1>4. CASE kind = "semaphore"
  <2>1. Sm!TypeOK /\ Sm!QueueExact /\ Sm!NoUnclaimedUnit
    BY <1>4, Zenon DEF ObjectInv, SemIInv
  <2>2. blocked \subseteq Threads
    BY <2>1 DEF Sm!TypeOK
  <2>3. OnItsQueue /\ ObjectSound
    BY <1>4, <2>1 DEF OnItsQueue, ObjectSound
  <2> QED
    BY <1>2, <1>3, <1>4, <2>2, <2>3
<1>5. CASE kind = "rwlock"
  <2>1. Rw!TypeOK /\ Rw!Exclusion /\ Rw!WritersCounted /\ Rw!NobodyStranded
    BY <1>5, RwEnough, Zenon DEF ObjectInv, RwIInv
  <2>2. blocked \subseteq Threads /\ \A t \in Threads : pc[t] \notin {"lock", "relock"}
    <3>1. blocked \subseteq Threads /\ pc \in [Threads -> {"out", "rd", "wr", "reader", "writer"}]
      BY <2>1, Zenon DEF Rw!TypeOK
    <3> QED
      BY <3>1
  <2>3. OnItsQueue /\ ObjectSound
    BY <1>5, <2>1 DEF OnItsQueue, ObjectSound
  <2> QED
    BY <1>2, <1>5, <2>2, <2>3
<1>6. CASE kind = "barrier"
  <2>1. Br!TypeOK /\ Br!FullGenerations /\ Br!NobodyLeftBehind
    BY <1>6, Zenon DEF ObjectInv, BrIInv
  <2>2. blocked \subseteq Threads
    BY <2>1 DEF Br!TypeOK
  <2>3. OnItsQueue /\ ObjectSound
    BY <1>6, <2>1 DEF OnItsQueue, ObjectSound
  <2> QED
    BY <1>2, <1>3, <1>6, <2>2, <2>3
<1>7. CASE kind = "once"
  <2>1. On!TypeOK /\ On!ReturnsAfterInit
    BY <1>7, Zenon DEF ObjectInv, OnIInv, OnFlags, On!ReturnsAfterInit
  <2>2. blocked \subseteq Threads /\ \A t \in Threads : pc[t] \notin {"lock", "relock"}
    <3>1. blocked \subseteq Threads /\ pc \in [Threads -> {"out", "init", "wait", "back"}]
      BY <2>1, Zenon DEF On!TypeOK
    <3> QED
      BY <3>1
  <2>3. OnItsQueue /\ ObjectSound
    BY <1>7, <2>1 DEF OnItsQueue, ObjectSound
  <2> QED
    BY <1>2, <1>7, <2>2, <2>3
<1>8. CASE kind = "futex"
  <2>1. /\ Fu(Neighbours, 1, 1)!TypeOK /\ Fu(Neighbours, 1, 1)!BucketsExact
        /\ Fu(Neighbours, 1, 1)!NoWakeupLost
    BY <1>8, WakesReach, FuEnough, Zenon DEF ObjectInv
  <2>2. blocked \subseteq Threads
    BY <2>1, Zenon DEF Fu!TypeOK
  <2>3. OnItsQueue /\ ObjectSound
    BY <1>8, <2>1 DEF OnItsQueue, ObjectSound
  <2> QED
    BY <1>2, <1>3, <1>8, <2>2, <2>3
<1>9. CASE kind = "futex_all"
  <2> DEFINE C == Cardinality(Threads)
  <2>1. Fu(SameOffset, C, C)!TypeOK /\ Fu(SameOffset, C, C)!BucketsExact /\ Fu(SameOffset, C, C)!NoWakeupLost
    BY <1>9, WakesReach, FuEnough, Zenon DEF ObjectInv
  <2>2. blocked \subseteq Threads
    BY <2>1, Zenon DEF Fu!TypeOK
  <2>3. OnItsQueue /\ ObjectSound
    BY <1>9, <2>1 DEF OnItsQueue, ObjectSound
  <2> QED
    BY <1>2, <1>3, <1>9, <2>2, <2>3
<1> QED
  BY <1>1, <1>4, <1>5, <1>6, <1>7, <1>8, <1>9 DEF ObjectInv, AllKinds

\* Of every kind of object: sleepers are on the queue their wake-up comes through, the object
\* does what it is for and nobody sleeps on with nobody left to wake it (kernel/pthread,
\* kernel/futex.c), for any number of threads, any mutex, semaphore, barrier and words.
THEOREM ObjectsSound ==
    ASSUME Apart
    PROVE  SyncSpec => [](OnItsQueue /\ ObjectSound /\ MutualExclusion /\ NoLostWakeup)
<1>1. SyncInit => ObjectInv /\ OthersIdle
  BY SyncInitInv, Zenon
<1>2. ObjectInv /\ OthersIdle /\ [SyncNext]_sync_vars => ObjectInv' /\ OthersIdle'
  BY SyncNextInv, Zenon
<1>3. ObjectInv /\ OthersIdle => OnItsQueue /\ ObjectSound /\ MutualExclusion /\ NoLostWakeup
  BY SyncEnough, Zenon
<1> QED
  BY <1>1, <1>2, <1>3, PTL DEF SyncSpec

\* No step of any object breaks what a step may not do: a signal misses no sleeper, no reader
\* passes a waiting writer, nobody leaves a barrier early.
LEMMA SyncStep ==
    ASSUME ObjectInv, OthersIdle, [SyncNext]_sync_vars, ObjectInv', OthersIdle'
    PROVE  /\ pthread_cond_signal /\ CondWaiters # {}
                => \E t \in CondWaiters : CondWaiters' = CondWaiters \ {t} /\ timed'[t] = 0
           /\ Rw!Holders("wr") # {} => Rw!Holders("reader")' \subseteq Rw!Holders("reader")
           /\ \A t \in Threads : gen[t] # -1 /\ gen'[t] = -1 => gen[t] < generation
<1>0. kind' = kind
  BY Zenon DEF SyncNext, sync_vars, MutexOnly, SemOnly, RwOnly, BarrierOnly, OnceOnly, FutexOnly
<1>1. blocked \subseteq Threads /\ (kind # "mutex" => \A t \in Threads : pc[t] # "cond")
  <2>1. CASE kind = "mutex"
    BY <2>1, Zenon DEF ObjectInv, IInv, TypeOK
  <2>2. CASE kind = "semaphore"
    BY <2>2 DEF ObjectInv, SemIInv, Sm!TypeOK, OthersIdle
  <2>3. CASE kind = "rwlock"
    <3>1. blocked \subseteq Threads /\ pc \in [Threads -> {"out", "rd", "wr", "reader", "writer"}]
      BY <2>3, Zenon DEF ObjectInv, RwIInv, Rw!TypeOK
    <3> QED
      BY <3>1
  <2>4. CASE kind = "barrier"
    BY <2>4 DEF ObjectInv, BrIInv, Br!TypeOK, OthersIdle
  <2>5. CASE kind = "once"
    <3>1. blocked \subseteq Threads /\ pc \in [Threads -> {"out", "init", "wait", "back"}]
      BY <2>5, Zenon DEF ObjectInv, OnIInv, On!TypeOK
    <3> QED
      BY <3>1
  <2>6. CASE kind = "futex"
    <3>1. blocked \subseteq Threads
      BY <2>6, Zenon DEF ObjectInv, FuInv, FuIInv, FuTypes
    <3> QED
      BY <2>6, <3>1 DEF OthersIdle
  <2>7. CASE kind = "futex_all"
    <3>1. blocked \subseteq Threads
      BY <2>7, Zenon DEF ObjectInv, FuInv, FuIInv, FuTypes
    <3> QED
      BY <2>7, <3>1 DEF OthersIdle
  <2> QED
    BY <2>1, <2>2, <2>3, <2>4, <2>5, <2>6, <2>7 DEF ObjectInv, AllKinds
<1>2. pthread_cond_signal /\ CondWaiters # {}
        => \E t \in CondWaiters : CondWaiters' = CondWaiters \ {t} /\ timed'[t] = 0
  <2>1. CASE kind = "mutex"
    BY <2>1, CondSignalStep, Zenon DEF ObjectInv
  <2>2. CASE kind # "mutex"
    BY <1>1, <2>2, Zenon DEF CondWaiters
  <2> QED
    BY <2>1, <2>2, Zenon
<1>3. Rw!Holders("wr") # {} => Rw!Holders("reader")' \subseteq Rw!Holders("reader")
  <2>1. CASE kind = "rwlock"
    <3>1. Rw!Next \/ UNCHANGED Rw!vars
      <4>1. CASE RwOnly /\ Rw!Next
        BY <4>1, Zenon
      <4>2. CASE UNCHANGED sync_vars
        BY <4>2, Zenon DEF sync_vars, rw_vars, Rw!vars
      <4> QED
        BY <2>1, <4>1, <4>2 DEF SyncNext, MutexOnly, SemOnly, BarrierOnly, OnceOnly, FutexOnly
    <3> QED
      BY <2>1, <3>1, RwStepPrefers, Zenon DEF ObjectInv
  <2>2. CASE kind # "rwlock"
    <3>1. \A t \in Threads : pc'[t] # "reader"
      <4>1. CASE kind = "mutex"
        <5>1. pc' \in [Threads -> {"out", "lock", "cond", "relock"}]
          BY <1>0, <4>1, Zenon DEF ObjectInv, IInv, TypeOK
        <5> QED
          BY <5>1
      <4>2. CASE kind = "once"
        <5>1. pc' \in [Threads -> {"out", "init", "wait", "back"}]
          BY <1>0, <4>2, Zenon DEF ObjectInv, OnIInv, On!TypeOK
        <5> QED
          BY <5>1
      <4>3. CASE kind \notin {"mutex", "rwlock", "once"}
        <5>1. pc' = [t \in Threads |-> "out"]
          BY <1>0, <4>3, Zenon DEF OthersIdle
        <5> QED
          BY <5>1
      <4> QED
        BY <2>2, <4>1, <4>2, <4>3, Zenon
    <3> QED
      BY <3>1, Zenon DEF Rw!Holders
  <2> QED
    BY <2>1, <2>2, Zenon
<1>4. \A t \in Threads : gen[t] # -1 /\ gen'[t] = -1 => gen[t] < generation
  <2>1. CASE kind = "barrier"
    <3>1. Br!Next \/ UNCHANGED Br!vars
      <4>1. CASE BarrierOnly /\ Br!Next
        BY <4>1, Zenon
      <4>2. CASE UNCHANGED sync_vars
        BY <4>2, Zenon DEF sync_vars, barrier_vars, Br!vars
      <4> QED
        BY <2>1, <4>1, <4>2 DEF SyncNext, MutexOnly, SemOnly, RwOnly, OnceOnly, FutexOnly
    <3> QED
      BY <2>1, <3>1, BrNextIInv, Zenon DEF ObjectInv
  <2>2. CASE kind # "barrier"
    BY <2>2, Zenon DEF OthersIdle
  <2> QED
    BY <2>1, <2>2, Zenon
<1> QED
  BY <1>2, <1>3, <1>4, Zenon

\* pthread_cond_signal wakes a sleeper if there is one, pthread_rwlock_rdlock admits no reader
\* while a writer waits, nobody leaves pthread_barrier_wait before its generation is over.
THEOREM ObjectStepsKept ==
    ASSUME Apart
    PROVE  SyncSpec => StepsKept
<1> DEFINE A == pthread_cond_signal /\ CondWaiters # {}
                  => \E t \in CondWaiters : CondWaiters' = CondWaiters \ {t} /\ timed'[t] = 0
           B == Rw!Holders("wr") # {} => Rw!Holders("reader")' \subseteq Rw!Holders("reader")
           C == \A t \in Threads : gen[t] # Br!NotIn /\ gen'[t] = Br!NotIn => gen[t] < generation
<1>1. SyncInit => ObjectInv /\ OthersIdle
  BY SyncInitInv, Zenon
<1>2. ObjectInv /\ OthersIdle /\ [SyncNext]_sync_vars => ObjectInv' /\ OthersIdle'
  BY SyncNextInv, Zenon
<1>3. ObjectInv /\ OthersIdle /\ [SyncNext]_sync_vars => A /\ B /\ C
  BY <1>2, SyncStep, Zenon DEF Br!NotIn
<1> HIDE DEF A, B, C
<1>4. ObjectInv /\ OthersIdle /\ [SyncNext]_sync_vars => [A]_vars /\ [B]_Rw!vars /\ [C]_Br!vars
  BY <1>3, Zenon
<1>5. SyncSpec => [][A]_vars /\ [][B]_Rw!vars /\ [][C]_Br!vars
  BY <1>1, <1>2, <1>4, PTL DEF SyncSpec
<1> QED
  BY <1>5 DEF StepsKept, SignalReachesSleeper, Rw!WritersPreferred, Br!NobodyLeavesEarly, A, B, C

-----------------------------------------------------------------------------
(* The instances for TLC. *)
AllTypes == {"NORMAL", "RECURSIVE", "ERRORCHECK"}
FutexKind == {"futex"}
\* Two words of one page, four bytes apart, and the same offset of two pages.
MCNeighbours == {4096, 4100}
MCSameOffset == {4096, 8192}
=============================================================================
