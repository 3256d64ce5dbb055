---------------------------- MODULE SyncProofs ----------------------------
(***************************************************************************)
(* The synchronisation objects of pthread.c and semaphore.c, for any       *)
(* number of threads: mutexes and condition variables of any type and      *)
(* nesting, semaphores of any value, readers-writer locks, barriers and    *)
(* pthread_once.  Each has an inductive invariant of its own, from which   *)
(* its safety and the absence of lost wake-ups follow.  The steps of the   *)
(* futex are here too; MCSync draws the conclusion for its words.          *)
(***************************************************************************)
EXTENDS Mutex, NaturalsInduction, WellFoundedInduction, FiniteSetTheorems, TLAPS

-----------------------------------------------------------------------------
(* What the operations of WaitQueue promise, for queues of any length. *)

\* < is a well-founded order of the naturals.
LEMMA NatOrder ==
    \E R : IsWellFoundedOn(R, Nat) /\ \A x, y \in Nat : y < x => <<y, x>> \in R
<1>1. IsWellFoundedOn(OpToRel(<, Nat), Nat)
  BY NatLessThanWellFounded
<1>2. \A x, y \in Nat : y < x => <<y, x>> \in OpToRel(<, Nat)
  BY DEF OpToRel
<1> QED
  BY <1>1, <1>2, Zenon

\* A nonempty set of naturals has a least element.
LEMMA LeastElement ==
    ASSUME NEW S, S \subseteq Nat, S # {}
    PROVE  \E x \in S : \A y \in S : x <= y
<1>1. PICK R : IsWellFoundedOn(R, Nat) /\ \A x, y \in Nat : y < x => <<y, x>> \in R
  BY NatOrder
<1>2. PICK x \in S : \A y \in S : ~ (<<y, x>> \in R)
  BY <1>1, WFMin
<1>3. ASSUME NEW y \in S
      PROVE  x <= y
  <2>1. x \in Nat /\ y \in Nat
    OBVIOUS
  <2>2. ~(y < x)
    BY <1>1, <1>2, <2>1, Zenon
  <2> QED
    BY <2>1, <2>2
<1> QED
  BY <1>3

\* There is at most one first BLOCKED node, and there is one when some node is
\* BLOCKED: wq_wake_one cannot miss it, whatever stale nodes precede it.
LEMMA FirstLiveExists ==
    ASSUME NEW T, NEW s \in Seq(T), NEW B, Nodes(s) \cap B # {}
    PROVE  \E i \in DOMAIN s : FirstLive(s, B) = {i} /\ s[i] \in B
<1> DEFINE L == {k \in DOMAIN s : s[k] \in B}
<1>1. L \subseteq Nat /\ L # {}
  BY DEF Nodes
<1>2. PICK i \in L : \A k \in L : i <= k
  BY <1>1, LeastElement
<1>3. \A k \in FirstLive(s, B) : k = i
  <2>1. SUFFICES ASSUME NEW k \in DOMAIN s, s[k] \in B, \A j \in 1..(k - 1) : s[j] \notin B
                 PROVE  k = i
    BY DEF FirstLive
  <2>2. i <= k
    BY <1>2, <2>1
  <2>3. ~(i < k)
    BY <1>2, <2>1
  <2> QED
    BY <2>2, <2>3, <1>1
<1>4. i \in FirstLive(s, B)
  BY <1>2 DEF FirstLive
<1> QED
  BY <1>2, <1>3, <1>4

\* A queue with no BLOCKED thread has no first one: wq_wake_one empties it and wakes nobody.
LEMMA FirstLiveNone ==
    ASSUME NEW T, NEW s \in Seq(T), NEW B, Nodes(s) \cap B = {}
    PROVE  FirstLive(s, B) = {}
BY DEF FirstLive, Nodes

\* wq_wake_one wakes one BLOCKED thread of the queue if there is any, and no
\* other node that is BLOCKED leaves the queue.
LEMMA WakeOneFacts ==
    ASSUME NEW T, NEW s \in Seq(T), NEW B, Distinct(s)
    PROVE  /\ WakeOne(s, B) \subseteq Nodes(s) \cap B
           /\ Nodes(s) \cap B # {} => \E t \in Nodes(s) \cap B : WakeOne(s, B) = {t}
           /\ AfterWakeOne(s, B) \in Seq(T)
           /\ Distinct(AfterWakeOne(s, B))
           /\ Nodes(AfterWakeOne(s, B)) \subseteq Nodes(s)
           /\ (Nodes(s) \cap B) \ WakeOne(s, B) \subseteq Nodes(AfterWakeOne(s, B))
           /\ WakeOne(s, B) \cap Nodes(AfterWakeOne(s, B)) = {}
<1>1. CASE Nodes(s) \cap B = {}
  <2>1. FirstLive(s, B) = {}
    BY <1>1, FirstLiveNone
  <2>2. AfterWakeOne(s, B) = <<>> /\ WakeOne(s, B) = {}
    BY <2>1 DEF AfterWakeOne, WakeOne
  <2> QED
    BY <2>2, <1>1 DEF Distinct, Nodes
<1>2. CASE Nodes(s) \cap B # {}
  <2>1. PICK i \in DOMAIN s : FirstLive(s, B) = {i} /\ s[i] \in B
    BY <1>2, FirstLiveExists
  <2>2. \A j \in 1..(i - 1) : s[j] \notin B
    BY <2>1 DEF FirstLive
  <2>3. (CHOOSE k \in FirstLive(s, B) : TRUE) = i
    BY <2>1
  <2>4. WakeOne(s, B) = {s[i]}
    BY <2>1 DEF WakeOne
  <2> DEFINE r == SubSeq(s, i + 1, Len(s))
  <2>5. AfterWakeOne(s, B) = r
    BY <2>1, <2>3 DEF AfterWakeOne
  <2>6. i \in 1..Len(s) /\ Len(s) \in Nat
    OBVIOUS
  <2>7. /\ r \in Seq(T) /\ Len(r) = Len(s) - i
        /\ \A k \in 1..(Len(s) - i) : r[k] = s[k + i]
    BY <2>6
  <2>8. DOMAIN r = 1..(Len(s) - i)
    BY <2>7
  <2> HIDE DEF r
  <2>9. Distinct(r)
    <3>1. ASSUME NEW a \in DOMAIN r, NEW b \in DOMAIN r, r[a] = r[b]
          PROVE  a = b
      <4>1. a + i \in DOMAIN s /\ b + i \in DOMAIN s /\ s[a + i] = s[b + i]
        BY <2>6, <2>7, <2>8, <3>1
      <4>2. a + i = b + i
        BY <4>1 DEF Distinct
      <4> QED
        BY <4>2, <2>8
    <3> QED
      BY <3>1 DEF Distinct
  <2>10. \A k \in DOMAIN r : k + i \in DOMAIN s /\ k + i # i /\ r[k] = s[k + i]
    BY <2>6, <2>7, <2>8
  <2>11. Nodes(r) \subseteq Nodes(s) /\ s[i] \notin Nodes(r)
    BY <2>10 DEF Nodes, Distinct
  <2>12. ASSUME NEW j \in DOMAIN s, s[j] \in B, j # i
         PROVE  s[j] \in Nodes(r)
    <3>1. j > i
      BY <2>2, <2>6, <2>12
    <3>2. j - i \in DOMAIN r /\ r[j - i] = s[j]
      BY <3>1, <2>6, <2>7, <2>8
    <3> QED
      BY <3>2 DEF Nodes
  <2>13. (Nodes(s) \cap B) \ {s[i]} \subseteq Nodes(r)
    BY <2>12 DEF Nodes
  <2>14. s[i] \in Nodes(s) \cap B
    BY <2>1 DEF Nodes
  <2> QED
    BY <2>4, <2>5, <2>7, <2>9, <2>11, <2>13, <2>14
<1> QED
  BY <1>1, <1>2

\* wq_remove takes exactly t off the queue.
LEMMA UnlinkedFacts ==
    ASSUME NEW T, NEW s \in Seq(T), NEW t, Distinct(s)
    PROVE  /\ Unlinked(s, t) \in Seq(T)
           /\ Distinct(Unlinked(s, t))
           /\ Nodes(Unlinked(s, t)) = Nodes(s) \ {t}
<1>1. CASE t \notin Nodes(s)
  BY <1>1 DEF Unlinked
<1>2. CASE t \in Nodes(s)
  <2> DEFINE i == CHOOSE k \in DOMAIN s : s[k] = t
             u == [j \in 1..(Len(s) - 1) |-> IF j < i THEN s[j] ELSE s[j + 1]]
  <2>1. i \in DOMAIN s /\ s[i] = t
    BY <1>2 DEF Nodes
  <2>2. Unlinked(s, t) = u
    BY <1>2 DEF Unlinked
  <2> HIDE DEF i
  <2>3. Len(s) - 1 \in Nat /\ \A j \in 1..(Len(s) - 1) : u[j] \in T
    BY <2>1
  <2>4. u \in Seq(T)
    BY <2>3
  <2>5. DOMAIN u = 1..(Len(s) - 1)
    OBVIOUS
  <2>6. Distinct(u)
    BY <2>1, <2>3, <2>5 DEF Distinct
  <2>7. \A j \in DOMAIN u : u[j] \in Nodes(s) /\ u[j] # t
    BY <2>1, <2>3, <2>5 DEF Nodes, Distinct
  <2>8. ASSUME NEW k \in DOMAIN s, s[k] # t
        PROVE  s[k] \in Nodes(u)
    <3>1. CASE k < i
      <4>1. k \in DOMAIN u /\ u[k] = s[k]
        BY <3>1, <2>1, <2>5
      <4> QED
        BY <4>1 DEF Nodes
    <3>2. CASE k > i
      <4>1. k - 1 \in DOMAIN u /\ u[k - 1] = s[k]
        BY <3>2, <2>1, <2>5
      <4> QED
        BY <4>1 DEF Nodes
    <3>3. k # i
      BY <2>1, <2>8
    <3> QED
      BY <3>1, <3>2, <3>3, <2>1
  <2>9. Nodes(u) = Nodes(s) \ {t}
    BY <2>7, <2>8 DEF Nodes
  <2> HIDE DEF u
  <2> QED
    BY <2>2, <2>4, <2>6, <2>9
<1> QED
  BY <1>1, <1>2

\* A thread that was not on the queue is appended to it.
LEMMA AppendFacts ==
    ASSUME NEW T, NEW s \in Seq(T), NEW t \in T, Distinct(s), t \notin Nodes(s)
    PROVE  /\ Append(s, t) \in Seq(T)
           /\ Distinct(Append(s, t))
           /\ Nodes(Append(s, t)) = Nodes(s) \cup {t}
<1> DEFINE u == Append(s, t)
<1>1. /\ u \in Seq(T) /\ DOMAIN u = 1..(Len(s) + 1) /\ Len(s) \in Nat
      /\ u[Len(s) + 1] = t /\ \A i \in 1..Len(s) : u[i] = s[i]
  OBVIOUS
<1>2. DOMAIN s = 1..Len(s)
  OBVIOUS
<1> HIDE DEF u
<1>3. \A i \in DOMAIN s : s[i] # t
  BY DEF Nodes
<1>4. Distinct(u)
  BY <1>1, <1>2, <1>3 DEF Distinct
<1>5. Nodes(u) = Nodes(s) \cup {t}
  <2>1. Nodes(u) \subseteq Nodes(s) \cup {t}
    BY <1>1, <1>2 DEF Nodes
  <2>2. \A i \in DOMAIN s : s[i] \in Nodes(u)
    BY <1>1, <1>2 DEF Nodes
  <2>3. t \in Nodes(u)
    <3>1. Len(s) + 1 \in DOMAIN u
      BY <1>1
    <3> QED
      BY <1>1, <3>1 DEF Nodes
  <2> QED
    BY <2>1, <2>2, <2>3 DEF Nodes
<1> QED
  BY <1>1, <1>4, <1>5 DEF u

\* A nonempty set of positions has a greatest element.
LEMMA GreatestElement ==
    ASSUME NEW n \in Nat, NEW S, S \subseteq 1..n, S # {}
    PROVE  \E x \in S : \A y \in S : y <= x
<1> DEFINE D == {n - x : x \in S}
<1>1. D \subseteq Nat /\ D # {}
  <2>1. \A x \in S : x \in 1..n
    OBVIOUS
  <2>2. \A x \in 1..n : n - x \in Nat
    OBVIOUS
  <2> QED BY <2>1, <2>2, Zenon
<1>2. PICK d \in D : \A e \in D : d <= e
  BY <1>1, LeastElement
<1>3. PICK x \in S : d = n - x
  BY <1>2
<1>4. \A y \in S : n - x <= n - y
  BY <1>2, <1>3
<1>5. ASSUME NEW y \in S
      PROVE  y <= x
  <2>1. n - x <= n - y /\ x \in Int /\ y \in Int
    BY <1>4
  <2> QED BY <2>1
<1> QED BY <1>5

\* What is left of a queue when its first k nodes are popped.
LEMMA SuffixFacts ==
    ASSUME NEW T, NEW s \in Seq(T), Distinct(s), NEW k \in DOMAIN s
    PROVE  LET r == SubSeq(s, 1 + k, Len(s))
           IN  r \in Seq(T) /\ Distinct(r) /\ Nodes(r) \subseteq Nodes(s)
<1> DEFINE r == SubSeq(s, 1 + k, Len(s))
<1>1. k \in 1..Len(s) /\ Len(s) \in Nat
  OBVIOUS
<1>2. /\ r \in Seq(T) /\ Len(r) = Len(s) - k
      /\ \A i \in 1..(Len(s) - k) : r[i] = s[i + k]
  BY <1>1
<1>3. DOMAIN r = 1..(Len(s) - k)
  BY <1>2
<1> HIDE DEF r
<1>4. \A i \in DOMAIN r : i + k \in DOMAIN s /\ r[i] = s[i + k] /\ i \in Int
  BY <1>1, <1>2, <1>3
<1>5. Distinct(r)
  <2> SUFFICES ASSUME NEW a \in DOMAIN r, NEW b \in DOMAIN r, r[a] = r[b] PROVE a = b
    BY Zenon DEF Distinct
  <2>1. a + k = b + k
    BY <1>4 DEF Distinct
  <2> QED BY <2>1, <1>1, <1>4
<1>6. Nodes(r) \subseteq Nodes(s)
  BY <1>4 DEF Nodes
<1> QED BY <1>2, <1>5, <1>6 DEF r

\* The nodes of B before one of them on a queue are fewer than any finite set that has them all.
LEMMA CountBefore ==
    ASSUME NEW T, NEW s \in Seq(T), Distinct(s), NEW B, NEW F, IsFiniteSet(F),
           \A j \in DOMAIN s : s[j] \in B => s[j] \in F, NEW i \in DOMAIN s, s[i] \in B
    PROVE  Cardinality({j \in 1..(i - 1) : s[j] \in B}) < Cardinality(F)
<1> DEFINE J == {j \in 1..(i - 1) : s[j] \in B}
           G == F \ {s[i]}
           f == [j \in J |-> s[j]]
<1>1. \A j \in J : j \in DOMAIN s /\ j # i
  OBVIOUS
<1>2. s[i] \in F
  OBVIOUS
<1>3. IsFiniteSet(G) /\ Cardinality(G) = Cardinality(F) - 1 /\ Cardinality(F) \in Nat
  BY <1>2, FS_RemoveElement, FS_CardinalityType
<1>4. \A j \in J : s[j] \in G
  BY <1>1 DEF Distinct
<1>5. f \in Injection(J, G)
  <2>1. f \in [J -> G]
    BY <1>4
  <2>2. \A a, b \in J : f[a] = f[b] => a = b
    BY <1>1 DEF Distinct
  <2> QED BY <2>1, <2>2 DEF Injection, IsInjective
<1>6. IsFiniteSet(J) /\ Cardinality(J) <= Cardinality(G)
  <2> HIDE DEF f, J, G
  <2> QED BY <1>3, <1>5, FS_Injection, Zenon
<1>7. Cardinality(J) \in Nat
  BY <1>6, FS_CardinalityType
<1> QED BY <1>3, <1>6, <1>7

\* What wake-ups of the positions F leave of a queue: nothing if they are fewer than the n asked
\* for, else what follows the last of them.
Popped(s, F, n) ==
    IF Cardinality(F) < n THEN <<>>
    ELSE SubSeq(s, 1 + CHOOSE i \in F : \A j \in F : j <= i, Len(s))

\* Wake-ups leave a queue of the same nodes, or fewer, none of them twice.
LEMMA PopFacts ==
    ASSUME NEW T, NEW s \in Seq(T), Distinct(s), NEW n \in Nat \ {0}, NEW F, F \subseteq DOMAIN s
    PROVE  LET r == Popped(s, F, n)
           IN  r \in Seq(T) /\ Distinct(r) /\ Nodes(r) \subseteq Nodes(s)
<1> DEFINE k == CHOOSE i \in F : \A j \in F : j <= i
           r == Popped(s, F, n)
<1>1. CASE Cardinality(F) < n
  <2>1. r = <<>>
    BY <1>1, Zenon DEF Popped
  <2> HIDE DEF r
  <2>2. r \in Seq(T) /\ Distinct(r) /\ Nodes(r) \subseteq Nodes(s)
    BY <2>1 DEF Distinct, Nodes
  <2> QED BY <2>2 DEF r
<1>2. CASE ~(Cardinality(F) < n)
  <2>1. F # {}
    <3>1. Cardinality({}) = 0
      BY FS_EmptySet, Zenon
    <3>2. 0 < n
      OBVIOUS
    <3> QED BY <1>2, <3>1, <3>2, Zenon
  <2>2. F \subseteq 1..Len(s) /\ Len(s) \in Nat
    OBVIOUS
  <2>3. \E i \in F : \A j \in F : j <= i
    BY <2>1, <2>2, GreatestElement, Zenon
  <2>4. k \in DOMAIN s
    BY <2>3, Zenon
  <2>5. r = SubSeq(s, 1 + k, Len(s))
    BY <1>2, Zenon DEF Popped
  <2> HIDE DEF k, r
  <2>6. r \in Seq(T) /\ Distinct(r) /\ Nodes(r) \subseteq Nodes(s)
    BY <2>4, <2>5, SuffixFacts
  <2> QED BY <2>6 DEF k, r
<1> QED BY <1>1, <1>2

\* Up to n wake-ups in a row reach every node of B if a set of at most n has them all.
LEMMA WakeNFacts ==
    ASSUME NEW T, NEW s \in Seq(T), Distinct(s), NEW B, NEW n \in Nat \ {0},
           NEW S, IsFiniteSet(S), Cardinality(S) <= n, \A t \in Nodes(s) \cap B : t \in S
    PROVE  LET F == {i \in DOMAIN s :
                        s[i] \in B /\ Cardinality({j \in 1..(i - 1) : s[j] \in B}) < n}
           IN  F \subseteq DOMAIN s /\ {s[i] : i \in F} = Nodes(s) \cap B
<1> DEFINE P(i) == {j \in 1..(i - 1) : s[j] \in B}
           F == {i \in DOMAIN s : s[i] \in B /\ Cardinality(P(i)) < n}
<1>1. ASSUME NEW i \in DOMAIN s, s[i] \in B
      PROVE  i \in F
  <2>1. \A j \in DOMAIN s : s[j] \in B => s[j] \in S
    BY Zenon DEF Nodes
  <2>2. Cardinality(P(i)) < Cardinality(S)
    BY <1>1, <2>1, CountBefore
  <2>3. Cardinality(S) \in Nat /\ Cardinality(P(i)) \in Nat
    <3>1. IsFiniteSet(1..(i - 1)) /\ P(i) \subseteq 1..(i - 1)
      BY FS_Interval
    <3> QED BY <3>1, FS_Subset, FS_CardinalityType
  <2>4. Cardinality(P(i)) < n
    <3> HIDE DEF P
    <3> QED BY <2>2, <2>3
  <2> QED BY <1>1, <2>4
<1>2. \A i \in F : i \in DOMAIN s /\ s[i] \in B
  OBVIOUS
<1> HIDE DEF P, F
<1>3. {s[i] : i \in F} = Nodes(s) \cap B
  BY <1>1, <1>2 DEF Nodes
<1>4. F \subseteq DOMAIN s
  BY <1>2, Zenon
<1> QED BY <1>3, <1>4, Zenon DEF F, P

-----------------------------------------------------------------------------
(* Mutexes and condition variables, module Mutex. *)

\* Retriers stay until one of them takes m, and every sleeper is on its queue:
\* with the types, this is inductive.
IInv == TypeOK /\ QueuesExact /\ MutualExclusion /\ NoLostWakeup

\* A mutex and a condition variable fresh from their init calls satisfy the invariant.
LEMMA InitIInv == Init => IInv
<1> SUFFICES ASSUME Init
             PROVE  IInv
  BY Zenon
<1>1. TypeOK
  <2>1. recursion \in 0..MaxRec /\ depth \in [Threads -> 0..MaxRec] /\ saved_rec \in [Threads -> 0..MaxRec]
    BY MutexAssumption DEF Init
  <2>2. locked \in BOOLEAN /\ deadline \in SUBSET Threads
    BY Zenon DEF Init
  <2>3. mwq \in Seq(Threads) /\ cwq \in Seq(Threads)
    BY DEF Init
  <2> QED
    BY <2>1, <2>2, <2>3 DEF Init, TypeOK
<1>2. QueuesExact
  BY DEF Init, QueuesExact, Nodes
<1>3. MutualExclusion /\ NoLostWakeup
  BY DEF Init, MutualExclusion, NoLostWakeup
<1> QED
  BY <1>1, <1>2, <1>3, Zenon DEF IInv

\* What QueuesExact says, in the form the queue lemmas take.
LEMMA QueueFacts ==
    ASSUME TypeOK, QueuesExact
    PROVE  /\ Distinct(mwq) /\ Distinct(cwq)
           /\ \A t \in blocked : pc[t] = "cond" => t \in Nodes(cwq)
           /\ \A t \in blocked : pc[t] # "cond" => t \in Nodes(mwq)
           /\ \A t \in blocked : pc[t] # "out"
BY Zenon DEF QueuesExact, TypeOK, Distinct

\* Taking a free mutex keeps the invariant.
LEMMA TakeIInv ==
    ASSUME IInv, NEW t \in Threads, t \notin blocked, pc[t] # "cond", Take(t)
    PROVE  IInv'
<1> USE DEF IInv
<1> DEFINE u == Unlinked(mwq, t)
<1>1. Distinct(mwq) /\ mwq \in Seq(Threads)
  BY QueueFacts, Zenon DEF TypeOK
<1>2. u \in Seq(Threads) /\ Distinct(u) /\ Nodes(u) = Nodes(mwq) \ {t}
  BY <1>1, UnlinkedFacts, Zenon
<1>3. mwq' = u
  BY Zenon DEF Take
<1> HIDE DEF u
<1>4. TypeOK'
  BY <1>2, <1>3, MutexAssumption DEF Take, TypeOK
<1>5. QueuesExact'
  <2>1. /\ Distinct(cwq) /\ \A x \in blocked : pc[x] = "cond" => x \in Nodes(cwq)
        /\ \A x \in blocked : pc[x] # "cond" => x \in Nodes(mwq)
        /\ \A x \in Nodes(mwq) : pc[x] \in {"lock", "relock"}
        /\ \A x \in Nodes(cwq) : pc[x] = "cond"
    BY QueueFacts, Zenon DEF QueuesExact
  <2>2. blocked' = blocked /\ cwq' = cwq /\ \A x \in Threads : x # t => pc'[x] = pc[x]
    BY Zenon DEF Take, TypeOK
  <2>3. blocked \subseteq Threads /\ Nodes(mwq) \subseteq Threads /\ Nodes(cwq) \subseteq Threads
    BY DEF TypeOK, Nodes
  <2> QED
    BY <1>2, <1>3, <2>1, <2>2, <2>3 DEF QueuesExact, Distinct
<1>6. MutualExclusion'
  BY DEF Take, TypeOK, MutualExclusion
<1>7. NoLostWakeup'
  BY Zenon DEF Take, NoLostWakeup
<1> QED
  BY <1>4, <1>5, <1>6, <1>7, Zenon

\* Locking a recursive mutex again keeps it.
LEMMA RelockIInv ==
    ASSUME IInv, NEW t \in Threads, Relock(t)
    PROVE  IInv'
<1> USE DEF IInv
<1>1. TypeOK'
  BY MutexAssumption DEF Relock, TypeOK, MutualExclusion
<1>2. QueuesExact'
  BY Zenon DEF Relock, QueuesExact
<1>3. MutualExclusion' /\ NoLostWakeup'
  BY DEF Relock, MutualExclusion, NoLostWakeup, TypeOK
<1> QED
  BY <1>1, <1>2, <1>3, Zenon

\* Going to sleep on the mutex keeps it: the sleeper is on wq and somebody owns the mutex.
LEMMA WaitIInv ==
    ASSUME IInv, NEW t \in Threads, t \notin blocked, pc[t] # "cond", Wait(t)
    PROVE  IInv'
<1> USE DEF IInv
<1> DEFINE u == Unlinked(mwq, t)
           a == Append(u, t)
<1>1. Distinct(mwq) /\ mwq \in Seq(Threads)
  BY QueueFacts, Zenon DEF TypeOK
<1>2. u \in Seq(Threads) /\ Distinct(u) /\ Nodes(u) = Nodes(mwq) \ {t}
  BY <1>1, UnlinkedFacts, Zenon
<1> HIDE DEF u
<1>3. a \in Seq(Threads) /\ Distinct(a) /\ Nodes(a) = Nodes(mwq) \cup {t}
  <2>1. t \notin Nodes(u)
    BY <1>2, Zenon
  <2>2. a \in Seq(Threads) /\ Distinct(a) /\ Nodes(a) = Nodes(u) \cup {t}
    BY <1>2, <2>1, AppendFacts
  <2> QED
    BY <1>2, <2>2, Zenon
<1>4. mwq' = a
  BY Zenon DEF Wait, u
<1> HIDE DEF a
<1>5. TypeOK'
  BY <1>3, <1>4, Zenon DEF Wait, TypeOK
<1>6. QueuesExact'
  <2>1. /\ Distinct(cwq) /\ \A x \in blocked : pc[x] = "cond" => x \in Nodes(cwq)
        /\ \A x \in blocked : pc[x] # "cond" => x \in Nodes(mwq)
        /\ \A x \in Nodes(mwq) : pc[x] \in {"lock", "relock"}
        /\ \A x \in Nodes(cwq) : pc[x] = "cond"
    BY QueueFacts, Zenon DEF QueuesExact
  <2>2. /\ blocked' = blocked \cup {t} /\ cwq' = cwq /\ pc'[t] \in {"lock", "relock"}
        /\ \A x \in Threads : x # t => pc'[x] = pc[x]
    BY Zenon DEF Wait, TypeOK
  <2>3. blocked \subseteq Threads /\ Nodes(mwq) \subseteq Threads /\ Nodes(cwq) \subseteq Threads
    BY DEF TypeOK, Nodes
  <2>4. t \notin Nodes(cwq)
    BY <2>1, Zenon
  <2> QED
    BY <1>3, <1>4, <2>1, <2>2, <2>3, <2>4 DEF QueuesExact, Distinct
<1>7. MutualExclusion' /\ NoLostWakeup'
  BY Zenon DEF Wait, MutualExclusion, NoLostWakeup
<1> QED
  BY <1>5, <1>6, <1>7, Zenon

\* A step that releases m and wakes the head of m->wq, by a thread that is in
\* no call, leaves a retrier behind if anybody sleeps on m.
LEMMA ReleaseFacts ==
    ASSUME IInv
    PROVE  /\ AfterWakeOne(mwq, blocked) \in Seq(Threads)
           /\ Distinct(AfterWakeOne(mwq, blocked))
           /\ Nodes(AfterWakeOne(mwq, blocked)) \subseteq Nodes(mwq)
           /\ WakeOne(mwq, blocked) \subseteq Nodes(mwq) \cap blocked
           /\ \A x \in blocked \ WakeOne(mwq, blocked) :
                 pc[x] # "cond" => x \in Nodes(AfterWakeOne(mwq, blocked))
           /\ (\E x \in blocked : pc[x] # "cond")
                 => \E w \in WakeOne(mwq, blocked) : w \in Threads /\ pc[w] \in {"lock", "relock"}
<1> USE DEF IInv
<1>1. /\ Distinct(mwq) /\ mwq \in Seq(Threads)
      /\ \A x \in blocked : pc[x] # "cond" => x \in Nodes(mwq)
  BY QueueFacts, Zenon DEF TypeOK
<1>2. \A x \in Nodes(mwq) : pc[x] \in {"lock", "relock"} /\ x \in Threads
  BY <1>1 DEF QueuesExact, Nodes
<1>3. /\ AfterWakeOne(mwq, blocked) \in Seq(Threads)
      /\ Distinct(AfterWakeOne(mwq, blocked))
      /\ Nodes(AfterWakeOne(mwq, blocked)) \subseteq Nodes(mwq)
      /\ WakeOne(mwq, blocked) \subseteq Nodes(mwq) \cap blocked
      /\ Nodes(mwq) \cap blocked # {} => \E x \in Nodes(mwq) \cap blocked : WakeOne(mwq, blocked) = {x}
      /\ (Nodes(mwq) \cap blocked) \ WakeOne(mwq, blocked) \subseteq Nodes(AfterWakeOne(mwq, blocked))
  BY <1>1, WakeOneFacts
<1> QED
  BY <1>1, <1>2, <1>3, Zenon

\* pthread_mutex_unlock keeps it: the one it wakes is the one who will retry.
LEMMA UnlockIInv ==
    ASSUME IInv, NEW t \in Threads, MayUnlock(t), pthread_mutex_unlock(t)
    PROVE  IInv'
<1> USE DEF IInv
<1>1. owner = t /\ locked /\ depth[t] = recursion /\ recursion \in Nat /\ recursion > 0
  BY DEF MayUnlock, pthread_mutex_unlock, MutualExclusion, TypeOK
<1>2. CASE type = "RECURSIVE" /\ recursion > 1
  <2>1. TypeOK'
    <3>1. recursion - 1 \in 0..MaxRec
      BY <1>2, MutexAssumption DEF TypeOK
    <3>2. recursion' = recursion - 1 /\ depth' = [depth EXCEPT ![t] = recursion - 1]
      BY <1>1, <1>2, Zenon DEF pthread_mutex_unlock
    <3>3. UNCHANGED <<type, locked, owner, mwq, blocked, cwq, pc, saved_rec, timed, deadline>>
      BY <1>1, <1>2, Zenon DEF pthread_mutex_unlock
    <3> QED
      BY <3>1, <3>2, <3>3, Zenon DEF TypeOK
  <2>2. QueuesExact'
    BY <1>1, <1>2 DEF pthread_mutex_unlock, QueuesExact
  <2>3. MutualExclusion' /\ NoLostWakeup'
    BY <1>1, <1>2 DEF pthread_mutex_unlock, MutualExclusion, NoLostWakeup, TypeOK
  <2> QED
    BY <2>1, <2>2, <2>3, Zenon
<1>3. CASE ~(type = "RECURSIVE" /\ recursion > 1)
  <2> DEFINE A == AfterWakeOne(mwq, blocked)
             W == WakeOne(mwq, blocked)
  <2>1. /\ mwq' = A /\ blocked' = blocked \ W /\ locked' = FALSE /\ owner' = NULL
        /\ recursion' = 0 /\ depth' = [depth EXCEPT ![t] = 0]
        /\ UNCHANGED <<type, cwq, pc, saved_rec, timed, deadline>>
    BY <1>1, <1>3, Zenon DEF pthread_mutex_unlock, Release
  <2>2. /\ A \in Seq(Threads) /\ Distinct(A) /\ Nodes(A) \subseteq Nodes(mwq)
        /\ W \subseteq Nodes(mwq) \cap blocked
        /\ \A x \in blocked \ W : pc[x] # "cond" => x \in Nodes(A)
        /\ (\E x \in blocked : pc[x] # "cond")
              => \E w \in W : w \in Threads /\ pc[w] \in {"lock", "relock"}
    BY ReleaseFacts, Zenon
  <2> HIDE DEF A, W
  <2>3. TypeOK'
    <3>1. 0 \in 0..MaxRec
      BY MutexAssumption
    <3>2. locked' \in BOOLEAN
      BY <2>1, Zenon
    <3> QED
      BY <2>1, <2>2, <3>1, <3>2, Zenon DEF TypeOK
  <2>4. QueuesExact'
    <3>1. /\ Distinct(cwq) /\ \A x \in blocked : pc[x] = "cond" => x \in Nodes(cwq)
          /\ \A x \in Nodes(mwq) : pc[x] \in {"lock", "relock"}
          /\ \A x \in Nodes(cwq) : pc[x] = "cond"
      BY QueueFacts, Zenon DEF QueuesExact
    <3> QED
      BY <2>1, <2>2, <3>1 DEF QueuesExact, Distinct
  <2>5. MutualExclusion'
    BY <1>1, <2>1 DEF MutualExclusion, TypeOK
  <2>6. NoLostWakeup'
    BY <2>1, <2>2, Zenon DEF NoLostWakeup, Retrying
  <2> QED
    BY <2>3, <2>4, <2>5, <2>6, Zenon
<1> QED
  BY <1>2, <1>3, Zenon

\* cond_wait_common keeps it, up to its sleep on the condition variable.
LEMMA CondWaitIInv ==
    ASSUME IInv, NEW t \in Threads, NEW d \in BOOLEAN, cond_wait_common(t, d)
    PROVE  IInv'
<1> USE DEF IInv
<1> DEFINE A == AfterWakeOne(mwq, blocked)
           W == WakeOne(mwq, blocked)
           C == Append(cwq, t)
<1>1. /\ mwq' = A /\ blocked' = (blocked \ W) \cup {t} /\ locked' = FALSE /\ owner' = NULL
      /\ recursion' = 0 /\ depth' = [depth EXCEPT ![t] = 0] /\ cwq' = C
      /\ saved_rec' = [saved_rec EXCEPT ![t] = recursion]
      /\ timed' = [timed EXCEPT ![t] = 0] /\ deadline' = IF d THEN deadline \cup {t} ELSE deadline
      /\ pc' = [pc EXCEPT ![t] = "cond"] /\ type' = type
      /\ locked /\ owner = t /\ pc[t] = "out" /\ t \notin blocked
  BY Zenon DEF cond_wait_common, Release
<1>2. /\ A \in Seq(Threads) /\ Distinct(A) /\ Nodes(A) \subseteq Nodes(mwq)
      /\ W \subseteq Nodes(mwq) \cap blocked
      /\ \A x \in blocked \ W : pc[x] # "cond" => x \in Nodes(A)
      /\ (\E x \in blocked : pc[x] # "cond")
            => \E w \in W : w \in Threads /\ pc[w] \in {"lock", "relock"}
  BY ReleaseFacts, Zenon
<1>3. /\ Distinct(cwq) /\ \A x \in blocked : pc[x] = "cond" => x \in Nodes(cwq)
      /\ \A x \in Nodes(mwq) : pc[x] \in {"lock", "relock"}
      /\ \A x \in Nodes(cwq) : pc[x] = "cond"
      /\ cwq \in Seq(Threads)
  BY QueueFacts, Zenon DEF QueuesExact, TypeOK
<1>4. t \notin Nodes(cwq) /\ t \notin Nodes(mwq)
  BY <1>1, <1>3, Zenon
<1>5. C \in Seq(Threads) /\ Distinct(C) /\ Nodes(C) = Nodes(cwq) \cup {t}
  BY <1>3, <1>4, AppendFacts
<1> HIDE DEF A, W, C
<1>6. TypeOK'
  <2>1. 0 \in 0..MaxRec
    BY MutexAssumption
  <2>2. locked' \in BOOLEAN /\ deadline' \in SUBSET Threads
    BY <1>1, Zenon DEF TypeOK
  <2> QED
    BY <1>1, <1>2, <1>5, <2>1, <2>2 DEF TypeOK
<1>7. \A x : x # t => pc'[x] = pc[x] \/ x \notin Threads
  BY <1>1, Zenon DEF TypeOK
<1>8. blocked \subseteq Threads /\ Nodes(mwq) \subseteq Threads /\ Nodes(cwq) \subseteq Threads
  BY DEF TypeOK, Nodes
<1>9. pc'[t] = "cond"
  BY <1>1, Zenon DEF TypeOK
<1>10. QueuesExact'
  BY <1>1, <1>2, <1>3, <1>4, <1>5, <1>7, <1>8, <1>9 DEF QueuesExact, Distinct
<1>11. MutualExclusion'
  BY <1>1 DEF MutualExclusion, TypeOK
<1>12. NoLostWakeup'
  <2>1. SUFFICES ASSUME NEW x \in blocked', pc'[x] \in {"lock", "relock"}
                 PROVE  \E w \in Threads : Retrying(w)'
    BY Zenon DEF NoLostWakeup
  <2>2. x \in blocked /\ pc[x] # "cond"
    BY <1>1, <1>7, <1>8, <1>9, <2>1, Zenon
  <2>3. PICK w \in W : w \in Threads /\ pc[w] \in {"lock", "relock"}
    BY <1>2, <2>2, Zenon
  <2>4. w # t /\ w \notin blocked' /\ pc'[w] = pc[w]
    BY <1>1, <1>7, <2>3, Zenon
  <2> QED
    BY <2>3, <2>4, Zenon DEF Retrying
<1> QED
  BY <1>6, <1>10, <1>11, <1>12, Zenon

\* The return from that sleep, by signal or timeout, keeps it.
LEMMA CondWokenIInv ==
    ASSUME IInv, NEW t \in Threads, cond_woken(t)
    PROVE  IInv'
<1> USE DEF IInv
<1> DEFINE C == Unlinked(cwq, t)
<1>1. /\ Distinct(cwq) /\ Distinct(mwq) /\ cwq \in Seq(Threads)
      /\ \A x \in blocked : pc[x] = "cond" => x \in Nodes(cwq)
      /\ \A x \in blocked : pc[x] # "cond" => x \in Nodes(mwq)
      /\ \A x \in Nodes(mwq) : pc[x] \in {"lock", "relock"}
      /\ \A x \in Nodes(cwq) : pc[x] = "cond"
  BY QueueFacts, Zenon DEF QueuesExact, TypeOK
<1>2. C \in Seq(Threads) /\ Distinct(C) /\ Nodes(C) = Nodes(cwq) \ {t}
  BY <1>1, UnlinkedFacts, Zenon
<1>3. cwq' = C
  BY Zenon DEF cond_woken
<1> HIDE DEF C
<1>4. TypeOK'
  BY <1>2, <1>3, Zenon DEF cond_woken, TypeOK
<1>5. blocked \subseteq Threads /\ Nodes(mwq) \subseteq Threads /\ Nodes(cwq) \subseteq Threads
  BY DEF TypeOK, Nodes
<1>6. /\ \A x \in Threads : x # t => pc'[x] = pc[x]
      /\ pc'[t] = "relock" /\ blocked' = blocked /\ mwq' = mwq /\ t \notin blocked
  BY Zenon DEF cond_woken, TypeOK
<1>7. QueuesExact'
  BY <1>1, <1>2, <1>3, <1>5, <1>6 DEF QueuesExact, Distinct
<1>8. MutualExclusion'
  BY Zenon DEF cond_woken, MutualExclusion, TypeOK
<1>9. NoLostWakeup'
  BY <1>6, Zenon DEF NoLostWakeup, Retrying
<1> QED
  BY <1>4, <1>7, <1>8, <1>9, Zenon

\* A step that only wakes threads, popping nothing but woken or stale nodes of
\* c->wq, keeps the invariant: signals, broadcasts, timeouts and interrupts.
LEMMA WakeIInv ==
    ASSUME IInv, TypeOK', UNCHANGED <<type, locked, owner, recursion, mwq, pc, depth>>,
           blocked' \subseteq blocked, Distinct(cwq'), Nodes(cwq') \subseteq Nodes(cwq),
           \A x \in blocked' : pc[x] = "cond" => x \in Nodes(cwq')
    PROVE  IInv'
<1> USE DEF IInv
<1>1. QueuesExact'
  BY QueueFacts DEF QueuesExact, Distinct
<1>2. MutualExclusion'
  BY Zenon DEF MutualExclusion
<1>3. NoLostWakeup'
  BY Zenon DEF NoLostWakeup, Retrying
<1> QED
  BY <1>1, <1>2, <1>3, Zenon

\* What pthread_cond_signal leaves on the condition's queue: distinct threads, the sleepers among them.
LEMMA SignalFacts ==
    ASSUME IInv
    PROVE  /\ AfterWakeOne(cwq, blocked) \in Seq(Threads)
           /\ Distinct(AfterWakeOne(cwq, blocked))
           /\ Nodes(AfterWakeOne(cwq, blocked)) \subseteq Nodes(cwq)
           /\ \A x \in blocked \ WakeOne(cwq, blocked) :
                 pc[x] = "cond" => x \in Nodes(AfterWakeOne(cwq, blocked))
           /\ CondWaiters # {} => \E x \in CondWaiters : WakeOne(cwq, blocked) = {x}
<1> USE DEF IInv
<1>1. /\ Distinct(cwq) /\ cwq \in Seq(Threads)
      /\ \A x \in blocked : pc[x] = "cond" => x \in Nodes(cwq)
      /\ \A x \in Nodes(cwq) : pc[x] = "cond"
  BY QueueFacts, Zenon DEF QueuesExact, TypeOK
<1>2. Nodes(cwq) \cap blocked = CondWaiters
  BY <1>1, Zenon DEF CondWaiters
<1>3. /\ AfterWakeOne(cwq, blocked) \in Seq(Threads)
      /\ Distinct(AfterWakeOne(cwq, blocked))
      /\ Nodes(AfterWakeOne(cwq, blocked)) \subseteq Nodes(cwq)
      /\ Nodes(cwq) \cap blocked # {} => \E x \in Nodes(cwq) \cap blocked : WakeOne(cwq, blocked) = {x}
      /\ (Nodes(cwq) \cap blocked) \ WakeOne(cwq, blocked) \subseteq Nodes(AfterWakeOne(cwq, blocked))
  BY <1>1, WakeOneFacts
<1> QED
  BY <1>1, <1>2, <1>3, Zenon

\* Every step of the mutex and the condition variable keeps the invariant.
LEMMA NextIInv == IInv /\ [Next]_vars => IInv'
<1> SUFFICES ASSUME IInv, [Next]_vars
             PROVE  IInv'
  BY Zenon
<1>1. ASSUME NEW t \in Threads, pthread_mutex_lock(t) \/ pthread_mutex_trylock(t)
      PROVE  IInv'
  <2>1. t \notin blocked /\ pc[t] # "cond"
    BY <1>1, Zenon DEF pthread_mutex_lock, pthread_mutex_trylock
  <2>2. Take(t) \/ Relock(t) \/ Wait(t)
    BY <1>1, Zenon DEF pthread_mutex_lock, pthread_mutex_trylock
  <2> QED
    BY <2>1, <2>2, TakeIInv, RelockIInv, WaitIInv, Zenon
<1>2. ASSUME NEW t \in Threads, Timeout(t) \/ Interrupt(t)
      PROVE  IInv'
  <2>1. TypeOK'
    <3>1. timed' \in [Threads -> 0..2] /\ blocked' \in SUBSET Threads
      <4>1. /\ timed \in [Threads -> 0..2] /\ blocked \in SUBSET Threads /\ 1 \in 0..2 /\ 2 \in 0..2
            /\ blocked' = blocked \ {t}
        BY <1>2 DEF IInv, TypeOK, Timeout, Interrupt
      <4>2. \/ timed' = timed
            \/ timed' = [timed EXCEPT ![t] = 1]
            \/ timed' = [timed EXCEPT ![t] = 2]
        BY <1>2, Zenon DEF Timeout, Interrupt
      <4> QED
        BY <4>1, <4>2, Zenon
    <3>2. UNCHANGED <<type, locked, owner, recursion, mwq, cwq, pc, saved_rec, deadline, depth>>
      BY <1>2, Zenon DEF Timeout, Interrupt
    <3> QED
      BY <3>1, <3>2, Zenon DEF IInv, TypeOK
  <2>2. /\ UNCHANGED <<type, locked, owner, recursion, mwq, cwq, pc, depth>>
        /\ blocked' \subseteq blocked
    BY <1>2, Zenon DEF Timeout, Interrupt
  <2>3. Distinct(cwq) /\ \A x \in blocked : pc[x] = "cond" => x \in Nodes(cwq)
    BY QueueFacts, Zenon DEF IInv
  <2>4. cwq' = cwq
    BY <2>2, Zenon
  <2> QED
    BY <2>1, <2>2, <2>3, <2>4, WakeIInv, Zenon
<1>3. CASE pthread_cond_signal
  <2>1. /\ cwq' = AfterWakeOne(cwq, blocked) /\ blocked' = blocked \ WakeOne(cwq, blocked)
        /\ UNCHANGED <<type, locked, owner, recursion, mwq, pc, saved_rec, deadline, depth>>
        /\ timed' = [t \in Threads |-> IF t \in WakeOne(cwq, blocked) THEN 0 ELSE timed[t]]
    BY <1>3, Zenon DEF pthread_cond_signal
  <2>2. TypeOK'
    BY <2>1, SignalFacts DEF IInv, TypeOK
  <2> QED
    BY <2>1, <2>2, SignalFacts, WakeIInv, Zenon
<1>4. CASE pthread_cond_broadcast
  <2>1. /\ cwq' = <<>> /\ blocked' = blocked \ (Nodes(cwq) \cap blocked)
        /\ UNCHANGED <<type, locked, owner, recursion, mwq, pc, saved_rec, deadline, depth>>
    BY <1>4, Zenon DEF pthread_cond_broadcast, WakeAll
  <2>2. TypeOK'
    BY <1>4 DEF IInv, TypeOK, pthread_cond_broadcast
  <2>3. \A x \in blocked : pc[x] = "cond" => x \in Nodes(cwq)
    BY QueueFacts, Zenon DEF IInv
  <2>4. Distinct(<<>>) /\ Nodes(<<>>) = {}
    BY DEF Distinct, Nodes
  <2> QED
    BY <2>1, <2>2, <2>3, <2>4, WakeIInv, Zenon
<1>5. CASE UNCHANGED vars
  <2>1. TypeOK'
    BY <1>5, Zenon DEF vars, IInv, TypeOK
  <2>2. QueuesExact'
    BY <1>5, Zenon DEF vars, IInv, QueuesExact
  <2>3. MutualExclusion' /\ NoLostWakeup'
    BY <1>5, Zenon DEF vars, IInv, MutualExclusion, NoLostWakeup, Retrying
  <2> QED
    BY <2>1, <2>2, <2>3, Zenon DEF IInv
<1> QED
  BY <1>1, <1>2, <1>3, <1>4, <1>5, UnlockIInv, CondWaitIInv, CondWokenIInv, Zenon DEF Next, Step

\* IInv holds in every reachable state of pthread.c's mutexes and condition variables.
THEOREM Invariance == Spec => []IInv
<1>1. Init => IInv
  BY InitIInv, Zenon
<1>2. IInv /\ [Next]_vars => IInv'
  BY NextIInv, Zenon
<1> QED
  BY <1>1, <1>2, PTL DEF Spec

\* pthread_mutex_lock admits one holder at a time and keeps count of its
\* nesting, for every number of threads.
THEOREM MutexExcludes == Spec => []MutualExclusion
<1>1. IInv => MutualExclusion
  BY Zenon DEF IInv
<1> QED
  BY <1>1, Invariance, PTL

\* pthread_mutex_unlock's wake-up is never lost.
THEOREM MutexWakes == Spec => []NoLostWakeup
<1>1. IInv => NoLostWakeup
  BY Zenon DEF IInv
<1> QED
  BY <1>1, Invariance, PTL

\* A signal of a condition with sleepers wakes one of them.
LEMMA CondSignalStep ==
    ASSUME IInv, pthread_cond_signal, CondWaiters # {}
    PROVE  \E t \in CondWaiters : CondWaiters' = CondWaiters \ {t} /\ timed'[t] = 0
<1>1. PICK t \in CondWaiters : WakeOne(cwq, blocked) = {t}
  BY SignalFacts, Zenon
<1>2. t \in Threads
  BY Zenon DEF IInv, TypeOK, CondWaiters
<1>3. timed'[t] = 0 /\ blocked' = blocked \ {t} /\ pc' = pc
  BY <1>1, <1>2, Zenon DEF pthread_cond_signal
<1> QED
  BY <1>3, Zenon DEF CondWaiters

\* pthread_cond_signal wakes a sleeper whenever there is one.
THEOREM CondSignalWakes == Spec => SignalReachesSleeper
<1> DEFINE A == pthread_cond_signal /\ CondWaiters # {}
             => \E t \in CondWaiters : CondWaiters' = CondWaiters \ {t} /\ timed'[t] = 0
<1>1. IInv => [A]_vars
  BY CondSignalStep, Zenon
<1> HIDE DEF A
<1>2. Spec => [][A]_vars
  BY <1>1, Invariance, PTL
<1> QED
  BY <1>2, Zenon DEF SignalReachesSleeper, A

-----------------------------------------------------------------------------
(* The other objects.  They share the scheduler's view of the threads (blocked), the *)
(* queue of those that have one (wq), deadline and the place of a thread in its call *)
(* (pc); the other variables are their own.                                          *)

CONSTANTS
    InitialValue, MaxValue,     \* of the semaphore
    total, MaxGen,              \* of the barrier
    NONE                        \* no futex word

ASSUME SyncAssumption ==
    /\ MaxValue \in Nat /\ InitialValue \in 0..MaxValue
    /\ total \in Nat \ {0} /\ MaxGen \in Nat

VARIABLES
    wq,
    value, waiting, expired, early,
    state, waiting_writers, rq,
    count, generation, gen, arrived,
    done, running, runs,
    word, bucket, uaddr, val, owes

\* Counting threads: one more, one less, none, one.
LEMMA Counting ==
    ASSUME NEW S \in SUBSET Threads
    PROVE  /\ Cardinality(S) \in Nat /\ Cardinality(S) <= Cardinality(Threads)
           /\ Cardinality(Threads) \in Nat
           /\ Cardinality(S) = 0 <=> S = {}
           /\ \A t : t \notin S => Cardinality(S \cup {t}) = Cardinality(S) + 1
           /\ \A t \in S : Cardinality(S \ {t}) = Cardinality(S) - 1
           /\ \A t : S = {t} => Cardinality(S) = 1
<1>1. IsFiniteSet(Threads)
  BY MutexAssumption, Zenon
<1>2. IsFiniteSet(S) /\ Cardinality(S) <= Cardinality(Threads)
  BY <1>1, FS_Subset, Zenon
<1>3. Cardinality(S) \in Nat /\ Cardinality(Threads) \in Nat
  BY <1>1, <1>2, FS_CardinalityType, Zenon
<1>4. Cardinality(S) = 0 <=> S = {}
  BY <1>2, FS_EmptySet, Zenon
<1>5. \A t : t \notin S => Cardinality(S \cup {t}) = Cardinality(S) + 1
  BY <1>2, FS_AddElement, Zenon
<1>6. \A t \in S : Cardinality(S \ {t}) = Cardinality(S) - 1
  BY <1>2, FS_RemoveElement, Zenon
<1>7. \A t : S = {t} => Cardinality(S) = 1
  BY FS_Singleton, Zenon
<1> QED
  BY <1>2, <1>3, <1>4, <1>5, <1>6, <1>7, Zenon

-----------------------------------------------------------------------------
(* Words and their buckets, for the futex: W is the set of words, b[w] the bucket of w, and at *)
(* most M threads wait on a word.                                                              *)

\* BucketsExact, in the form the queue lemmas take, with the bucket of each word as a function.
FuBuckets(W, b) ==
    /\ \A t \in blocked : t \in Nodes(bucket[b[uaddr[t]]])
    /\ \A c \in {b[w] : w \in W} :
          /\ Distinct(bucket[c])
          /\ \A t \in Nodes(bucket[c]) : t \in Threads /\ uaddr[t] \in W /\ b[uaddr[t]] = c

FuTypes(W, b) ==
    /\ word \in [W -> 0..1] /\ bucket \in [{b[w] : w \in W} -> Seq(Threads)]
    /\ blocked \in SUBSET Threads /\ (\A t \in blocked : uaddr[t] \in W)
    /\ uaddr \in [Threads -> W \cup {NONE}] /\ val \in [Threads -> 0..1]
    /\ owes \in [Threads -> W \cup {NONE}]

FuWaiters(w) == {t \in Threads : uaddr[t] = w}

FuLost == \A t \in blocked : word[uaddr[t]] # val[t] => \E u \in Threads : owes[u] = uaddr[t]

FuIInv(W, M, b) ==
    /\ FuTypes(W, b) /\ FuBuckets(W, b) /\ FuLost
    /\ \A w \in W : Cardinality(FuWaiters(w)) <= M

\* A store by a thread that then owes a wake keeps the invariant.
LEMMA FuStoreIInv ==
    ASSUME NEW W, NEW M, NEW b, NONE \notin W, FuIInv(W, M, b), NEW t \in Threads, NEW w \in W,
           owes[t] = NONE, word' = [word EXCEPT ![w] = 1 - word[w]],
           owes' = [owes EXCEPT ![t] = w], UNCHANGED <<bucket, blocked, uaddr, val>>
    PROVE  FuIInv(W, M, b)'
<1> USE DEF FuIInv
<1>1. /\ word \in [W -> 0..1] /\ owes \in [Threads -> W \cup {NONE}]
      /\ \A u \in blocked : uaddr[u] \in W
  BY Zenon DEF FuTypes
<1>2. 1 - word[w] \in 0..1
  BY <1>1
<1>3. word' \in [W -> 0..1] /\ owes' \in [Threads -> W \cup {NONE}]
  BY <1>1, <1>2, Zenon
<1>4. FuTypes(W, b)'
  BY <1>3, Zenon DEF FuTypes
<1>5. FuBuckets(W, b)'
  BY Zenon DEF FuBuckets
<1>6. FuLost'
  <2> SUFFICES ASSUME NEW u \in blocked', word'[uaddr'[u]] # val'[u]
               PROVE  \E x \in Threads : owes'[x] = uaddr'[u]
    BY Zenon DEF FuLost
  <2>1. uaddr[u] \in W /\ uaddr[u] # NONE
    BY <1>1, Zenon
  <2>2. CASE uaddr[u] = w
    BY <1>1, <2>2, Zenon
  <2>3. CASE uaddr[u] # w
    <3>1. word'[uaddr[u]] = word[uaddr[u]]
      BY <1>1, <2>1, <2>3, Zenon
    <3>2. PICK x \in Threads : owes[x] = uaddr[u]
      BY <3>1, Zenon DEF FuLost
    <3>3. owes'[x] = owes[x]
      BY <1>1, <2>1, <3>2, Zenon
    <3> QED
      BY <3>2, <3>3, Zenon
  <2> QED
    BY <2>2, <2>3, Zenon
<1>7. \A x \in W : Cardinality(FuWaiters(x)') <= M
  BY Zenon DEF FuWaiters
<1> QED
  BY <1>4, <1>5, <1>6, <1>7, Zenon

\* A thread that goes to sleep on a word keeps it: the word has the value it was told.
LEMMA FuWaitIInv ==
    ASSUME NEW W, NEW M \in Nat, NEW b, NONE \notin W, FuIInv(W, M, b), NEW t \in Threads, NEW w \in W,
           uaddr[t] = NONE, Cardinality(FuWaiters(w)) < M,
           bucket' = [bucket EXCEPT ![b[w]] = Append(bucket[b[w]], t)],
           blocked' = blocked \cup {t}, uaddr' = [uaddr EXCEPT ![t] = w],
           val' = [val EXCEPT ![t] = word[w]], UNCHANGED <<word, owes>>
    PROVE  FuIInv(W, M, b)'
<1> USE DEF FuIInv
<1> DEFINE C == {b[x] : x \in W}
<1>1. /\ word \in [W -> 0..1] /\ bucket \in [C -> Seq(Threads)] /\ blocked \in SUBSET Threads
      /\ (\A u \in blocked : uaddr[u] \in W) /\ uaddr \in [Threads -> W \cup {NONE}]
      /\ val \in [Threads -> 0..1] /\ b[w] \in C
  BY Zenon DEF FuTypes
<1>2. \A c \in C : /\ Distinct(bucket[c]) /\ bucket[c] \in Seq(Threads)
                   /\ \A u \in Nodes(bucket[c]) : u \in Threads /\ uaddr[u] \in W /\ b[uaddr[u]] = c
  BY <1>1, Zenon DEF FuBuckets
<1>3. \A u \in blocked : u \in Nodes(bucket[b[uaddr[u]]])
  BY Zenon DEF FuBuckets
<1> HIDE DEF C
<1>4. \A c \in C : t \notin Nodes(bucket[c])
  BY <1>2, Zenon
<1>5. \A u \in Threads : /\ uaddr'[u] = IF u = t THEN w ELSE uaddr[u]
                         /\ val'[u] = IF u = t THEN word[w] ELSE val[u]
  BY <1>1, Zenon
<1>6. /\ Append(bucket[b[w]], t) \in Seq(Threads) /\ Distinct(Append(bucket[b[w]], t))
      /\ Nodes(Append(bucket[b[w]], t)) = Nodes(bucket[b[w]]) \cup {t}
  <2>1. bucket[b[w]] \in Seq(Threads) /\ Distinct(bucket[b[w]]) /\ t \notin Nodes(bucket[b[w]])
    BY <1>1, <1>2, <1>4, Zenon
  <2> QED
    BY <2>1, AppendFacts
<1>7. \A c \in C : bucket'[c] = IF c = b[w] THEN Append(bucket[b[w]], t) ELSE bucket[c]
  BY <1>1, Zenon
<1>8. FuTypes(W, b)'
  <2>1. bucket' \in [C -> Seq(Threads)]
    BY <1>1, <1>6, Zenon
  <2>2. /\ uaddr' \in [Threads -> W \cup {NONE}] /\ val' \in [Threads -> 0..1]
        /\ blocked' \in SUBSET Threads
    BY <1>1, Zenon
  <2>3. \A u \in blocked' : uaddr'[u] \in W
    BY <1>1, <1>5, Zenon
  <2> QED
    BY <2>1, <2>2, <2>3, Zenon DEF FuTypes, C
<1>9. FuBuckets(W, b)'
  <2>1. ASSUME NEW u \in blocked'
        PROVE  u \in Nodes(bucket'[b[uaddr'[u]]])
    <3>1. CASE u = t
      BY <1>1, <1>5, <1>6, <1>7, <3>1, Zenon
    <3>2. CASE u # t
      <4>1. u \in blocked /\ uaddr'[u] = uaddr[u] /\ uaddr[u] \in W /\ b[uaddr[u]] \in C
        BY <1>1, <1>5, <3>2, Zenon DEF C
      <4>2. Nodes(bucket[b[uaddr[u]]]) \subseteq Nodes(bucket'[b[uaddr[u]]])
        BY <1>6, <1>7, <4>1, Zenon
      <4> QED
        BY <1>3, <4>1, <4>2, Zenon
    <3> QED
      BY <3>1, <3>2, Zenon
  <2>2. ASSUME NEW c \in C
        PROVE  /\ Distinct(bucket'[c])
               /\ \A u \in Nodes(bucket'[c]) : u \in Threads /\ uaddr'[u] \in W /\ b[uaddr'[u]] = c
    <3>0. ASSUME NEW u \in Nodes(bucket[c])
          PROVE  u \in Threads /\ uaddr'[u] \in W /\ b[uaddr'[u]] = c
      <4>1. u \in Threads /\ uaddr[u] \in W /\ b[uaddr[u]] = c /\ u # t
        BY <1>2, <1>4, Zenon
      <4> QED
        BY <1>5, <4>1, Zenon
    <3>1. CASE c = b[w]
      <4>1. bucket'[c] = Append(bucket[b[w]], t)
        BY <1>7, <3>1, Zenon
      <4>2. \A u \in Nodes(bucket'[c]) : u = t \/ u \in Nodes(bucket[c])
        BY <1>6, <3>1, <4>1, Zenon
      <4>3. \A u \in Nodes(bucket[c]) : u \in Threads /\ uaddr'[u] \in W /\ b[uaddr'[u]] = c
        BY <3>0, Zenon
      <4>4. t \in Threads /\ uaddr'[t] \in W /\ b[uaddr'[t]] = c
        BY <1>5, <3>1, Zenon
      <4> QED
        BY <1>6, <4>1, <4>2, <4>3, <4>4, Zenon
    <3>2. CASE c # b[w]
      <4>1. bucket'[c] = bucket[c]
        BY <1>7, <3>2, Zenon
      <4> QED
        BY <1>2, <3>0, <4>1, Zenon
    <3> QED
      BY <3>1, <3>2, Zenon
  <2> QED
    BY <2>1, <2>2, Zenon DEF FuBuckets, C
<1>10. FuLost'
  <2> SUFFICES ASSUME NEW u \in blocked', word'[uaddr'[u]] # val'[u]
               PROVE  \E x \in Threads : owes'[x] = uaddr'[u]
    BY Zenon DEF FuLost
  <2>1. u # t /\ u \in blocked
    BY <1>5, Zenon
  <2>2. uaddr'[u] = uaddr[u] /\ val'[u] = val[u]
    BY <1>1, <1>5, <2>1, Zenon
  <2> QED
    BY <2>1, <2>2, Zenon DEF FuLost
<1>11. ASSUME NEW x \in W
       PROVE  Cardinality(FuWaiters(x)') <= M
  <2>1. FuWaiters(x) \in SUBSET Threads /\ t \notin FuWaiters(x)
    BY Zenon DEF FuWaiters
  <2>2. CASE x = w
    <3>1. FuWaiters(x)' = FuWaiters(x) \cup {t}
      BY <1>5, <2>2, Zenon DEF FuWaiters
    <3>2. /\ Cardinality(FuWaiters(x) \cup {t}) = Cardinality(FuWaiters(x)) + 1
          /\ Cardinality(FuWaiters(x)) \in Nat
      BY <2>1, Counting, Zenon
    <3>3. Cardinality(FuWaiters(x)) < M
      BY <2>2, Zenon
    <3> QED
      BY <3>1, <3>2, <3>3
  <2>3. CASE x # w
    <3>1. FuWaiters(x)' = FuWaiters(x)
      BY <1>5, <2>3, Zenon DEF FuWaiters
    <3> QED
      BY <3>1, Zenon
  <2> QED
    BY <2>2, <2>3, Zenon
<1> QED
  BY <1>8, <1>9, <1>10, <1>11, Zenon

\* A return from futex_wait keeps it: the thread unlinks its node.
LEMMA FuReturnsIInv ==
    ASSUME NEW W, NEW M \in Nat, NEW b, NONE \notin W, FuIInv(W, M, b), NEW t \in Threads,
           uaddr[t] # NONE, t \notin blocked,
           bucket' = [bucket EXCEPT ![b[uaddr[t]]] = Unlinked(bucket[b[uaddr[t]]], t)],
           uaddr' = [uaddr EXCEPT ![t] = NONE], val' = [val EXCEPT ![t] = 0],
           UNCHANGED <<word, blocked, owes>>
    PROVE  FuIInv(W, M, b)'
<1> USE DEF FuIInv
<1> DEFINE C == {b[x] : x \in W}
           d == b[uaddr[t]]
<1>1. /\ bucket \in [C -> Seq(Threads)] /\ blocked \in SUBSET Threads
      /\ (\A u \in blocked : uaddr[u] \in W) /\ uaddr \in [Threads -> W \cup {NONE}]
      /\ val \in [Threads -> 0..1] /\ d \in C
  BY Zenon DEF FuTypes
<1>2. \A c \in C : /\ Distinct(bucket[c]) /\ bucket[c] \in Seq(Threads)
                   /\ \A u \in Nodes(bucket[c]) : u \in Threads /\ uaddr[u] \in W /\ b[uaddr[u]] = c
  BY <1>1, Zenon DEF FuBuckets
<1>3. \A u \in blocked : u \in Nodes(bucket[b[uaddr[u]]]) /\ u # t /\ b[uaddr[u]] \in C
  BY <1>1, Zenon DEF FuBuckets
<1> HIDE DEF C
<1>4. \A c \in C : c # d => t \notin Nodes(bucket[c])
  BY <1>2, Zenon
<1>5. \A u \in Threads : u # t => uaddr'[u] = uaddr[u] /\ val'[u] = val[u]
  BY <1>1, Zenon
<1>6. /\ Unlinked(bucket[d], t) \in Seq(Threads) /\ Distinct(Unlinked(bucket[d], t))
      /\ Nodes(Unlinked(bucket[d], t)) = Nodes(bucket[d]) \ {t}
  <2>1. bucket[d] \in Seq(Threads) /\ Distinct(bucket[d])
    BY <1>1, <1>2, Zenon
  <2> QED
    BY <2>1, UnlinkedFacts, Zenon
<1>7. \A c \in C : bucket'[c] = IF c = d THEN Unlinked(bucket[d], t) ELSE bucket[c]
  BY <1>1, Zenon
<1>8. \A c \in C : Nodes(bucket'[c]) = Nodes(bucket[c]) \ {t} /\ Distinct(bucket'[c])
  BY <1>2, <1>4, <1>6, <1>7
<1>9. FuTypes(W, b)'
  <2>1. bucket' \in [C -> Seq(Threads)]
    BY <1>1, <1>6, Zenon
  <2>2. 0 \in 0..1
    OBVIOUS
  <2>3. uaddr' \in [Threads -> W \cup {NONE}] /\ val' \in [Threads -> 0..1]
    BY <1>1, <2>2, Zenon
  <2>4. \A u \in blocked' : uaddr'[u] \in W
    BY <1>1, <1>3, <1>5, Zenon
  <2> QED
    BY <1>1, <2>1, <2>3, <2>4, Zenon DEF FuTypes, C
<1>10. FuBuckets(W, b)'
  <2>1. ASSUME NEW u \in blocked'
        PROVE  u \in Nodes(bucket'[b[uaddr'[u]]])
    <3>1. u \in Nodes(bucket[b[uaddr[u]]]) /\ u # t /\ b[uaddr[u]] \in C /\ uaddr'[u] = uaddr[u]
      BY <1>1, <1>3, <1>5, Zenon
    <3> QED
      BY <1>8, <3>1, Zenon
  <2>2. ASSUME NEW c \in C, NEW u \in Nodes(bucket'[c])
        PROVE  u \in Threads /\ uaddr'[u] \in W /\ b[uaddr'[u]] = c
    <3>1. u # t /\ u \in Nodes(bucket[c])
      BY <1>8, Zenon
    <3>2. u \in Threads /\ uaddr[u] \in W /\ b[uaddr[u]] = c
      BY <1>2, <3>1, Zenon
    <3> QED
      BY <1>5, <3>1, <3>2, Zenon
  <2>3. \A c \in C : Distinct(bucket'[c])
    BY <1>8, Zenon
  <2> QED
    BY <2>1, <2>2, <2>3, Zenon DEF FuBuckets, C
<1>11. ASSUME NEW u \in blocked', word'[uaddr'[u]] # val'[u]
       PROVE  \E v \in Threads : owes'[v] = uaddr'[u]
  <2>1. u \in blocked /\ uaddr'[u] = uaddr[u] /\ val'[u] = val[u]
    BY <1>1, <1>3, <1>5, Zenon
  <2>2. word[uaddr[u]] # val[u]
    BY <1>11, <2>1, Zenon
  <2> QED
    BY <2>1, <2>2, Zenon DEF FuLost
<1>12. ASSUME NEW x \in W
       PROVE  Cardinality(FuWaiters(x)') <= M
  <2>1. FuWaiters(x)' \subseteq FuWaiters(x) /\ FuWaiters(x) \in SUBSET Threads
    BY <1>1, <1>5, Zenon DEF FuWaiters
  <2>2. IsFiniteSet(FuWaiters(x))
    BY <2>1, MutexAssumption, FS_Subset, Zenon
  <2>3. /\ Cardinality(FuWaiters(x)') <= Cardinality(FuWaiters(x))
        /\ Cardinality(FuWaiters(x)) <= M
    BY <2>1, <2>2, FS_Subset, Zenon
  <2>4. Cardinality(FuWaiters(x)') \in Nat /\ Cardinality(FuWaiters(x)) \in Nat
    BY <2>1, <2>2, FS_Subset, FS_CardinalityType, Zenon
  <2> QED
    BY <2>3, <2>4
<1> QED
  BY <1>9, <1>10, <1>11, <1>12, Zenon DEF FuLost

\* A wake that reaches everybody in the bucket of its word keeps it; r is what is left of the queue.
LEMMA FuWakeIInv ==
    ASSUME NEW W, NEW M, NEW b, NONE \notin W, FuIInv(W, M, b), NEW t \in Threads, NEW w \in W,
           owes[t] = w, NEW r \in Seq(Threads), Distinct(r), Nodes(r) \subseteq Nodes(bucket[b[w]]),
           bucket' = [bucket EXCEPT ![b[w]] = r],
           blocked' = blocked \ (Nodes(bucket[b[w]]) \cap blocked),
           owes' = [owes EXCEPT ![t] = NONE], UNCHANGED <<word, uaddr, val>>
    PROVE  FuIInv(W, M, b)'
<1> USE DEF FuIInv
<1> DEFINE C == {b[x] : x \in W}
<1>1. /\ bucket \in [C -> Seq(Threads)] /\ blocked \in SUBSET Threads
      /\ (\A u \in blocked : uaddr[u] \in W) /\ owes \in [Threads -> W \cup {NONE}] /\ b[w] \in C
  BY Zenon DEF FuTypes
<1>2. \A c \in C : /\ Distinct(bucket[c])
                   /\ \A u \in Nodes(bucket[c]) : u \in Threads /\ uaddr[u] \in W /\ b[uaddr[u]] = c
  BY Zenon DEF FuBuckets
<1>3. \A u \in blocked : u \in Nodes(bucket[b[uaddr[u]]]) /\ b[uaddr[u]] \in C
  BY <1>1, Zenon DEF FuBuckets
<1> HIDE DEF C
<1>4. \A c \in C : bucket'[c] = IF c = b[w] THEN r ELSE bucket[c]
  BY <1>1, Zenon
<1>5. ASSUME NEW c \in C
      PROVE  Nodes(bucket'[c]) \subseteq Nodes(bucket[c]) /\ Distinct(bucket'[c])
  <2>1. CASE c = b[w]
    BY <1>4, <2>1, Zenon
  <2>2. CASE c # b[w]
    BY <1>2, <1>4, <2>2, Zenon
  <2> QED
    BY <2>1, <2>2, Zenon
<1>6. \A u \in blocked' : u \in blocked /\ uaddr[u] # w /\ b[uaddr[u]] # b[w]
  BY <1>3, Zenon
<1>7. FuTypes(W, b)'
  <2>1. bucket' \in [C -> Seq(Threads)] /\ owes' \in [Threads -> W \cup {NONE}]
    BY <1>1, Zenon
  <2>2. blocked' \in SUBSET Threads /\ \A u \in blocked' : uaddr'[u] \in W
    BY <1>1, Zenon
  <2> QED
    BY <2>1, <2>2, Zenon DEF FuTypes, C
<1>8. FuBuckets(W, b)'
  <2>1. \A u \in blocked' : u \in Nodes(bucket'[b[uaddr'[u]]])
    BY <1>3, <1>4, <1>6, Zenon
  <2>2. \A c \in C :
          /\ Distinct(bucket'[c])
          /\ \A u \in Nodes(bucket'[c]) : u \in Threads /\ uaddr'[u] \in W /\ b[uaddr'[u]] = c
    BY <1>2, <1>5, Zenon
  <2> QED
    BY <2>1, <2>2, Zenon DEF FuBuckets, C
<1>9. FuLost'
  <2> SUFFICES ASSUME NEW u \in blocked', word'[uaddr'[u]] # val'[u]
               PROVE  \E x \in Threads : owes'[x] = uaddr'[u]
    BY Zenon DEF FuLost
  <2>1. PICK x \in Threads : owes[x] = uaddr[u]
    BY <1>6, Zenon DEF FuLost
  <2>2. owes'[x] = owes[x]
    BY <1>1, <1>6, <2>1, Zenon
  <2> QED
    BY <2>1, <2>2, Zenon
<1>10. \A x \in W : Cardinality(FuWaiters(x)') <= M
  BY Zenon DEF FuWaiters
<1> QED
  BY <1>7, <1>8, <1>9, <1>10, Zenon

\* A sleeper woken by its timeout or by a signal keeps it: its node is stale.
LEMMA FuWokenIInv ==
    ASSUME NEW W, NEW M, NEW b, FuIInv(W, M, b), NEW B, blocked' = blocked \ B,
           UNCHANGED <<word, bucket, uaddr, val, owes>>
    PROVE  FuIInv(W, M, b)'
<1>1. FuTypes(W, b)' /\ FuBuckets(W, b)' /\ FuLost'
  BY Zenon DEF FuIInv, FuTypes, FuBuckets, FuLost
<1>2. \A x \in W : Cardinality(FuWaiters(x)') <= M
  BY Zenon DEF FuIInv, FuWaiters
<1> QED
  BY <1>1, <1>2, Zenon DEF FuIInv

-----------------------------------------------------------------------------
(* Semaphores, module Semaphore. *)

Sm == INSTANCE Semaphore

\* The queue operations of the semaphore are those of its wait queue.
LEMMA SemQueue ==
    /\ \A s : Sm!Nodes(s) = Nodes(s) /\ (Sm!Distinct(s) <=> Distinct(s))
    /\ \A s, t : Sm!Unlinked(s, t) = Unlinked(s, t)
    /\ \A s, B : Sm!WakeOne(s, B) = WakeOne(s, B) /\ Sm!AfterWakeOne(s, B) = AfterWakeOne(s, B)
    /\ \A S : Sm!Cardinality(S) = Cardinality(S)
<1>1. \A s : Sm!Nodes(s) = Nodes(s) /\ (Sm!Distinct(s) <=> Distinct(s))
  BY Zenon DEF Sm!Nodes, Nodes, Sm!Distinct, Distinct
<1>2. \A s, t : Sm!Unlinked(s, t) = Unlinked(s, t)
  BY Zenon DEF Sm!Unlinked, Unlinked, Sm!Nodes, Nodes
<1>3. \A s, B : Sm!WakeOne(s, B) = WakeOne(s, B) /\ Sm!AfterWakeOne(s, B) = AfterWakeOne(s, B)
  BY Zenon DEF Sm!WakeOne, WakeOne, Sm!AfterWakeOne, AfterWakeOne, Sm!FirstLive, FirstLive
<1>4. \A S : Sm!Cardinality(S) = Cardinality(S)
  BY Zenon DEF Sm!Cardinality, Cardinality
<1> QED
  BY <1>1, <1>2, <1>3, <1>4, Zenon

SemIInv == Sm!TypeOK /\ Sm!QueueExact /\ Sm!NoUnclaimedUnit

\* A semaphore fresh from sem_init satisfies the invariant.
LEMMA SemInitIInv == Sm!Init => SemIInv
<1> SUFFICES ASSUME Sm!Init
             PROVE  SemIInv
  BY Zenon
<1>1. Sm!TypeOK /\ Sm!QueueExact
  BY MutexAssumption, SyncAssumption, SemQueue DEF Sm!Init, Sm!TypeOK, Sm!QueueExact, Nodes
<1>2. Sm!NoUnclaimedUnit
  BY SemQueue, Zenon DEF Sm!Init, Sm!NoUnclaimedUnit
<1> QED
  BY <1>1, <1>2, Zenon DEF SemIInv

\* Cardinalities of the retriers: finite, and one more or less with a thread.
LEMMA SemRetriersFinite ==
    ASSUME Sm!TypeOK
    PROVE  /\ IsFiniteSet(Sm!Retriers) /\ Cardinality(Sm!Retriers) \in Nat
           /\ \A t \in Threads : t \notin Sm!Retriers =>
                 Cardinality(Sm!Retriers \cup {t}) = Cardinality(Sm!Retriers) + 1
           /\ \A t \in Sm!Retriers : Cardinality(Sm!Retriers \ {t}) = Cardinality(Sm!Retriers) - 1
<1>1. Sm!Retriers \subseteq Threads
  BY Zenon DEF Sm!TypeOK, Sm!Retriers
<1>2. IsFiniteSet(Sm!Retriers)
  BY <1>1, MutexAssumption, SyncAssumption, FS_Subset, Zenon
<1> QED
  BY <1>2, FS_CardinalityType, FS_AddElement, FS_RemoveElement, Zenon

\* What it does to the queue that a caller leaves sem_wait.
LEMMA SemLeaveFacts ==
    ASSUME Sm!TypeOK, Sm!QueueExact, NEW t \in Threads, t \notin blocked, Sm!Leave(t), value' \in 0..MaxValue
    PROVE  Sm!TypeOK' /\ Sm!QueueExact' /\ blocked' = blocked /\ Sm!Retriers' = Sm!Retriers \ {t}
<1>1. Distinct(wq) /\ wq \in Seq(Threads)
  BY SemQueue, Zenon DEF Sm!QueueExact, Distinct, Sm!TypeOK
<1>2. wq' \in Seq(Threads) /\ Distinct(wq') /\ Nodes(wq') = Nodes(wq) \ {t}
  BY <1>1, UnlinkedFacts, SemQueue, Zenon DEF Sm!Leave
<1>3. Sm!TypeOK'
  BY <1>2, SemQueue, Zenon DEF Sm!TypeOK, Sm!Leave
<1>4. Sm!QueueExact'
  BY <1>2, SemQueue, Zenon DEF Sm!QueueExact, Distinct, Sm!Leave
<1>5. blocked' = blocked /\ Sm!Retriers' = Sm!Retriers \ {t}
  BY SemQueue, Zenon DEF Sm!Leave, Sm!Retriers
<1> QED
  BY <1>3, <1>4, <1>5, Zenon

\* Taking one of the value in sem_wait or sem_trywait keeps the invariant.
LEMMA SemTakeIInv ==
    ASSUME SemIInv, NEW t \in Threads, Sm!Take(t)
    PROVE  SemIInv'
<1> USE DEF SemIInv
<1>1. t \notin blocked /\ value \in Nat /\ value > 0 /\ value' = value - 1 /\ Sm!Leave(t)
  BY MutexAssumption, SyncAssumption DEF Sm!Take, Sm!TypeOK
<1>2. value' \in 0..MaxValue
  BY <1>1, MutexAssumption, SyncAssumption DEF Sm!TypeOK
<1>3. Sm!TypeOK' /\ Sm!QueueExact' /\ blocked' = blocked /\ Sm!Retriers' = Sm!Retriers \ {t}
  BY <1>1, <1>2, SemLeaveFacts, Zenon
<1>4. Cardinality(Sm!Retriers) \in Nat /\ Cardinality(Sm!Retriers') >= Cardinality(Sm!Retriers) - 1
  <2>1. CASE t \in Sm!Retriers
    BY <2>1, <1>3, SemRetriersFinite
  <2>2. CASE t \notin Sm!Retriers
    <3>1. Sm!Retriers' = Sm!Retriers
      BY <2>2, <1>3, Zenon
    <3> QED
      BY <3>1, SemRetriersFinite
  <2> QED
    BY <2>1, <2>2, Zenon
<1>5. Cardinality(Sm!Retriers') \in Nat
  BY <1>3, SemRetriersFinite, FS_Subset, FS_CardinalityType, Zenon
<1>6. Sm!NoUnclaimedUnit'
  BY <1>1, <1>3, <1>4, <1>5, SemQueue DEF Sm!NoUnclaimedUnit
<1> QED
  BY <1>3, <1>6, Zenon

\* Going to sleep on an empty semaphore keeps it.
LEMMA SemSleepIInv ==
    ASSUME SemIInv, NEW t \in Threads, NEW d \in BOOLEAN, value = 0, Sm!Sleep(t, d)
    PROVE  SemIInv'
<1> USE DEF SemIInv
<1> DEFINE u == Unlinked(wq, t)
<1>1. Distinct(wq) /\ wq \in Seq(Threads)
  BY SemQueue, Zenon DEF Sm!QueueExact, Distinct, Sm!TypeOK
<1>2. u \in Seq(Threads) /\ Distinct(u) /\ Nodes(u) = Nodes(wq) \ {t}
  BY <1>1, UnlinkedFacts, Zenon
<1>3. wq' = Append(u, t)
  BY SemQueue, Zenon DEF Sm!Sleep
<1> HIDE DEF u
<1>4. t \notin Nodes(u)
  BY <1>2, Zenon
<1>5. wq' \in Seq(Threads) /\ Distinct(wq') /\ Nodes(wq') = Nodes(u) \cup {t}
  BY <1>2, <1>3, <1>4, AppendFacts
<1>6. Sm!TypeOK'
  BY <1>5, SemQueue, Zenon DEF Sm!TypeOK, Sm!Sleep
<1>7. Sm!QueueExact'
  BY <1>2, <1>5, SemQueue, Zenon DEF Sm!QueueExact, Distinct, Sm!Sleep
<1>8. Sm!NoUnclaimedUnit'
  <2>1. Cardinality(Sm!Retriers') \in Nat
    <3>1. Sm!Retriers' \subseteq Threads
      BY <1>6, Zenon DEF Sm!TypeOK, Sm!Retriers
    <3> QED
      BY <3>1, MutexAssumption, SyncAssumption, FS_Subset, FS_CardinalityType, Zenon
  <2>2. value' = 0
    BY SemQueue, Zenon DEF Sm!Sleep
  <2> QED
    BY <2>1, <2>2, SemQueue DEF Sm!NoUnclaimedUnit
<1> QED
  BY <1>6, <1>7, <1>8, Zenon

\* A timed wait that gives up does so with the value 0.
LEMMA SemGiveUpIInv ==
    ASSUME SemIInv, NEW t \in Threads, t \notin blocked, value = 0, Sm!Leave(t), value' = value
    PROVE  SemIInv'
<1> USE DEF SemIInv
<1>1. value' \in 0..MaxValue
  BY Zenon DEF Sm!TypeOK
<1>2. Sm!TypeOK' /\ Sm!QueueExact' /\ Sm!Retriers' = Sm!Retriers \ {t}
  BY <1>1, SemLeaveFacts, Zenon
<1>3. Cardinality(Sm!Retriers') \in Nat
  BY <1>2, SemRetriersFinite, FS_Subset, FS_CardinalityType, Zenon
<1>4. Sm!NoUnclaimedUnit'
  BY <1>3, SemQueue DEF Sm!NoUnclaimedUnit
<1> QED
  BY <1>2, <1>4, Zenon

\* sem_post keeps it: a post either wakes somebody or finds nobody asleep.
LEMMA SemPostIInv ==
    ASSUME SemIInv, Sm!sem_post
    PROVE  SemIInv'
<1> USE DEF SemIInv
<1> DEFINE A == AfterWakeOne(wq, blocked)
           W == WakeOne(wq, blocked)
<1>1. /\ wq' = A /\ blocked' = blocked \ W /\ early' = early \ W /\ value' = value + 1
      /\ value < MaxValue /\ UNCHANGED <<waiting, deadline, expired>>
  BY SemQueue, Zenon DEF Sm!sem_post
<1>2. Distinct(wq) /\ wq \in Seq(Threads) /\ blocked \subseteq Nodes(wq)
  BY SemQueue, Zenon DEF Sm!QueueExact, Distinct, Sm!TypeOK
<1>3. /\ W \subseteq Nodes(wq) \cap blocked
      /\ Nodes(wq) \cap blocked # {} => \E t \in Nodes(wq) \cap blocked : W = {t}
      /\ A \in Seq(Threads) /\ Distinct(A) /\ Nodes(A) \subseteq Nodes(wq)
      /\ (Nodes(wq) \cap blocked) \ W \subseteq Nodes(A)
  BY <1>2, WakeOneFacts
<1> HIDE DEF A, W
<1>4. Sm!TypeOK'
  BY <1>1, <1>3, MutexAssumption, SyncAssumption DEF Sm!TypeOK
<1>5. Sm!QueueExact'
  BY <1>1, <1>2, <1>3, SemQueue, Zenon DEF Sm!QueueExact, Distinct
<1>6. Sm!NoUnclaimedUnit'
  <2>1. SUFFICES ASSUME blocked' # {}
                 PROVE  value' <= Cardinality(Sm!Retriers')
    BY SemQueue, Zenon DEF Sm!NoUnclaimedUnit
  <2>2. blocked # {} /\ Nodes(wq) \cap blocked # {}
    BY <1>1, <1>2, <2>1, Zenon
  <2>3. PICK t \in blocked : W = {t}
    BY <1>3, <2>2, Zenon
  <2>4. t \in Threads /\ t \notin Sm!Retriers /\ Sm!Retriers' = Sm!Retriers \cup {t}
    BY <1>1, <2>3, Zenon DEF Sm!TypeOK, Sm!Retriers
  <2>5. Cardinality(Sm!Retriers') = Cardinality(Sm!Retriers) + 1 /\ Cardinality(Sm!Retriers) \in Nat
    BY <2>4, SemRetriersFinite, Zenon
  <2>6. value <= Cardinality(Sm!Retriers) /\ value \in Nat
    BY <2>2, MutexAssumption, SyncAssumption, SemQueue DEF Sm!NoUnclaimedUnit, Sm!TypeOK
  <2> QED
    BY <1>1, <2>5, <2>6
<1> QED
  BY <1>4, <1>5, <1>6, Zenon

\* The timer or a signal wakes t: one more retrier.
LEMMA SemWakeIInv ==
    ASSUME SemIInv, NEW t \in Threads, Sm!TypeOK', blocked' = blocked \ {t}, t \in waiting,
           UNCHANGED <<value, wq, waiting>>
    PROVE  SemIInv'
<1> USE DEF SemIInv
<1>1. Sm!QueueExact'
  BY SemQueue, Zenon DEF Sm!QueueExact
<1>2. Sm!Retriers' = Sm!Retriers \cup {t}
  BY Zenon DEF Sm!Retriers
<1>3. /\ Cardinality(Sm!Retriers) \in Nat /\ Cardinality(Sm!Retriers') \in Nat
      /\ Cardinality(Sm!Retriers') >= Cardinality(Sm!Retriers)
  <2>1. CASE t \in Sm!Retriers
    <3>1. Sm!Retriers' = Sm!Retriers
      BY <1>2, <2>1, Zenon
    <3> QED
      BY <3>1, SemRetriersFinite
  <2>2. CASE t \notin Sm!Retriers
    BY <1>2, <2>2, SemRetriersFinite
  <2> QED
    BY <2>1, <2>2, Zenon
<1>4. value \in Nat
  BY MutexAssumption, SyncAssumption DEF Sm!TypeOK
<1>5. Sm!NoUnclaimedUnit'
  BY <1>3, <1>4, SemQueue DEF Sm!NoUnclaimedUnit
<1> QED
  BY <1>1, <1>5, Zenon

\* Every step of sem.c keeps the invariant.
LEMMA SemNextIInv == SemIInv /\ [Sm!Next]_Sm!vars => SemIInv'
<1> SUFFICES ASSUME SemIInv, [Sm!Next]_Sm!vars
             PROVE  SemIInv'
  BY Zenon
<1>1. ASSUME NEW t \in Threads, Sm!sem_wait(t) \/ Sm!sem_timedwait(t)
      PROVE  SemIInv'
  <2>1. t \notin blocked /\ value = 0
    BY <1>1, Zenon DEF Sm!sem_wait, Sm!sem_timedwait
  <2>2. Sm!Sleep(t, TRUE) \/ Sm!Sleep(t, FALSE) \/ (Sm!Leave(t) /\ value' = value)
    BY <1>1, Zenon DEF Sm!sem_wait, Sm!sem_timedwait
  <2> QED
    BY <2>1, <2>2, SemSleepIInv, SemGiveUpIInv, Zenon
<1>2. ASSUME NEW t \in Threads, Sm!Timeout(t) \/ Sm!Interrupt(t)
      PROVE  SemIInv'
  <2>1. Sm!TypeOK'
    BY <1>2, Zenon DEF SemIInv, Sm!TypeOK, Sm!Timeout, Sm!Interrupt
  <2>2. blocked' = blocked \ {t} /\ t \in waiting /\ UNCHANGED <<value, wq, waiting>>
    BY <1>2, Zenon DEF SemIInv, Sm!TypeOK, Sm!Timeout, Sm!Interrupt
  <2> QED
    BY <2>1, <2>2, SemWakeIInv, Zenon
<1>3. CASE UNCHANGED Sm!vars
  BY <1>3, SemQueue, Zenon DEF Sm!vars, SemIInv, Sm!TypeOK, Sm!QueueExact, Sm!NoUnclaimedUnit, Sm!Retriers
<1> QED
  BY <1>1, <1>2, <1>3, SemTakeIInv, SemPostIInv, Zenon DEF Sm!Next

\* While a thread sleeps on the semaphore, every unit posted has a woken
\* thread coming for it (sem_post), for any number of threads.
THEOREM NoPostLost == Sm!Spec => []Sm!NoUnclaimedUnit
<1>1. Sm!Init => SemIInv
  BY SemInitIInv, Zenon
<1>2. SemIInv /\ [Sm!Next]_Sm!vars => SemIInv'
  BY SemNextIInv, Zenon
<1>3. SemIInv => Sm!NoUnclaimedUnit
  BY Zenon DEF SemIInv
<1> QED
  BY <1>1, <1>2, <1>3, PTL DEF Sm!Spec

-----------------------------------------------------------------------------
(* Read-write locks, module RwLock. *)

Rw == INSTANCE RwLock

\* The operators the rwlock takes from other modules are those used here.
LEMMA RwQueue ==
    /\ \A s : Rw!Nodes(s) = Nodes(s)
    /\ \A s, t : Rw!Unlinked(s, t) = Unlinked(s, t)
    /\ \A s, B : Rw!WakeOne(s, B) = WakeOne(s, B) /\ Rw!AfterWakeOne(s, B) = AfterWakeOne(s, B)
    /\ \A s, B : Rw!WakeAll(s, B) = Nodes(s) \cap B
    /\ \A S : Rw!Cardinality(S) = Cardinality(S)
<1>1. \A s : Rw!Nodes(s) = Nodes(s)
  BY Zenon DEF Rw!Nodes, Nodes
<1>2. \A s, t : Rw!Unlinked(s, t) = Unlinked(s, t)
  BY Zenon DEF Rw!Unlinked, Unlinked, Rw!Nodes, Nodes
<1>3. \A s, B : Rw!WakeOne(s, B) = WakeOne(s, B) /\ Rw!AfterWakeOne(s, B) = AfterWakeOne(s, B)
  BY Zenon DEF Rw!WakeOne, WakeOne, Rw!AfterWakeOne, AfterWakeOne, Rw!FirstLive, FirstLive
<1>4. \A s, B : Rw!WakeAll(s, B) = Nodes(s) \cap B
  BY <1>1, Zenon DEF Rw!WakeAll
<1>5. \A S : Rw!Cardinality(S) = Cardinality(S)
  BY Zenon DEF Rw!Cardinality, Cardinality
<1> QED
  BY <1>1, <1>2, <1>3, <1>4, <1>5, Zenon

\* Readers wait on rq and writers on wq, once each, and every sleeper is on one of them.
RwQueues ==
    /\ Distinct(rq) /\ Distinct(wq)
    /\ Nodes(rq) \subseteq Rw!Holders("rd") /\ Nodes(wq) \subseteq Rw!Holders("wr")
    /\ blocked \subseteq Nodes(rq) \cup Nodes(wq)

\* The state word is -1 for the one writer, else the number of readers.
RwState ==
    \/ state = -1 /\ Rw!Holders("reader") = {} /\ \E w : Rw!Holders("writer") = {w}
    \/ state = Cardinality(Rw!Holders("reader")) /\ Rw!Holders("writer") = {}

RwIInv == Rw!TypeOK /\ RwQueues /\ RwState /\ Rw!WritersCounted /\ Rw!NobodyStranded

\* The ranges of the two counts follow from what they count.
LEMMA RwRanges ==
    ASSUME RwState, Rw!WritersCounted
    PROVE  /\ state \in -1..Cardinality(Threads) /\ state \in Int
           /\ waiting_writers \in 0..Cardinality(Threads) /\ waiting_writers \in Nat
           /\ waiting_writers > 0 <=> Rw!Holders("wr") # {}
           /\ state # 0 => Rw!Holders("reader") \cup Rw!Holders("writer") # {}
           /\ state < 0 <=> Rw!Holders("writer") # {}
           /\ state = 0 => Rw!Holders("reader") = {} /\ Rw!Holders("writer") = {}
<1>1. Rw!Holders("reader") \in SUBSET Threads /\ Rw!Holders("wr") \in SUBSET Threads
  BY Zenon DEF Rw!Holders
<1> DEFINE r == Cardinality(Rw!Holders("reader"))
           w == Cardinality(Rw!Holders("wr"))
           n == Cardinality(Threads)
<1>2. r \in Nat /\ r <= n /\ n \in Nat /\ (r = 0 <=> Rw!Holders("reader") = {})
  BY <1>1, Counting, Zenon
<1>3. w \in Nat /\ w <= n /\ (w = 0 <=> Rw!Holders("wr") = {})
  BY <1>1, Counting, Zenon
<1>4. waiting_writers = w
  BY RwQueue, Zenon DEF Rw!WritersCounted
<1>5. \/ state = -1 /\ Rw!Holders("reader") = {} /\ Rw!Holders("writer") # {}
      \/ state = r /\ Rw!Holders("writer") = {}
  BY Zenon DEF RwState
<1> HIDE DEF r, w, n
<1>6. state \in -1..n /\ state \in Int /\ waiting_writers \in 0..n /\ waiting_writers \in Nat
  BY <1>2, <1>3, <1>4, <1>5
<1>7. /\ waiting_writers > 0 <=> Rw!Holders("wr") # {}
      /\ state # 0 => Rw!Holders("reader") \cup Rw!Holders("writer") # {}
      /\ state < 0 <=> Rw!Holders("writer") # {}
      /\ state = 0 => Rw!Holders("reader") = {} /\ Rw!Holders("writer") = {}
  BY <1>2, <1>3, <1>4, <1>5
<1> QED
  BY <1>6, <1>7, Zenon DEF n

\* A thread that moves to another place in the code is counted there.
LEMMA RwMove ==
    ASSUME Rw!TypeOK, NEW t \in Threads, NEW k \in {"out", "rd", "wr", "reader", "writer"},
           pc' = [pc EXCEPT ![t] = k]
    PROVE  /\ pc' \in [Threads -> {"out", "rd", "wr", "reader", "writer"}]
           /\ \A j : Rw!Holders(j)' = IF j = k THEN Rw!Holders(j) \cup {t} ELSE Rw!Holders(j) \ {t}
           /\ \A j : t \in Rw!Holders(j) <=> pc[t] = j
           /\ \A j : j # k /\ pc[t] # j => Rw!Holders(j)' = Rw!Holders(j)
<1>1. pc \in [Threads -> {"out", "rd", "wr", "reader", "writer"}]
  BY Zenon DEF Rw!TypeOK
<1>2. pc' \in [Threads -> {"out", "rd", "wr", "reader", "writer"}]
  BY <1>1, Zenon
<1>3. \A u \in Threads : pc'[u] = IF u = t THEN k ELSE pc[u]
  BY <1>1, Zenon
<1>4. \A j : Rw!Holders(j)' = IF j = k THEN Rw!Holders(j) \cup {t} ELSE Rw!Holders(j) \ {t}
  BY <1>3, Zenon DEF Rw!Holders
<1>5. \A j : t \in Rw!Holders(j) <=> pc[t] = j
  BY Zenon DEF Rw!Holders
<1>6. \A j : j # k /\ pc[t] # j => Rw!Holders(j)' = Rw!Holders(j)
  BY <1>4, <1>5, Zenon
<1> QED
  BY <1>2, <1>4, <1>5, <1>6, Zenon

\* A rwlock fresh from pthread_rwlock_init satisfies the invariant.
LEMMA RwInitIInv == Rw!Init => RwIInv
<1> SUFFICES ASSUME Rw!Init
             PROVE  RwIInv
  BY Zenon
<1>1. \A k \in {"rd", "wr", "reader", "writer"} : Rw!Holders(k) = {}
  BY Zenon DEF Rw!Init, Rw!Holders
<1>2. Cardinality({}) = 0
  BY FS_EmptySet, Zenon
<1>3. RwState /\ Rw!WritersCounted
  BY <1>1, <1>2, RwQueue, Zenon DEF Rw!Init, RwState, Rw!WritersCounted
<1>4. Rw!TypeOK
  <2>1. state \in -1..Cardinality(Threads) /\ waiting_writers \in 0..Cardinality(Threads)
    BY <1>3, RwRanges, Zenon
  <2>2. rq \in Seq(Threads) /\ wq \in Seq(Threads)
    BY DEF Rw!Init
  <2>3. pc \in [Threads -> {"out", "rd", "wr", "reader", "writer"}]
    BY Zenon DEF Rw!Init
  <2> QED
    BY <2>1, <2>2, <2>3, RwQueue, Zenon DEF Rw!Init, Rw!TypeOK
<1>5. RwQueues
  BY DEF Rw!Init, RwQueues, Distinct, Nodes
<1>6. Rw!NobodyStranded
  BY Zenon DEF Rw!Init, Rw!NobodyStranded
<1> QED
  BY <1>3, <1>4, <1>5, <1>6, Zenon DEF RwIInv

\* What is left to show of the types after a step is what the queues are.
LEMMA RwTypes ==
    ASSUME RwState', Rw!WritersCounted', rq' \in Seq(Threads), wq' \in Seq(Threads),
           blocked' \in SUBSET Threads, pc' \in [Threads -> {"out", "rd", "wr", "reader", "writer"}]
    PROVE  Rw!TypeOK'
<1>1. state' \in -1..Cardinality(Threads) /\ waiting_writers' \in 0..Cardinality(Threads)
  <2>1. Rw!Holders("reader")' \in SUBSET Threads /\ Rw!Holders("wr")' \in SUBSET Threads
    BY Zenon DEF Rw!Holders
  <2>2. /\ Cardinality(Rw!Holders("reader")') \in Nat /\ Cardinality(Threads) \in Nat
        /\ Cardinality(Rw!Holders("reader")') <= Cardinality(Threads)
        /\ Cardinality(Rw!Holders("wr")') \in Nat
        /\ Cardinality(Rw!Holders("wr")') <= Cardinality(Threads)
    BY <2>1, Counting, Zenon
  <2>3. waiting_writers' = Cardinality(Rw!Holders("wr")')
    BY RwQueue, Zenon DEF Rw!WritersCounted
  <2>4. state' = -1 \/ state' = Cardinality(Rw!Holders("reader")')
    BY Zenon DEF RwState
  <2> QED
    BY <2>2, <2>3, <2>4
<1> QED
  BY <1>1, RwQueue, Zenon DEF Rw!TypeOK

\* Who holds the lock, after one reader more or less, one writer more or less.
LEMMA RwCounts ==
    ASSUME RwIInv, NEW t \in Threads
    PROVE  /\ state \in Int
           /\ pc[t] # "reader" => Cardinality(Rw!Holders("reader") \cup {t})
                                    = Cardinality(Rw!Holders("reader")) + 1
           /\ pc[t] = "reader" => Cardinality(Rw!Holders("reader") \ {t})
                                    = Cardinality(Rw!Holders("reader")) - 1
           /\ pc[t] # "wr" => Cardinality(Rw!Holders("wr") \cup {t}) = waiting_writers + 1
           /\ pc[t] = "wr" => Cardinality(Rw!Holders("wr") \ {t}) = waiting_writers - 1
           /\ waiting_writers = Cardinality(Rw!Holders("wr")) /\ waiting_writers \in Nat
<1>1. Rw!Holders("reader") \in SUBSET Threads /\ Rw!Holders("wr") \in SUBSET Threads
  BY Zenon DEF Rw!Holders
<1>2. \A j : t \in Rw!Holders(j) <=> pc[t] = j
  BY Zenon DEF Rw!Holders
<1>3. state \in Int /\ waiting_writers = Cardinality(Rw!Holders("wr")) /\ waiting_writers \in Nat
  BY RwRanges, RwQueue, Zenon DEF RwIInv, Rw!WritersCounted
<1> QED
  BY <1>1, <1>2, <1>3, Counting, Zenon

\* A reader that gets in, in pthread_rwlock_rdlock or pthread_rwlock_tryrdlock.
LEMMA RwReadIInv ==
    ASSUME RwIInv, NEW t \in Threads, t \notin blocked, pc[t] \in {"out", "rd"}, ~Rw!ReadersMustWait,
           state' = state + 1, rq' = Unlinked(rq, t), pc' = [pc EXCEPT ![t] = "reader"],
           UNCHANGED <<waiting_writers, wq, blocked>>
    PROVE  RwIInv'
<1> USE DEF RwIInv
<1>0. /\ pc' \in [Threads -> {"out", "rd", "wr", "reader", "writer"}]
      /\ \A j : Rw!Holders(j)' = IF j = "reader" THEN Rw!Holders(j) \cup {t} ELSE Rw!Holders(j) \ {t}
      /\ \A j : t \in Rw!Holders(j) <=> pc[t] = j
  BY RwMove, Zenon
<1>1. /\ pc' \in [Threads -> {"out", "rd", "wr", "reader", "writer"}]
      /\ Rw!Holders("reader")' = Rw!Holders("reader") \cup {t}
      /\ Rw!Holders("writer")' = Rw!Holders("writer") \ {t}
      /\ Rw!Holders("rd")' = Rw!Holders("rd") \ {t} /\ Rw!Holders("wr")' = Rw!Holders("wr") \ {t}
      /\ t \notin Rw!Holders("wr") /\ t \notin Rw!Holders("reader")
  BY <1>0
<1>2. rq \in Seq(Threads) /\ Distinct(rq)
  BY Zenon DEF Rw!TypeOK, RwQueues
<1>3. rq' \in Seq(Threads) /\ Distinct(rq') /\ Nodes(rq') = Nodes(rq) \ {t}
  BY <1>2, UnlinkedFacts, Zenon
<1>4. RwQueues'
  BY <1>1, <1>3, Zenon DEF RwQueues
<1>5. RwState'
  <2>1. ~(state < 0) /\ state # -1
    BY RwRanges DEF Rw!ReadersMustWait
  <2>2. state = Cardinality(Rw!Holders("reader")) /\ Rw!Holders("writer") = {}
    BY <2>1, Zenon DEF RwState
  <2>3. Cardinality(Rw!Holders("reader")') = state'
    BY <1>1, <2>2, RwCounts, Zenon
  <2> QED
    BY <1>1, <2>2, <2>3, Zenon DEF RwState
<1>6. Rw!WritersCounted'
  BY <1>1, RwCounts, RwQueue, Zenon DEF Rw!WritersCounted
<1>7. Rw!NobodyStranded'
  BY <1>1, Zenon DEF Rw!NobodyStranded
<1>8. Rw!TypeOK'
  BY <1>1, <1>3, <1>5, <1>6, RwTypes, Zenon DEF Rw!TypeOK
<1> QED
  BY <1>4, <1>5, <1>6, <1>7, <1>8, Zenon

\* A reader that must wait: the writer it waits for, or a writer on its way, will wake it.
LEMMA RwReadWaitIInv ==
    ASSUME RwIInv, NEW t \in Threads, t \notin blocked, pc[t] \in {"out", "rd"}, Rw!ReadersMustWait,
           rq' = Append(Unlinked(rq, t), t), blocked' = blocked \cup {t},
           pc' = [pc EXCEPT ![t] = "rd"], UNCHANGED <<state, waiting_writers, wq>>
    PROVE  RwIInv'
<1> USE DEF RwIInv
<1>0. /\ pc' \in [Threads -> {"out", "rd", "wr", "reader", "writer"}]
      /\ \A j : Rw!Holders(j)' = IF j = "rd" THEN Rw!Holders(j) \cup {t} ELSE Rw!Holders(j) \ {t}
      /\ \A j : t \in Rw!Holders(j) <=> pc[t] = j
      /\ \A j : j # "rd" /\ pc[t] # j => Rw!Holders(j)' = Rw!Holders(j)
  BY RwMove, Zenon
<1>1. /\ pc' \in [Threads -> {"out", "rd", "wr", "reader", "writer"}]
      /\ Rw!Holders("reader")' = Rw!Holders("reader") /\ Rw!Holders("writer")' = Rw!Holders("writer")
      /\ Rw!Holders("rd")' = Rw!Holders("rd") \cup {t} /\ Rw!Holders("wr")' = Rw!Holders("wr")
      /\ t \notin Rw!Holders("wr")
  BY <1>0, Zenon
<1>2. rq \in Seq(Threads) /\ Distinct(rq)
  BY Zenon DEF Rw!TypeOK, RwQueues
<1>3. rq' \in Seq(Threads) /\ Distinct(rq') /\ Nodes(rq') = Nodes(rq) \cup {t}
  <2>1. /\ Unlinked(rq, t) \in Seq(Threads) /\ Distinct(Unlinked(rq, t))
        /\ Nodes(Unlinked(rq, t)) = Nodes(rq) \ {t}
    BY <1>2, UnlinkedFacts, Zenon
  <2>2. t \notin Nodes(Unlinked(rq, t))
    BY <2>1, Zenon
  <2> QED
    BY <2>1, <2>2, AppendFacts
<1>4. RwQueues'
  BY <1>1, <1>3 DEF RwQueues
<1>5. RwState' /\ Rw!WritersCounted'
  BY <1>1, Zenon DEF RwState, Rw!WritersCounted
<1>6. Rw!NobodyStranded'
  <2>1. \/ Rw!Holders("reader") \cup Rw!Holders("writer") # {}
        \/ \E u \in Rw!Holders("wr") : u \notin blocked
    <3>1. Rw!Holders("writer") # {} \/ Rw!Holders("wr") # {}
      BY RwRanges, Zenon DEF Rw!ReadersMustWait
    <3> QED
      BY <3>1, Zenon DEF Rw!NobodyStranded
  <2> QED
    BY <1>1, <2>1 DEF Rw!NobodyStranded
<1>7. Rw!TypeOK'
  BY <1>1, <1>3, <1>5, RwTypes, Zenon DEF Rw!TypeOK
<1> QED
  BY <1>4, <1>5, <1>6, <1>7, Zenon

\* A writer that gets in, in pthread_rwlock_wrlock or pthread_rwlock_trywrlock.
LEMMA RwWriteIInv ==
    ASSUME RwIInv, NEW t \in Threads, t \notin blocked, pc[t] \in {"out", "wr"}, state = 0,
           waiting_writers' = IF pc[t] = "wr" THEN waiting_writers - 1 ELSE waiting_writers,
           state' = -1, wq' = Unlinked(wq, t), pc' = [pc EXCEPT ![t] = "writer"],
           UNCHANGED <<rq, blocked>>
    PROVE  RwIInv'
<1> USE DEF RwIInv
<1>0. /\ pc' \in [Threads -> {"out", "rd", "wr", "reader", "writer"}]
      /\ \A j : Rw!Holders(j)' = IF j = "writer" THEN Rw!Holders(j) \cup {t} ELSE Rw!Holders(j) \ {t}
      /\ \A j : t \in Rw!Holders(j) <=> pc[t] = j
  BY RwMove, Zenon
<1>1. /\ Rw!Holders("reader")' = Rw!Holders("reader") \ {t}
      /\ Rw!Holders("writer")' = Rw!Holders("writer") \cup {t}
      /\ Rw!Holders("rd")' = Rw!Holders("rd") \ {t} /\ Rw!Holders("wr")' = Rw!Holders("wr") \ {t}
      /\ t \notin Rw!Holders("rd")
  BY <1>0
<1>2. wq \in Seq(Threads) /\ Distinct(wq)
  BY Zenon DEF Rw!TypeOK, RwQueues
<1>3. wq' \in Seq(Threads) /\ Distinct(wq') /\ Nodes(wq') = Nodes(wq) \ {t}
  BY <1>2, UnlinkedFacts, Zenon
<1>4. RwQueues'
  BY <1>1, <1>3, Zenon DEF RwQueues
<1>5. RwState'
  <2>1. Rw!Holders("reader") = {} /\ Rw!Holders("writer") = {}
    BY RwRanges, Zenon
  <2>2. Rw!Holders("reader")' = {} /\ Rw!Holders("writer")' = {t}
    BY <1>1, <2>1, Zenon
  <2> QED
    BY <2>2, Zenon DEF RwState
<1>6. Rw!WritersCounted'
  <2>1. CASE pc[t] = "wr"
    BY <1>1, <2>1, RwCounts, RwQueue, Zenon DEF Rw!WritersCounted
  <2>2. CASE pc[t] # "wr"
    <3>1. Rw!Holders("wr")' = Rw!Holders("wr")
      BY <1>0, <1>1, <2>2
    <3> QED
      BY <3>1, <2>2, RwQueue, Zenon DEF Rw!WritersCounted
  <2> QED
    BY <2>1, <2>2, Zenon
<1>7. Rw!NobodyStranded'
  BY <1>1, Zenon DEF Rw!NobodyStranded
<1>8. Rw!TypeOK'
  BY <1>0, <1>3, <1>5, <1>6, RwTypes, Zenon DEF Rw!TypeOK
<1> QED
  BY <1>4, <1>5, <1>6, <1>7, <1>8, Zenon

\* A writer that must wait: whoever holds the lock will wake it.
LEMMA RwWriteWaitIInv ==
    ASSUME RwIInv, NEW t \in Threads, t \notin blocked, pc[t] \in {"out", "wr"}, state # 0,
           waiting_writers' = (IF pc[t] = "wr" THEN waiting_writers - 1 ELSE waiting_writers) + 1,
           wq' = Append(Unlinked(wq, t), t), blocked' = blocked \cup {t},
           pc' = [pc EXCEPT ![t] = "wr"], UNCHANGED <<state, rq>>
    PROVE  RwIInv'
<1> USE DEF RwIInv
<1>0. /\ pc' \in [Threads -> {"out", "rd", "wr", "reader", "writer"}]
      /\ \A j : Rw!Holders(j)' = IF j = "wr" THEN Rw!Holders(j) \cup {t} ELSE Rw!Holders(j) \ {t}
      /\ \A j : t \in Rw!Holders(j) <=> pc[t] = j
      /\ \A j : j # "wr" /\ pc[t] # j => Rw!Holders(j)' = Rw!Holders(j)
  BY RwMove, Zenon
<1>1. /\ Rw!Holders("reader")' = Rw!Holders("reader") /\ Rw!Holders("writer")' = Rw!Holders("writer")
      /\ Rw!Holders("rd")' = Rw!Holders("rd") /\ Rw!Holders("wr")' = Rw!Holders("wr") \cup {t}
  BY <1>0, Zenon
<1>2. wq \in Seq(Threads) /\ Distinct(wq)
  BY Zenon DEF Rw!TypeOK, RwQueues
<1>3. wq' \in Seq(Threads) /\ Distinct(wq') /\ Nodes(wq') = Nodes(wq) \cup {t}
  <2>1. /\ Unlinked(wq, t) \in Seq(Threads) /\ Distinct(Unlinked(wq, t))
        /\ Nodes(Unlinked(wq, t)) = Nodes(wq) \ {t}
    BY <1>2, UnlinkedFacts, Zenon
  <2>2. t \notin Nodes(Unlinked(wq, t))
    BY <2>1, Zenon
  <2> QED
    BY <2>1, <2>2, AppendFacts
<1>4. RwQueues'
  BY <1>1, <1>3, Zenon DEF RwQueues
<1>5. RwState'
  BY <1>1, Zenon DEF RwState
<1>6. Rw!WritersCounted'
  <2>1. CASE pc[t] = "wr"
    <3>1. t \in Rw!Holders("wr") /\ waiting_writers \in Nat
      BY <1>0, <2>1, RwCounts, Zenon
    <3>2. Rw!Holders("wr")' = Rw!Holders("wr")
      BY <1>1, <3>1, Zenon
    <3>3. waiting_writers' = waiting_writers
      BY <2>1, <3>1
    <3> QED
      BY <3>2, <3>3, Zenon DEF Rw!WritersCounted
  <2>2. CASE pc[t] # "wr"
    BY <1>1, <2>2, RwCounts, RwQueue, Zenon DEF Rw!WritersCounted
  <2> QED
    BY <2>1, <2>2, Zenon
<1>7. Rw!NobodyStranded'
  <2>1. Rw!Holders("reader") \cup Rw!Holders("writer") # {}
    BY RwRanges, Zenon
  <2> QED
    BY <1>1, <2>1, Zenon DEF Rw!NobodyStranded
<1>8. Rw!TypeOK'
  BY <1>0, <1>3, <1>5, <1>6, RwTypes DEF Rw!TypeOK
<1> QED
  BY <1>4, <1>5, <1>6, <1>7, <1>8, Zenon

\* The holders after an unlock: the state word still counts them.
LEMMA RwLeave ==
    ASSUME RwIInv, NEW t \in Threads, pc[t] \in {"reader", "writer"},
           state' = IF state < 0 THEN 0 ELSE state - 1, pc' = [pc EXCEPT ![t] = "out"]
    PROVE  /\ pc' \in [Threads -> {"out", "rd", "wr", "reader", "writer"}]
           /\ Rw!Holders("rd")' = Rw!Holders("rd") /\ Rw!Holders("wr")' = Rw!Holders("wr")
           /\ RwState'
           /\ state' # 0 => Rw!Holders("reader")' # {}
<1> USE DEF RwIInv
<1>0. /\ pc' \in [Threads -> {"out", "rd", "wr", "reader", "writer"}]
      /\ \A j : Rw!Holders(j)' = IF j = "out" THEN Rw!Holders(j) \cup {t} ELSE Rw!Holders(j) \ {t}
      /\ \A j : t \in Rw!Holders(j) <=> pc[t] = j
      /\ \A j : j # "out" /\ pc[t] # j => Rw!Holders(j)' = Rw!Holders(j)
  BY RwMove, Zenon
<1>1. /\ Rw!Holders("reader")' = Rw!Holders("reader") \ {t}
      /\ Rw!Holders("writer")' = Rw!Holders("writer") \ {t}
      /\ Rw!Holders("rd")' = Rw!Holders("rd") /\ Rw!Holders("wr")' = Rw!Holders("wr")
  BY <1>0, Zenon
<1>2. Cardinality({}) = 0
  BY FS_EmptySet, Zenon
<1>3. CASE pc[t] = "writer"
  <2>1. t \in Rw!Holders("writer")
    BY <1>0, <1>3, Zenon
  <2>2. state = -1 /\ Rw!Holders("reader") = {} /\ Rw!Holders("writer") = {t}
    BY <2>1, Zenon DEF RwState
  <2>3. state' = 0
    BY <2>2
  <2>4. Rw!Holders("reader")' = {} /\ Rw!Holders("writer")' = {}
    BY <1>1, <2>2, Zenon
  <2> QED
    BY <1>0, <1>1, <1>2, <2>3, <2>4, Zenon DEF RwState
<1>4. CASE pc[t] = "reader"
  <2>1. t \in Rw!Holders("reader")
    BY <1>0, <1>4, Zenon
  <2>2. state = Cardinality(Rw!Holders("reader")) /\ Rw!Holders("writer") = {}
    BY <2>1, Zenon DEF RwState
  <2>3. /\ Cardinality(Rw!Holders("reader")') = Cardinality(Rw!Holders("reader")) - 1
        /\ Rw!Holders("writer")' = {}
    BY <1>1, <1>4, <2>2, RwCounts, Zenon
  <2>4. ~(state < 0)
    BY <2>2, RwRanges, Zenon
  <2>5. state' = Cardinality(Rw!Holders("reader")')
    BY <2>2, <2>3, <2>4, Zenon
  <2> QED
    BY <1>0, <1>1, <1>2, <2>3, <2>5, Zenon DEF RwState
<1> QED
  BY <1>3, <1>4, Zenon

\* pthread_rwlock_unlock keeps it: the last holder wakes a writer if there is one, else all readers.
LEMMA RwUnlockIInv ==
    ASSUME RwIInv, NEW t \in Threads, Rw!pthread_rwlock_unlock(t)
    PROVE  RwIInv'
<1> USE DEF RwIInv
<1>1. /\ pc[t] \in {"reader", "writer"} /\ state' = IF state < 0 THEN 0 ELSE state - 1
      /\ pc' = [pc EXCEPT ![t] = "out"] /\ waiting_writers' = waiting_writers
  BY Zenon DEF Rw!pthread_rwlock_unlock
<1>2. /\ pc' \in [Threads -> {"out", "rd", "wr", "reader", "writer"}]
      /\ Rw!Holders("rd")' = Rw!Holders("rd") /\ Rw!Holders("wr")' = Rw!Holders("wr")
      /\ RwState' /\ (state' # 0 => Rw!Holders("reader")' # {})
  BY <1>1, RwLeave, Zenon
<1>3. Rw!WritersCounted'
  BY <1>1, <1>2, Zenon DEF Rw!WritersCounted
<1>4. /\ rq \in Seq(Threads) /\ Distinct(rq) /\ wq \in Seq(Threads) /\ Distinct(wq)
      /\ blocked \in SUBSET Threads
  BY Zenon DEF Rw!TypeOK, RwQueues
<1>5. CASE state' # 0 /\ UNCHANGED <<rq, wq, blocked>>
  <2>1. RwQueues'
    BY <1>2, <1>5, Zenon DEF RwQueues
  <2>2. Rw!NobodyStranded'
    BY <1>2, <1>5, Zenon DEF Rw!NobodyStranded
  <2>3. Rw!TypeOK'
    BY <1>2, <1>3, <1>4, <1>5, RwTypes, Zenon
  <2> QED
    BY <1>2, <1>3, <2>1, <2>2, <2>3, Zenon
<1>6. CASE /\ waiting_writers > 0 /\ wq' = AfterWakeOne(wq, blocked)
           /\ blocked' = blocked \ WakeOne(wq, blocked) /\ UNCHANGED rq
  <2> DEFINE A == AfterWakeOne(wq, blocked)
             W == WakeOne(wq, blocked)
  <2>1. /\ W \subseteq Nodes(wq) \cap blocked
        /\ Nodes(wq) \cap blocked # {} => \E u \in Nodes(wq) \cap blocked : W = {u}
        /\ A \in Seq(Threads) /\ Distinct(A) /\ Nodes(A) \subseteq Nodes(wq)
        /\ (Nodes(wq) \cap blocked) \ W \subseteq Nodes(A)
    BY <1>4, WakeOneFacts
  <2> HIDE DEF A, W
  <2>2. RwQueues'
    BY <1>2, <1>6, <2>1, Zenon DEF RwQueues, A, W
  <2>3. \E u \in Rw!Holders("wr") : u \notin blocked'
    <3>1. Rw!Holders("wr") # {}
      BY <1>6, RwRanges, Zenon
    <3>2. CASE \E u \in Rw!Holders("wr") : u \notin blocked
      BY <1>6, <3>2, Zenon
    <3>3. CASE Rw!Holders("wr") \subseteq blocked
      <4>1. PICK u \in Rw!Holders("wr") : u \in blocked
        BY <3>1, <3>3, Zenon
      <4>2. u \in Nodes(wq)
        BY <4>1, Zenon DEF RwQueues, Rw!Holders
      <4>3. PICK v \in Nodes(wq) \cap blocked : W = {v}
        BY <2>1, <4>1, <4>2, Zenon
      <4> QED
        BY <1>6, <4>3, Zenon DEF RwQueues, W
    <3> QED
      BY <3>2, <3>3, Zenon
  <2>4. Rw!NobodyStranded'
    BY <1>2, <2>3, Zenon DEF Rw!NobodyStranded
  <2>5. Rw!TypeOK'
    <3>1. blocked' \in SUBSET Threads /\ wq' \in Seq(Threads) /\ rq' \in Seq(Threads)
      BY <1>4, <1>6, <2>1, Zenon DEF A
    <3> QED
      BY <1>2, <1>3, <3>1, RwTypes, Zenon
  <2> QED
    BY <1>2, <1>3, <2>2, <2>4, <2>5, Zenon
<1>7. CASE /\ ~(waiting_writers > 0) /\ rq' = <<>> /\ blocked' = blocked \ (Nodes(rq) \cap blocked)
           /\ UNCHANGED wq
  <2>1. Rw!Holders("wr") = {}
    BY <1>7, RwRanges, Zenon
  <2>2. blocked' = {}
    BY <1>7, <2>1, Zenon DEF RwQueues
  <2>3. RwQueues'
    BY <1>2, <1>7, <2>2 DEF RwQueues, Distinct, Nodes
  <2>4. Rw!NobodyStranded'
    BY <2>2, Zenon DEF Rw!NobodyStranded
  <2>5. Rw!TypeOK'
    <3>1. blocked' \in SUBSET Threads /\ wq' \in Seq(Threads) /\ rq' \in Seq(Threads)
      BY <1>4, <1>7, <2>2
    <3> QED
      BY <1>2, <1>3, <3>1, RwTypes, Zenon
  <2> QED
    BY <1>2, <1>3, <2>3, <2>4, <2>5, Zenon
<1> QED
  BY <1>5, <1>6, <1>7, RwQueue, Zenon DEF Rw!pthread_rwlock_unlock

\* A signal to a sleeper keeps it: the thread goes round its loop.
LEMMA RwInterruptIInv ==
    ASSUME RwIInv, NEW t \in Threads, Rw!Interrupt(t)
    PROVE  RwIInv'
<1> USE DEF RwIInv
<1>1. /\ t \in blocked /\ blocked' = blocked \ {t}
      /\ UNCHANGED <<state, waiting_writers, rq, wq, pc>>
  BY Zenon DEF Rw!Interrupt
<1>2. \A j : Rw!Holders(j)' = Rw!Holders(j)
  BY <1>1, Zenon DEF Rw!Holders
<1>3. RwState' /\ Rw!WritersCounted'
  BY <1>1, <1>2, Zenon DEF RwState, Rw!WritersCounted
<1>4. RwQueues'
  BY <1>1, <1>2, Zenon DEF RwQueues
<1>5. Rw!NobodyStranded'
  BY <1>1, <1>2, Zenon DEF Rw!NobodyStranded
<1>6. Rw!TypeOK'
  BY <1>1, Zenon DEF Rw!TypeOK
<1> QED
  BY <1>3, <1>4, <1>5, <1>6, Zenon

\* A thread outside the calls is on no queue and does not sleep.
LEMMA RwOutside ==
    ASSUME RwIInv, NEW t \in Threads, pc[t] = "out"
    PROVE  t \notin blocked /\ Unlinked(rq, t) = rq /\ Unlinked(wq, t) = wq
<1>1. t \notin Nodes(rq) /\ t \notin Nodes(wq)
  BY Zenon DEF RwIInv, RwQueues, Rw!Holders
<1> QED
  BY <1>1, Zenon DEF RwIInv, RwQueues, Unlinked

\* Every step of the rwlock keeps the invariant.
LEMMA RwNextIInv == RwIInv /\ [Rw!Next]_Rw!vars => RwIInv'
<1> SUFFICES ASSUME RwIInv, [Rw!Next]_Rw!vars
             PROVE  RwIInv'
  BY Zenon
<1>1. ASSUME NEW t \in Threads, Rw!pthread_rwlock_rdlock(t)
      PROVE  RwIInv'
  BY <1>1, RwReadIInv, RwReadWaitIInv, RwQueue, Zenon DEF Rw!pthread_rwlock_rdlock
<1>2. ASSUME NEW t \in Threads, Rw!pthread_rwlock_tryrdlock(t)
      PROVE  RwIInv'
  <2>1. t \notin blocked /\ rq' = Unlinked(rq, t)
    BY <1>2, RwOutside, Zenon DEF Rw!pthread_rwlock_tryrdlock
  <2> QED
    BY <1>2, <2>1, RwReadIInv, Zenon DEF Rw!pthread_rwlock_tryrdlock
<1>3. ASSUME NEW t \in Threads, Rw!pthread_rwlock_wrlock(t)
      PROVE  RwIInv'
  BY <1>3, RwWriteIInv, RwWriteWaitIInv, RwQueue, Zenon DEF Rw!pthread_rwlock_wrlock
<1>4. ASSUME NEW t \in Threads, Rw!pthread_rwlock_trywrlock(t)
      PROVE  RwIInv'
  <2>1. /\ t \notin blocked /\ wq' = Unlinked(wq, t)
        /\ waiting_writers' = IF pc[t] = "wr" THEN waiting_writers - 1 ELSE waiting_writers
    BY <1>4, RwOutside DEF Rw!pthread_rwlock_trywrlock
  <2> QED
    BY <1>4, <2>1, RwWriteIInv, Zenon DEF Rw!pthread_rwlock_trywrlock
<1>5. CASE UNCHANGED Rw!vars
  BY <1>5, Zenon DEF Rw!vars, RwIInv, RwQueues, RwState, Rw!TypeOK, Rw!WritersCounted,
                     Rw!NobodyStranded, Rw!Holders
<1> QED
  BY <1>1, <1>2, <1>3, <1>4, <1>5, RwUnlockIInv, RwInterruptIInv, Zenon DEF Rw!Next

\* The invariant says what the lock is for.
LEMMA RwEnough == RwIInv => Rw!Exclusion
<1> SUFFICES ASSUME RwIInv
             PROVE  Rw!Exclusion
  BY Zenon
<1>1. Rw!Holders("writer") \in SUBSET Threads /\ Rw!Holders("reader") \in SUBSET Threads
  BY Zenon DEF Rw!Holders
<1>2. Cardinality(Rw!Holders("reader")) \in Nat
  BY <1>1, Counting, Zenon
<1>3. \A w : Rw!Holders("writer") = {w} => Cardinality(Rw!Holders("writer")) = 1
  BY <1>1, Counting, Zenon
<1> QED
  BY <1>2, <1>3, RwQueue DEF RwIInv, RwState, Rw!Exclusion

\* One writer or any number of readers (pthread_rwlock_*), with waiting_writers the number of
\* writers that wait, and no sleeper without a holder or a woken writer to wait for: for any
\* number of threads, however they come and whatever signals end their sleep.
THEOREM RwLockSound == Rw!Spec => [](Rw!Exclusion /\ Rw!WritersCounted /\ Rw!NobodyStranded)
<1>1. RwIInv => Rw!WritersCounted /\ Rw!NobodyStranded
  BY Zenon DEF RwIInv
<1> QED
  BY <1>1, RwInitIInv, RwNextIInv, RwEnough, PTL DEF Rw!Spec

\* No step lets a reader in while a writer waits.
LEMMA RwStepPrefers ==
    ASSUME RwIInv, [Rw!Next]_Rw!vars
    PROVE  Rw!Holders("wr") # {} => Rw!Holders("reader")' \subseteq Rw!Holders("reader")
<1> SUFFICES ASSUME Rw!Holders("wr") # {}
             PROVE  Rw!Holders("reader")' \subseteq Rw!Holders("reader")
  BY Zenon
<1>1. Rw!ReadersMustWait
  BY RwRanges, Zenon DEF RwIInv, Rw!ReadersMustWait
<1>2. pc \in [Threads -> {"out", "rd", "wr", "reader", "writer"}]
  BY Zenon DEF RwIInv, Rw!TypeOK
<1>3. \/ pc' = pc
      \/ \E t \in Threads, k \in {"out", "rd", "wr", "writer"} : pc' = [pc EXCEPT ![t] = k]
  BY <1>1, Zenon DEF Rw!Next, Rw!vars, Rw!pthread_rwlock_rdlock, Rw!pthread_rwlock_tryrdlock,
        Rw!pthread_rwlock_wrlock, Rw!pthread_rwlock_trywrlock, Rw!pthread_rwlock_unlock,
        Rw!Interrupt
<1>4. CASE pc' = pc
  BY <1>4, Zenon DEF Rw!Holders
<1>5. ASSUME NEW t \in Threads, NEW k \in {"out", "rd", "wr", "writer"}, pc' = [pc EXCEPT ![t] = k]
      PROVE  Rw!Holders("reader")' \subseteq Rw!Holders("reader")
  BY <1>2, <1>5, Zenon DEF Rw!Holders
<1> QED
  BY <1>3, <1>4, <1>5, Zenon

\* Writers come before readers (pthread_rwlock_rdlock, pthread_rwlock_tryrdlock).
THEOREM RwPrefersWriters == Rw!Spec => Rw!WritersPreferred
<1>1. RwIInv /\ [Rw!Next]_Rw!vars
        => [Rw!Holders("wr") # {} => Rw!Holders("reader")' \subseteq Rw!Holders("reader")]_Rw!vars
  BY RwStepPrefers, Zenon
<1> QED
  BY <1>1, RwInitIInv, RwNextIInv, PTL DEF Rw!Spec, Rw!WritersPreferred

-----------------------------------------------------------------------------
(* Barriers, module Barrier. *)

Br == INSTANCE Barrier

\* The operators the barrier takes from other modules are those used here.
LEMMA BrQueue ==
    /\ \A s : Br!Nodes(s) = Nodes(s)
    /\ \A s, t : Br!Unlinked(s, t) = Unlinked(s, t)
    /\ \A s, B : Br!WakeAll(s, B) = Nodes(s) \cap B
    /\ \A S : Br!Cardinality(S) = Cardinality(S)
<1>1. \A s : Br!Nodes(s) = Nodes(s)
  BY Zenon DEF Br!Nodes, Nodes
<1>2. \A s, t : Br!Unlinked(s, t) = Unlinked(s, t)
  BY Zenon DEF Br!Unlinked, Unlinked, Br!Nodes, Nodes
<1>3. \A s, B : Br!WakeAll(s, B) = Nodes(s) \cap B
  BY <1>1, Zenon DEF Br!WakeAll
<1>4. \A S : Br!Cardinality(S) = Cardinality(S)
  BY Zenon DEF Br!Cardinality, Cardinality
<1> QED
  BY <1>1, <1>2, <1>3, <1>4, Zenon

\* The generations before and after g.
LEMMA Generations ==
    ASSUME NEW m \in Nat, NEW g \in 0..m
    PROVE  /\ \A h \in 0..(g - 1) : h # g /\ h \in 0..m
           /\ \A h \in 0..m : h > g => h # g
           /\ g < m => /\ g + 1 \in 0..m /\ g + 1 # g /\ g + 1 > g
                       /\ \A h \in 0..m : h > g + 1 => h # g /\ h > g
                       /\ \A h \in 0..((g + 1) - 1) : h \in 0..m /\ (h = g \/ h \in 0..(g - 1))
OBVIOUS

\* The queue holds waiting threads, once each.
BrQueues == Distinct(wq) /\ \A t \in Nodes(wq) : gen[t] # -1

\* Nobody waits for a generation to come; the arrivals of the current one still wait in it, and
\* the later ones have none.
BrArrivals ==
    /\ \A t \in Threads : gen[t] <= generation
    /\ \A t \in arrived[generation] : gen[t] = generation
    /\ \A g \in 0..MaxGen : g > generation => arrived[g] = {}

BrIInv == Br!TypeOK /\ BrQueues /\ BrArrivals /\ Br!FullGenerations /\ Br!NobodyLeftBehind

\* The types, with -1 for NotIn.
LEMMA BrTypes ==
    Br!TypeOK <=> /\ count \in 0..(total - 1) /\ generation \in 0..MaxGen
                  /\ wq \in Seq(Threads) /\ blocked \in SUBSET Threads
                  /\ gen \in [Threads -> -1..MaxGen]
                  /\ arrived \in [0..MaxGen -> SUBSET Threads]
BY Zenon DEF Br!TypeOK, Br!NotIn

\* A barrier fresh from pthread_barrier_init satisfies the invariant.
LEMMA BrInitIInv == Br!Init => BrIInv
<1> SUFFICES ASSUME Br!Init
             PROVE  BrIInv
  BY Zenon
<1>1. /\ count = 0 /\ generation = 0 /\ wq = <<>> /\ blocked = {}
      /\ gen = [t \in Threads |-> -1] /\ arrived = [g \in 0..MaxGen |-> {}]
  BY Zenon DEF Br!Init, Br!NotIn
<1>2. Br!TypeOK
  BY <1>1, SyncAssumption, BrTypes
<1>3. BrQueues
  BY <1>1 DEF BrQueues, Distinct, Nodes
<1>4. BrArrivals
  BY <1>1, SyncAssumption DEF BrArrivals
<1>5. Br!FullGenerations
  <2>1. arrived[generation] = {} /\ 0..(generation - 1) = {}
    BY <1>1, SyncAssumption
  <2>2. Cardinality({}) = 0
    BY FS_EmptySet, Zenon
  <2> QED
    BY <1>1, <2>1, <2>2, BrQueue, Zenon DEF Br!FullGenerations
<1>6. Br!NobodyLeftBehind
  BY <1>1, Zenon DEF Br!NobodyLeftBehind
<1> QED
  BY <1>2, <1>3, <1>4, <1>5, <1>6, Zenon DEF BrIInv

\* A thread that comes to the barrier has not been counted in this generation, and is then.
LEMMA BrArrived ==
    ASSUME BrIInv, NEW t \in Threads, Br!Arrive(t)
    PROVE  /\ arrived' = [arrived EXCEPT ![generation] = arrived[generation] \cup {t}]
           /\ Cardinality(arrived'[generation]) = count + 1
           /\ arrived' \in [0..MaxGen -> SUBSET Threads]
           /\ gen[t] = -1 /\ t \notin Nodes(wq) /\ t \notin blocked
           /\ wq \in Seq(Threads) /\ Distinct(wq)
<1> USE DEF BrIInv
<1>1. arrived' = [arrived EXCEPT ![generation] = arrived[generation] \cup {t}] /\ gen[t] = -1
  BY Zenon DEF Br!Arrive, Br!NotIn
<1>2. /\ arrived \in [0..MaxGen -> SUBSET Threads] /\ generation \in 0..MaxGen
      /\ wq \in Seq(Threads) /\ Distinct(wq)
  BY BrTypes, Zenon DEF BrQueues
<1>3. t \notin Nodes(wq) /\ t \notin blocked
  BY <1>1, BrQueue, Zenon DEF BrQueues, Br!NobodyLeftBehind
<1>4. t \notin arrived[generation]
  BY <1>1, <1>2 DEF BrArrivals
<1>5. arrived[generation] \in SUBSET Threads /\ Cardinality(arrived[generation]) = count
  BY <1>2, BrQueue, Zenon DEF Br!FullGenerations
<1>6. Cardinality(arrived[generation] \cup {t}) = count + 1
  BY <1>4, <1>5, Counting, Zenon
<1>7. arrived'[generation] = arrived[generation] \cup {t}
  BY <1>1, <1>2, Zenon
<1>8. arrived' \in [0..MaxGen -> SUBSET Threads]
  BY <1>1, <1>2, Zenon
<1> QED
  BY <1>1, <1>2, <1>3, <1>6, <1>7, <1>8, Zenon

\* The last arrival opens the barrier: everybody is woken and the next generation begins.
LEMMA BrOpenIInv ==
    ASSUME BrIInv, NEW t \in Threads, Br!Arrive(t), Br!Open
    PROVE  BrIInv'
<1> USE DEF BrIInv
<1>1. /\ count + 1 = total /\ generation < MaxGen /\ count' = 0 /\ generation' = generation + 1
      /\ wq' = <<>> /\ blocked' = blocked \ (Nodes(wq) \cap blocked) /\ gen' = gen
  BY BrQueue, Zenon DEF Br!Open
<1>2. /\ count \in 0..(total - 1) /\ generation \in 0..MaxGen /\ blocked \in SUBSET Threads
      /\ gen \in [Threads -> -1..MaxGen] /\ arrived \in [0..MaxGen -> SUBSET Threads]
  BY BrTypes, Zenon
<1>3. /\ arrived' = [arrived EXCEPT ![generation] = arrived[generation] \cup {t}]
      /\ Cardinality(arrived'[generation]) = count + 1
      /\ arrived' \in [0..MaxGen -> SUBSET Threads]
  BY BrArrived, Zenon
<1>4. blocked' = {}
  BY <1>1, BrQueue, Zenon DEF Br!NobodyLeftBehind
<1>5. Br!TypeOK'
  <2>1. count' \in 0..(total - 1) /\ generation' \in 0..MaxGen /\ wq' \in Seq(Threads)
    BY <1>1, <1>2, SyncAssumption
  <2> QED
    BY <1>1, <1>2, <1>3, <1>4, <2>1, Zenon DEF Br!TypeOK, Br!NotIn
<1>6. BrQueues'
  BY <1>1 DEF BrQueues, Distinct, Nodes
<1>7. \A g \in 0..MaxGen : g # generation => arrived'[g] = arrived[g]
  BY <1>2, <1>3, Zenon
<1>8. BrArrivals'
  <2>1. \A u \in Threads : gen'[u] <= generation'
    BY <1>1, <1>2 DEF BrArrivals
  <2>2. \A g \in 0..MaxGen : g > generation' => g # generation /\ g > generation
    BY <1>1, <1>2, Generations, SyncAssumption, Zenon
  <2>3. generation' # generation /\ generation' \in 0..MaxGen /\ generation' > generation
    BY <1>1, <1>2, Generations, SyncAssumption, Zenon
  <2>4. \A g \in 0..MaxGen : g > generation' => arrived'[g] = {}
    BY <1>7, <2>2, Zenon DEF BrArrivals
  <2>5. arrived'[generation'] = {}
    BY <1>7, <2>3, Zenon DEF BrArrivals
  <2> QED
    BY <2>1, <2>4, <2>5, Zenon DEF BrArrivals
<1>9. Br!FullGenerations'
  <2>1. /\ generation' # generation /\ generation' \in 0..MaxGen /\ generation' > generation
        /\ \A g \in 0..(generation' - 1) : g \in 0..MaxGen /\ (g = generation \/ g \in 0..(generation - 1))
        /\ \A g \in 0..(generation - 1) : g # generation
    BY <1>1, <1>2, Generations, SyncAssumption, Zenon
  <2>2. arrived'[generation'] = {} /\ Cardinality({}) = 0
    BY <1>7, <2>1, FS_EmptySet, Zenon DEF BrArrivals
  <2>3. \A g \in 0..(generation - 1) : Cardinality(arrived[g]) = total
    BY BrQueue, Zenon DEF Br!FullGenerations
  <2>4. \A g \in 0..(generation' - 1) : Cardinality(arrived'[g]) = total
    BY <1>1, <1>3, <1>7, <2>1, <2>3, Zenon
  <2> QED
    BY <1>1, <2>2, <2>4, BrQueue, Zenon DEF Br!FullGenerations
<1>10. Br!NobodyLeftBehind'
  BY <1>4, Zenon DEF Br!NobodyLeftBehind
<1> QED
  BY <1>5, <1>6, <1>8, <1>9, <1>10, Zenon

\* Any other arrival is counted and sleeps.
LEMMA BrArriveIInv ==
    ASSUME BrIInv, NEW t \in Threads, Br!Arrive(t), ~Br!Open
    PROVE  BrIInv'
<1> USE DEF BrIInv
<1>1. /\ count + 1 # total /\ count' = count + 1 /\ gen' = [gen EXCEPT ![t] = generation]
      /\ wq' = Append(wq, t) /\ blocked' = blocked \cup {t} /\ generation' = generation
  BY Zenon DEF Br!Arrive
<1>2. /\ count \in 0..(total - 1) /\ generation \in 0..MaxGen /\ blocked \in SUBSET Threads
      /\ gen \in [Threads -> -1..MaxGen] /\ arrived \in [0..MaxGen -> SUBSET Threads]
  BY BrTypes, Zenon
<1>3. /\ arrived' = [arrived EXCEPT ![generation] = arrived[generation] \cup {t}]
      /\ Cardinality(arrived'[generation]) = count + 1
      /\ arrived' \in [0..MaxGen -> SUBSET Threads]
      /\ t \notin Nodes(wq) /\ wq \in Seq(Threads) /\ Distinct(wq)
  BY BrArrived, Zenon
<1>4. wq' \in Seq(Threads) /\ Distinct(wq') /\ Nodes(wq') = Nodes(wq) \cup {t}
  BY <1>1, <1>3, AppendFacts
<1>5. generation \in -1..MaxGen /\ generation # -1 /\ generation <= generation
  BY <1>2, SyncAssumption
<1>6. gen' \in [Threads -> -1..MaxGen] /\ \A u \in Threads : gen'[u] = IF u = t THEN generation ELSE gen[u]
  BY <1>1, <1>2, <1>5, Zenon
<1>7. Br!TypeOK'
  <2>1. count' \in 0..(total - 1) /\ blocked' \in SUBSET Threads
    BY <1>1, <1>2, SyncAssumption
  <2> QED
    BY <1>1, <1>2, <1>3, <1>4, <1>6, <2>1, Zenon DEF Br!TypeOK, Br!NotIn
<1>8. Nodes(wq) \subseteq Threads /\ Nodes(wq') \subseteq Threads
  BY <1>3, <1>4 DEF Nodes
<1>9. BrQueues'
  BY <1>4, <1>5, <1>6, <1>8, Zenon DEF BrQueues
<1>10. \A g \in 0..MaxGen : arrived'[g] = IF g = generation THEN arrived[g] \cup {t} ELSE arrived[g]
  BY <1>2, <1>3, Zenon
<1>11. BrArrivals'
  <2>1. \A u \in Threads : gen'[u] <= generation'
    BY <1>1, <1>5, <1>6, Zenon DEF BrArrivals
  <2>2. \A u \in arrived'[generation'] : gen'[u] = generation'
    <3>1. arrived'[generation] = arrived[generation] \cup {t} /\ arrived[generation] \subseteq Threads
      BY <1>2, <1>10, Zenon
    <3>2. \A u \in arrived[generation] \cup {t} : u \in Threads /\ (u = t \/ gen[u] = generation)
      BY <3>1, Zenon DEF BrArrivals
    <3> QED
      BY <1>1, <1>6, <3>1, <3>2, Zenon
  <2>3. \A g \in 0..MaxGen : g > generation => g # generation
    BY <1>2, Generations, SyncAssumption, Zenon
  <2>4. \A g \in 0..MaxGen : g > generation' => arrived'[g] = {}
    BY <1>1, <1>10, <2>3, Zenon DEF BrArrivals
  <2> QED
    BY <2>1, <2>2, <2>4, Zenon DEF BrArrivals
<1>12. Br!FullGenerations'
  <2>1. \A g \in 0..(generation - 1) : g # generation /\ g \in 0..MaxGen
    BY <1>2, Generations, SyncAssumption, Zenon
  <2> QED
    BY <1>1, <1>3, <1>10, <2>1, BrQueue, Zenon DEF Br!FullGenerations
<1>13. Br!NobodyLeftBehind'
  <2>1. \A u \in blocked : gen[u] = generation /\ u \in Nodes(wq) /\ u \in Threads
    BY <1>2, BrQueue, Zenon DEF Br!NobodyLeftBehind
  <2>2. \A u \in blocked' : gen'[u] = generation' /\ u \in Nodes(wq')
    BY <1>1, <1>4, <1>6, <2>1, Zenon
  <2> QED
    BY <2>2, BrQueue, Zenon DEF Br!NobodyLeftBehind
<1> QED
  BY <1>7, <1>9, <1>11, <1>12, <1>13, Zenon

\* A thread back from its sleep sleeps on, or leaves when its generation is over.
LEMMA BrAgainIInv ==
    ASSUME BrIInv, NEW t \in Threads, Br!Again(t)
    PROVE  BrIInv' /\ (gen'[t] = -1 => gen[t] < generation) /\ \A u \in Threads : u # t => gen'[u] = gen[u]
<1> USE DEF BrIInv
<1>1. /\ t \notin blocked /\ gen[t] # -1 /\ count' = count /\ generation' = generation
      /\ arrived' = arrived
  BY Zenon DEF Br!Again, Br!NotIn
<1>2. /\ count \in 0..(total - 1) /\ generation \in 0..MaxGen /\ blocked \in SUBSET Threads
      /\ gen \in [Threads -> -1..MaxGen] /\ arrived \in [0..MaxGen -> SUBSET Threads]
      /\ wq \in Seq(Threads) /\ Distinct(wq)
  BY BrTypes, Zenon DEF BrQueues
<1>3. /\ Unlinked(wq, t) \in Seq(Threads) /\ Distinct(Unlinked(wq, t))
      /\ Nodes(Unlinked(wq, t)) = Nodes(wq) \ {t}
  BY <1>2, UnlinkedFacts, Zenon
<1>4. Nodes(wq) \subseteq Threads
  BY <1>2 DEF Nodes
<1>5. \A u \in blocked : gen[u] = generation /\ u \in Nodes(wq) /\ u \in Threads
  BY <1>2, BrQueue, Zenon DEF Br!NobodyLeftBehind
<1>6. Br!FullGenerations'
  BY <1>1, Zenon DEF Br!FullGenerations
<1>7. CASE gen[t] = generation
  <2>1. wq' = Append(Unlinked(wq, t), t) /\ blocked' = blocked \cup {t} /\ gen' = gen
    BY <1>7, BrQueue, Zenon DEF Br!Again
  <2>2. t \notin Nodes(Unlinked(wq, t))
    BY <1>3, Zenon
  <2>3. /\ wq' \in Seq(Threads) /\ Distinct(wq')
        /\ Nodes(wq') = Nodes(Unlinked(wq, t)) \cup {t}
    BY <1>3, <2>1, <2>2, AppendFacts
  <2>4. Br!TypeOK'
    <3>1. blocked' \in SUBSET Threads
      BY <1>2, <2>1, Zenon
    <3> QED
      BY <1>1, <1>2, <2>1, <2>3, <3>1, Zenon DEF Br!TypeOK, Br!NotIn
  <2>5. BrQueues'
    BY <1>1, <1>3, <2>1, <2>3 DEF BrQueues
  <2>6. BrArrivals'
    BY <1>1, <2>1, Zenon DEF BrArrivals
  <2>7. Br!NobodyLeftBehind'
    <3>1. \A u \in blocked' : gen'[u] = generation' /\ u \in Nodes(wq')
      BY <1>1, <1>3, <1>5, <1>7, <2>1, <2>3
    <3> QED
      BY <3>1, BrQueue, Zenon DEF Br!NobodyLeftBehind
  <2> QED
    BY <1>1, <1>6, <2>1, <2>4, <2>5, <2>6, <2>7, Zenon
<1>8. CASE gen[t] # generation
  <2>1. wq' = Unlinked(wq, t) /\ gen' = [gen EXCEPT ![t] = -1] /\ blocked' = blocked
    BY <1>8, BrQueue, Zenon DEF Br!Again, Br!NotIn
  <2>2. -1 \in -1..MaxGen /\ -1 <= generation
    BY <1>2, SyncAssumption
  <2>3. gen' \in [Threads -> -1..MaxGen] /\ \A u \in Threads : gen'[u] = IF u = t THEN -1 ELSE gen[u]
    BY <1>2, <2>1, <2>2, Zenon
  <2>4. Br!TypeOK'
    BY <1>1, <1>2, <1>3, <2>1, <2>3, Zenon DEF Br!TypeOK, Br!NotIn
  <2>5. BrQueues'
    BY <1>3, <1>4, <2>1, <2>3 DEF BrQueues
  <2>6. t \notin arrived[generation] /\ arrived[generation] \subseteq Threads
    BY <1>2, <1>8, Zenon DEF BrArrivals
  <2>7. BrArrivals'
    BY <1>1, <2>2, <2>3, <2>6 DEF BrArrivals
  <2>8. Br!NobodyLeftBehind'
    <3>1. \A u \in blocked' : gen'[u] = generation' /\ u \in Nodes(wq')
      BY <1>1, <1>3, <1>5, <2>1, <2>3
    <3> QED
      BY <3>1, BrQueue, Zenon DEF Br!NobodyLeftBehind
  <2>9. gen[t] < generation
    <3>1. gen[t] <= generation /\ gen[t] \in -1..MaxGen
      BY <1>2, Zenon DEF BrArrivals
    <3> QED
      BY <1>2, <1>8, <3>1
  <2> QED
    BY <1>6, <2>3, <2>4, <2>5, <2>7, <2>8, <2>9, Zenon
<1> QED
  BY <1>7, <1>8, Zenon

\* Every step of the barrier keeps the invariant, and no thread leaves before its generation is over.
LEMMA BrNextIInv ==
    ASSUME BrIInv, [Br!Next]_Br!vars
    PROVE  BrIInv' /\ \A t \in Threads : gen[t] # -1 /\ gen'[t] = -1 => gen[t] < generation
<1>0. gen \in [Threads -> -1..MaxGen] /\ generation \in 0..MaxGen /\ MaxGen \in Nat
  BY BrTypes, SyncAssumption, Zenon DEF BrIInv
<1>1. ASSUME NEW t \in Threads, Br!Arrive(t)
      PROVE  BrIInv' /\ \A u \in Threads : gen[u] # -1 => gen'[u] # -1
  <2>1. CASE Br!Open
    BY <1>1, <2>1, BrOpenIInv, Zenon DEF Br!Open
  <2>2. CASE ~Br!Open
    <3>1. gen' = [gen EXCEPT ![t] = generation]
      BY <1>1, <2>2, Zenon DEF Br!Arrive
    <3>2. \A u \in Threads : gen[u] # -1 => gen'[u] # -1
      BY <1>0, <3>1
    <3> QED
      BY <1>1, <2>2, <3>2, BrArriveIInv, Zenon
  <2> QED
    BY <2>1, <2>2, Zenon
<1>2. ASSUME NEW t \in Threads, Br!Again(t)
      PROVE  BrIInv' /\ \A u \in Threads : gen[u] # -1 /\ gen'[u] = -1 => gen[u] < generation
  BY <1>2, BrAgainIInv, Zenon
<1>3. ASSUME NEW t \in Threads, Br!Interrupt(t)
      PROVE  BrIInv' /\ gen' = gen
  <2>1. blocked' = blocked \ {t} /\ UNCHANGED <<count, generation, wq, gen, arrived>>
    BY <1>3, Zenon DEF Br!Interrupt
  <2>2. Br!TypeOK' /\ Br!NobodyLeftBehind'
    BY <2>1, Zenon DEF BrIInv, Br!TypeOK, Br!NobodyLeftBehind
  <2>3. BrQueues' /\ BrArrivals' /\ Br!FullGenerations'
    BY <2>1, Zenon DEF BrIInv, BrQueues, BrArrivals, Br!FullGenerations
  <2> QED
    BY <2>1, <2>2, <2>3, Zenon DEF BrIInv
<1>4. ASSUME UNCHANGED Br!vars
      PROVE  BrIInv' /\ gen' = gen
  <2>1. UNCHANGED <<count, generation, wq, blocked, gen, arrived>>
    BY <1>4, Zenon DEF Br!vars
  <2>2. Br!TypeOK' /\ Br!NobodyLeftBehind'
    BY <2>1, Zenon DEF BrIInv, Br!TypeOK, Br!NobodyLeftBehind
  <2>3. BrQueues' /\ BrArrivals' /\ Br!FullGenerations'
    BY <2>1, Zenon DEF BrIInv, BrQueues, BrArrivals, Br!FullGenerations
  <2> QED
    BY <2>1, <2>2, <2>3, Zenon DEF BrIInv
<1> QED
  BY <1>1, <1>2, <1>3, <1>4, Zenon DEF Br!Next, Br!AtBound

\* Every generation that is over had exactly total distinct threads in it, the count is that of
\* the arrivals so far, and nobody sleeps on in one that is over (pthread_barrier_wait): for any
\* pool of threads, any count and any number of generations.
THEOREM BarrierSound == Br!Spec => [](Br!FullGenerations /\ Br!NobodyLeftBehind)
<1>1. BrIInv /\ [Br!Next]_Br!vars => BrIInv'
  BY BrNextIInv, Zenon
<1>2. BrIInv => Br!FullGenerations /\ Br!NobodyLeftBehind
  BY Zenon DEF BrIInv
<1> QED
  BY <1>1, <1>2, BrInitIInv, PTL DEF Br!Spec

\* No thread returns from pthread_barrier_wait before its generation is over.
THEOREM BarrierHolds == Br!Spec => Br!NobodyLeavesEarly
<1>1. BrIInv /\ [Br!Next]_Br!vars => BrIInv'
  BY BrNextIInv, Zenon
<1>2. BrIInv /\ [Br!Next]_Br!vars
        => [\A t \in Threads : gen[t] # Br!NotIn /\ gen'[t] = Br!NotIn => gen[t] < generation]_Br!vars
  BY BrNextIInv, Zenon DEF Br!NotIn
<1> QED
  BY <1>1, <1>2, BrInitIInv, PTL DEF Br!Spec, Br!NobodyLeavesEarly

-----------------------------------------------------------------------------
(* pthread_once, module Once. *)

On == INSTANCE Once

\* The operators pthread_once takes from other modules are those used here.
LEMMA OnQueue ==
    /\ \A s, t : On!Unlinked(s, t) = Unlinked(s, t)
    /\ \A s, B : On!WakeAll(s, B) = Nodes(s) \cap B
<1>1. \A s, t : On!Unlinked(s, t) = Unlinked(s, t)
  BY Zenon DEF On!Unlinked, Unlinked, On!Nodes, Nodes
<1>2. \A s, B : On!WakeAll(s, B) = Nodes(s) \cap B
  BY Zenon DEF On!WakeAll, On!Nodes, Nodes
<1> QED
  BY <1>1, <1>2, Zenon

\* The queue holds waiting threads, once each; a sleeper is on it.
OnQueues == Distinct(wq) /\ (\A t \in Nodes(wq) : pc[t] = "wait") /\ blocked \subseteq Nodes(wq)

\* running says that the routine was started, by one thread, which is in it until done.
OnFlags ==
    /\ runs = IF running THEN 1 ELSE 0
    /\ done => running
    /\ \A t \in Threads : pc[t] = "init" => running /\ ~done
    /\ \A t, u \in Threads : pc[t] = "init" /\ pc[u] = "init" => t = u
    /\ \A t \in Threads : pc[t] = "back" => done
    /\ done => blocked = {}

OnIInv == On!TypeOK /\ OnQueues /\ OnFlags

\* A fresh control satisfies the invariant.
LEMMA OnInitIInv == On!Init => OnIInv
<1> SUFFICES ASSUME On!Init
             PROVE  OnIInv
  BY Zenon
<1>1. On!TypeOK
  <2>1. wq \in Seq(Threads) /\ runs \in 0..1
    BY DEF On!Init
  <2>2. /\ done \in BOOLEAN /\ running \in BOOLEAN /\ blocked \in SUBSET Threads
        /\ pc \in [Threads -> {"out", "init", "wait", "back"}]
    BY Zenon DEF On!Init
  <2> QED
    BY <2>1, <2>2, Zenon DEF On!TypeOK
<1>2. OnQueues
  BY DEF On!Init, OnQueues, Distinct, Nodes
<1>3. OnFlags
  BY Zenon DEF On!Init, OnFlags
<1> QED
  BY <1>1, <1>2, <1>3, Zenon DEF OnIInv

\* A caller that comes keeps it: it returns, waits or starts the routine.
LEMMA OnCallIInv ==
    ASSUME OnIInv, NEW t \in Threads, On!pthread_once(t)
    PROVE  OnIInv'
<1> USE DEF OnIInv
<1>1. /\ pc \in [Threads -> {"out", "init", "wait", "back"}] /\ wq \in Seq(Threads)
      /\ done \in BOOLEAN /\ running \in BOOLEAN /\ blocked \in SUBSET Threads
      /\ runs \in 0..1 /\ Distinct(wq) /\ pc[t] = "out" /\ done' = done
  BY Zenon DEF On!TypeOK, OnQueues, On!pthread_once
<1>2. Nodes(wq) \subseteq Threads /\ t \notin Nodes(wq)
  BY <1>1 DEF Nodes, OnQueues
<1>3. ASSUME NEW k \in {"init", "wait", "back"}, pc' = [pc EXCEPT ![t] = k]
      PROVE  /\ pc' \in [Threads -> {"out", "init", "wait", "back"}]
             /\ \A u \in Threads : pc'[u] = IF u = t THEN k ELSE pc[u]
  BY <1>1, <1>3, Zenon
<1>4. CASE done /\ pc' = [pc EXCEPT ![t] = "back"] /\ UNCHANGED <<running, wq, blocked, runs>>
  <2>1. On!TypeOK'
    BY <1>1, <1>3, <1>4, Zenon DEF On!TypeOK
  <2>2. OnQueues'
    BY <1>2, <1>3, <1>4 DEF OnQueues
  <2>3. OnFlags'
    BY <1>1, <1>3, <1>4 DEF OnFlags
  <2> QED
    BY <2>1, <2>2, <2>3, Zenon
<1>5. CASE /\ ~done /\ running /\ wq' = Append(wq, t) /\ blocked' = blocked \cup {t}
           /\ pc' = [pc EXCEPT ![t] = "wait"] /\ UNCHANGED <<running, runs>>
  <2>1. wq' \in Seq(Threads) /\ Distinct(wq') /\ Nodes(wq') = Nodes(wq) \cup {t}
    BY <1>1, <1>2, <1>5, AppendFacts
  <2>2. On!TypeOK'
    BY <1>1, <1>3, <1>5, <2>1, Zenon DEF On!TypeOK
  <2>3. OnQueues'
    BY <1>2, <1>3, <1>5, <2>1 DEF OnQueues
  <2>4. OnFlags'
    BY <1>1, <1>3, <1>5 DEF OnFlags
  <2> QED
    BY <2>2, <2>3, <2>4, Zenon
<1>6. CASE /\ ~done /\ ~running /\ running' = TRUE /\ runs' = runs + 1
           /\ pc' = [pc EXCEPT ![t] = "init"] /\ UNCHANGED <<wq, blocked>>
  <2>1. runs = 0 /\ runs' = 1
    BY <1>6 DEF OnFlags
  <2>2. On!TypeOK'
    BY <1>1, <1>3, <1>6, <2>1 DEF On!TypeOK
  <2>3. OnQueues'
    BY <1>2, <1>3, <1>6, Zenon DEF OnQueues
  <2>4. OnFlags'
    BY <1>1, <1>3, <1>6, <2>1, Zenon DEF OnFlags
  <2> QED
    BY <2>2, <2>3, <2>4, Zenon
<1> QED
  BY <1>4, <1>5, <1>6, Zenon DEF On!pthread_once

\* A woken caller keeps it: it returns if the routine is over, else sleeps on.
LEMMA OnWokenIInv ==
    ASSUME OnIInv, NEW t \in Threads, On!once_woken(t)
    PROVE  OnIInv'
<1> USE DEF OnIInv
<1>1. /\ pc \in [Threads -> {"out", "init", "wait", "back"}] /\ wq \in Seq(Threads)
      /\ done \in BOOLEAN /\ running \in BOOLEAN /\ blocked \in SUBSET Threads
      /\ runs \in 0..1 /\ Distinct(wq) /\ pc[t] = "wait" /\ t \notin blocked
      /\ UNCHANGED <<done, running, runs>>
  BY Zenon DEF On!TypeOK, OnQueues, On!once_woken
<1>2. /\ Unlinked(wq, t) \in Seq(Threads) /\ Distinct(Unlinked(wq, t))
      /\ Nodes(Unlinked(wq, t)) = Nodes(wq) \ {t} /\ Nodes(wq) \subseteq Threads
  <2>1. wq \in Seq(Threads) /\ Distinct(wq)
    BY <1>1, Zenon
  <2>2. Nodes(wq) \subseteq Threads
    BY <2>1 DEF Nodes
  <2> QED
    BY <2>1, <2>2, UnlinkedFacts, Zenon
<1>3. CASE done /\ wq' = Unlinked(wq, t) /\ pc' = [pc EXCEPT ![t] = "back"] /\ UNCHANGED blocked
  <2>1. /\ pc' \in [Threads -> {"out", "init", "wait", "back"}]
        /\ \A u \in Threads : pc'[u] = IF u = t THEN "back" ELSE pc[u]
    BY <1>1, <1>3, Zenon
  <2>2. On!TypeOK'
    BY <1>1, <1>2, <1>3, <2>1, Zenon DEF On!TypeOK
  <2>3. OnQueues'
    BY <1>1, <1>2, <1>3, <2>1 DEF OnQueues
  <2>4. OnFlags'
    BY <1>1, <1>3, <2>1 DEF OnFlags
  <2> QED
    BY <2>2, <2>3, <2>4, Zenon
<1>4. CASE /\ ~done /\ wq' = Append(Unlinked(wq, t), t) /\ blocked' = blocked \cup {t}
           /\ UNCHANGED pc
  <2>1. t \notin Nodes(Unlinked(wq, t))
    BY <1>2, Zenon
  <2>2. /\ wq' \in Seq(Threads) /\ Distinct(wq')
        /\ Nodes(wq') = Nodes(Unlinked(wq, t)) \cup {t}
    BY <1>2, <1>4, <2>1, AppendFacts
  <2>3. On!TypeOK'
    BY <1>1, <1>4, <2>2, Zenon DEF On!TypeOK
  <2>4. OnQueues'
    BY <1>1, <1>2, <1>4, <2>2 DEF OnQueues
  <2>5. OnFlags'
    BY <1>1, <1>4, Zenon DEF OnFlags
  <2> QED
    BY <2>3, <2>4, <2>5, Zenon
<1> QED
  BY <1>3, <1>4, OnQueue, Zenon DEF On!once_woken

\* The end of the routine keeps it: everybody who waits is woken.
LEMMA OnReturnsIInv ==
    ASSUME OnIInv, NEW t \in Threads, On!init_routine_returns(t)
    PROVE  OnIInv'
<1> USE DEF OnIInv
<1>1. /\ pc[t] = "init" /\ done' = TRUE /\ wq' = <<>> /\ blocked' = blocked \ (Nodes(wq) \cap blocked)
      /\ pc' = [pc EXCEPT ![t] = "back"] /\ UNCHANGED <<running, runs>>
  BY OnQueue, Zenon DEF On!init_routine_returns
<1>2. blocked' = {}
  BY <1>1, Zenon DEF OnQueues
<1>3. pc \in [Threads -> {"out", "init", "wait", "back"}] /\ running \in BOOLEAN /\ runs \in 0..1
  BY Zenon DEF On!TypeOK
<1>4. /\ pc' \in [Threads -> {"out", "init", "wait", "back"}]
      /\ \A u \in Threads : pc'[u] = IF u = t THEN "back" ELSE pc[u]
  BY <1>1, <1>3, Zenon
<1>5. On!TypeOK'
  BY <1>1, <1>2, <1>3, <1>4 DEF On!TypeOK
<1>6. OnQueues'
  BY <1>1, <1>2 DEF OnQueues, Distinct, Nodes
<1>7. OnFlags'
  BY <1>1, <1>2, <1>4, Zenon DEF OnFlags
<1> QED
  BY <1>5, <1>6, <1>7, Zenon

\* Every step of pthread_once keeps the invariant.
LEMMA OnNextIInv == OnIInv /\ [On!Next]_On!vars => OnIInv'
<1> SUFFICES ASSUME OnIInv, [On!Next]_On!vars
             PROVE  OnIInv'
  BY Zenon
<1>1. ASSUME NEW t \in Threads, On!Interrupt(t)
      PROVE  OnIInv'
  BY <1>1, Zenon DEF On!Interrupt, OnIInv, On!TypeOK, OnQueues, OnFlags
<1>2. CASE UNCHANGED On!vars
  BY <1>2, Zenon DEF On!vars, OnIInv, On!TypeOK, OnQueues, OnFlags
<1> QED
  BY <1>1, <1>2, OnCallIInv, OnWokenIInv, OnReturnsIInv, Zenon DEF On!Next, On!Finished

\* init_routine runs once (On!TypeOK has runs at most 1), and no caller of pthread_once is back
\* before it is over, for any number of callers and whatever signals end their waits.
THEOREM OnceSound == On!Spec => [](On!TypeOK /\ On!ReturnsAfterInit)
<1>1. OnIInv => On!TypeOK /\ On!ReturnsAfterInit
  BY Zenon DEF OnIInv, OnFlags, On!ReturnsAfterInit
<1> QED
  BY <1>1, OnInitIInv, OnNextIInv, PTL DEF On!Spec

=============================================================================
