----------------------------- MODULE SchedProofs -----------------------------
(***************************************************************************)
(* The scheduler, for any finite set of threads, any number of levels and  *)
(* any timeouts: its queues and lists stay exact, it implements SchedAbs,  *)
(* and with that it keeps the promises of SchedAbs.                        *)
(***************************************************************************)
EXTENDS Sched, NaturalsInduction, WellFoundedInduction, FiniteSetTheorems, TLAPS

-----------------------------------------------------------------------------
(* What the operations of WaitQueue promise, for queues of any length. *)

\* < is a well-founded order of the naturals.
LEMMA NatOrder ==
    \E R : IsWellFoundedOn(R, Nat) /\ \A x, y \in Nat : y < x => <<y, x>> \in R
<1>1. IsWellFoundedOn(OpToRel(<, Nat), Nat)
  BY NatLessThanWellFounded
<1>2. \A x, y \in Nat : y < x => <<y, x>> \in OpToRel(<, Nat)
  BY DEF OpToRel
<1> QED
  BY <1>1, <1>2, Zenon

\* A nonempty set of naturals has a least element.
LEMMA LeastElement ==
    ASSUME NEW S, S \subseteq Nat, S # {}
    PROVE  \E x \in S : \A y \in S : x <= y
<1>1. PICK R : IsWellFoundedOn(R, Nat) /\ \A x, y \in Nat : y < x => <<y, x>> \in R
  BY NatOrder
<1>2. PICK x \in S : \A y \in S : ~ (<<y, x>> \in R)
  BY <1>1, WFMin
<1>3. ASSUME NEW y \in S
      PROVE  x <= y
  <2>1. x \in Nat /\ y \in Nat
    OBVIOUS
  <2>2. ~(y < x)
    BY <1>1, <1>2, <2>1, Zenon
  <2> QED
    BY <2>1, <2>2
<1> QED
  BY <1>3

\* There is at most one first BLOCKED node, and there is one when some node is
\* BLOCKED: wq_wake_one cannot miss it, whatever stale nodes precede it.
LEMMA FirstLiveExists ==
    ASSUME NEW T, NEW s \in Seq(T), NEW B, Nodes(s) \cap B # {}
    PROVE  \E i \in DOMAIN s : FirstLive(s, B) = {i} /\ s[i] \in B
<1> DEFINE L == {k \in DOMAIN s : s[k] \in B}
<1>1. L \subseteq Nat /\ L # {}
  BY DEF Nodes
<1>2. PICK i \in L : \A k \in L : i <= k
  BY <1>1, LeastElement
<1>3. \A k \in FirstLive(s, B) : k = i
  <2>1. SUFFICES ASSUME NEW k \in DOMAIN s, s[k] \in B, \A j \in 1..(k - 1) : s[j] \notin B
                 PROVE  k = i
    BY DEF FirstLive
  <2>2. i <= k
    BY <1>2, <2>1
  <2>3. ~(i < k)
    BY <1>2, <2>1
  <2> QED
    BY <2>2, <2>3, <1>1
<1>4. i \in FirstLive(s, B)
  BY <1>2 DEF FirstLive
<1> QED
  BY <1>2, <1>3, <1>4

\* A queue with no BLOCKED thread has no first one: wq_wake_one empties it and wakes nobody.
LEMMA FirstLiveNone ==
    ASSUME NEW T, NEW s \in Seq(T), NEW B, Nodes(s) \cap B = {}
    PROVE  FirstLive(s, B) = {}
BY DEF FirstLive, Nodes

\* wq_wake_one wakes one BLOCKED thread of the queue if there is any, and no
\* other node that is BLOCKED leaves the queue.
LEMMA WakeOneFacts ==
    ASSUME NEW T, NEW s \in Seq(T), NEW B, Distinct(s)
    PROVE  /\ WakeOne(s, B) \subseteq Nodes(s) \cap B
           /\ Nodes(s) \cap B # {} => \E t \in Nodes(s) \cap B : WakeOne(s, B) = {t}
           /\ AfterWakeOne(s, B) \in Seq(T)
           /\ Distinct(AfterWakeOne(s, B))
           /\ Nodes(AfterWakeOne(s, B)) \subseteq Nodes(s)
           /\ (Nodes(s) \cap B) \ WakeOne(s, B) \subseteq Nodes(AfterWakeOne(s, B))
           /\ WakeOne(s, B) \cap Nodes(AfterWakeOne(s, B)) = {}
<1>1. CASE Nodes(s) \cap B = {}
  <2>1. FirstLive(s, B) = {}
    BY <1>1, FirstLiveNone
  <2>2. AfterWakeOne(s, B) = <<>> /\ WakeOne(s, B) = {}
    BY <2>1 DEF AfterWakeOne, WakeOne
  <2> QED
    BY <2>2, <1>1 DEF Distinct, Nodes
<1>2. CASE Nodes(s) \cap B # {}
  <2>1. PICK i \in DOMAIN s : FirstLive(s, B) = {i} /\ s[i] \in B
    BY <1>2, FirstLiveExists
  <2>2. \A j \in 1..(i - 1) : s[j] \notin B
    BY <2>1 DEF FirstLive
  <2>3. (CHOOSE k \in FirstLive(s, B) : TRUE) = i
    BY <2>1
  <2>4. WakeOne(s, B) = {s[i]}
    BY <2>1 DEF WakeOne
  <2> DEFINE r == SubSeq(s, i + 1, Len(s))
  <2>5. AfterWakeOne(s, B) = r
    BY <2>1, <2>3 DEF AfterWakeOne
  <2>6. i \in 1..Len(s) /\ Len(s) \in Nat
    OBVIOUS
  <2>7. /\ r \in Seq(T) /\ Len(r) = Len(s) - i
        /\ \A k \in 1..(Len(s) - i) : r[k] = s[k + i]
    BY <2>6
  <2>8. DOMAIN r = 1..(Len(s) - i)
    BY <2>7
  <2> HIDE DEF r
  <2>9. Distinct(r)
    <3>1. ASSUME NEW a \in DOMAIN r, NEW b \in DOMAIN r, r[a] = r[b]
          PROVE  a = b
      <4>1. a + i \in DOMAIN s /\ b + i \in DOMAIN s /\ s[a + i] = s[b + i]
        BY <2>6, <2>7, <2>8, <3>1
      <4>2. a + i = b + i
        BY <4>1 DEF Distinct
      <4> QED
        BY <4>2, <2>8
    <3> QED
      BY <3>1 DEF Distinct
  <2>10. \A k \in DOMAIN r : k + i \in DOMAIN s /\ k + i # i /\ r[k] = s[k + i]
    BY <2>6, <2>7, <2>8
  <2>11. Nodes(r) \subseteq Nodes(s) /\ s[i] \notin Nodes(r)
    BY <2>10 DEF Nodes, Distinct
  <2>12. ASSUME NEW j \in DOMAIN s, s[j] \in B, j # i
         PROVE  s[j] \in Nodes(r)
    <3>1. j > i
      BY <2>2, <2>6, <2>12
    <3>2. j - i \in DOMAIN r /\ r[j - i] = s[j]
      BY <3>1, <2>6, <2>7, <2>8
    <3> QED
      BY <3>2 DEF Nodes
  <2>13. (Nodes(s) \cap B) \ {s[i]} \subseteq Nodes(r)
    BY <2>12 DEF Nodes
  <2>14. s[i] \in Nodes(s) \cap B
    BY <2>1 DEF Nodes
  <2> QED
    BY <2>4, <2>5, <2>7, <2>9, <2>11, <2>13, <2>14
<1> QED
  BY <1>1, <1>2

\* wq_remove takes exactly t off the queue.
LEMMA UnlinkedFacts ==
    ASSUME NEW T, NEW s \in Seq(T), NEW t, Distinct(s)
    PROVE  /\ Unlinked(s, t) \in Seq(T)
           /\ Distinct(Unlinked(s, t))
           /\ Nodes(Unlinked(s, t)) = Nodes(s) \ {t}
<1>1. CASE t \notin Nodes(s)
  BY <1>1 DEF Unlinked
<1>2. CASE t \in Nodes(s)
  <2> DEFINE i == CHOOSE k \in DOMAIN s : s[k] = t
             u == [j \in 1..(Len(s) - 1) |-> IF j < i THEN s[j] ELSE s[j + 1]]
  <2>1. i \in DOMAIN s /\ s[i] = t
    BY <1>2 DEF Nodes
  <2>2. Unlinked(s, t) = u
    BY <1>2 DEF Unlinked
  <2> HIDE DEF i
  <2>3. Len(s) - 1 \in Nat /\ \A j \in 1..(Len(s) - 1) : u[j] \in T
    BY <2>1
  <2>4. u \in Seq(T)
    BY <2>3
  <2>5. DOMAIN u = 1..(Len(s) - 1)
    OBVIOUS
  <2>6. Distinct(u)
    BY <2>1, <2>3, <2>5 DEF Distinct
  <2>7. \A j \in DOMAIN u : u[j] \in Nodes(s) /\ u[j] # t
    BY <2>1, <2>3, <2>5 DEF Nodes, Distinct
  <2>8. ASSUME NEW k \in DOMAIN s, s[k] # t
        PROVE  s[k] \in Nodes(u)
    <3>1. CASE k < i
      <4>1. k \in DOMAIN u /\ u[k] = s[k]
        BY <3>1, <2>1, <2>5
      <4> QED
        BY <4>1 DEF Nodes
    <3>2. CASE k > i
      <4>1. k - 1 \in DOMAIN u /\ u[k - 1] = s[k]
        BY <3>2, <2>1, <2>5
      <4> QED
        BY <4>1 DEF Nodes
    <3>3. k # i
      BY <2>1, <2>8
    <3> QED
      BY <3>1, <3>2, <3>3, <2>1
  <2>9. Nodes(u) = Nodes(s) \ {t}
    BY <2>7, <2>8 DEF Nodes
  <2> HIDE DEF u
  <2> QED
    BY <2>2, <2>4, <2>6, <2>9
<1> QED
  BY <1>1, <1>2

\* A thread that was not on the queue is appended to it.
LEMMA AppendFacts ==
    ASSUME NEW T, NEW s \in Seq(T), NEW t \in T, Distinct(s), t \notin Nodes(s)
    PROVE  /\ Append(s, t) \in Seq(T)
           /\ Distinct(Append(s, t))
           /\ Nodes(Append(s, t)) = Nodes(s) \cup {t}
<1> DEFINE u == Append(s, t)
<1>1. /\ u \in Seq(T) /\ DOMAIN u = 1..(Len(s) + 1) /\ Len(s) \in Nat
      /\ u[Len(s) + 1] = t /\ \A i \in 1..Len(s) : u[i] = s[i]
  OBVIOUS
<1>2. DOMAIN s = 1..Len(s)
  OBVIOUS
<1> HIDE DEF u
<1>3. \A i \in DOMAIN s : s[i] # t
  BY DEF Nodes
<1>4. Distinct(u)
  BY <1>1, <1>2, <1>3 DEF Distinct
<1>5. Nodes(u) = Nodes(s) \cup {t}
  <2>1. Nodes(u) \subseteq Nodes(s) \cup {t}
    BY <1>1, <1>2 DEF Nodes
  <2>2. \A i \in DOMAIN s : s[i] \in Nodes(u)
    BY <1>1, <1>2 DEF Nodes
  <2>3. t \in Nodes(u)
    <3>1. Len(s) + 1 \in DOMAIN u
      BY <1>1
    <3> QED
      BY <1>1, <3>1 DEF Nodes
  <2> QED
    BY <2>1, <2>2, <2>3 DEF Nodes
<1> QED
  BY <1>1, <1>4, <1>5 DEF u

\* Counting the elements of I up to m: at most one more than up to m - 1.
LEMMA CountStep ==
    ASSUME NEW n \in Nat, NEW I \in SUBSET (1..n), NEW m \in 1..n
    PROVE  LET C(x) == AtMost(I, x)
           IN  /\ IsFiniteSet(C(m)) /\ Cardinality(C(m)) \in Nat /\ Cardinality(C(m - 1)) \in Nat
               /\ m \in I => Cardinality(C(m)) = Cardinality(C(m - 1)) + 1
               /\ m \notin I => Cardinality(C(m)) = Cardinality(C(m - 1))
<1> USE DEF AtMost
<1> DEFINE C(x) == AtMost(I, x)
<1>0. m \in Int /\ \A j \in I : j \in Int
  OBVIOUS
<1>1. IsFiniteSet(1..n)
  BY FS_Interval
<1>2. IsFiniteSet(C(m)) /\ IsFiniteSet(C(m - 1))
  BY <1>1, FS_Subset
<1>3. Cardinality(C(m)) \in Nat /\ Cardinality(C(m - 1)) \in Nat
  BY <1>2, FS_CardinalityType
<1>4. CASE m \in I
  <2>1. \A j \in I : j <= m <=> j <= m - 1 \/ j = m
    BY <1>0
  <2>2. m \notin C(m - 1)
    BY <1>0
  <2>3. C(m) = C(m - 1) \cup {m}
    BY <1>4, <2>1, Zenon
  <2> QED BY <1>2, <1>3, <1>4, <2>2, <2>3, FS_AddElement
<1>5. CASE m \notin I
  <2>1. \A j \in I : j <= m <=> j <= m - 1
    BY <1>0, <1>5
  <2>2. C(m) = C(m - 1)
    BY <2>1
  <2> QED BY <1>2, <1>3, <1>5, <2>2
<1> QED BY <1>4, <1>5

\* The k-th element of I exists.
LEMMA NthExists ==
    ASSUME NEW n \in Nat, NEW I \in SUBSET (1..n), NEW k \in 1..Cardinality(I)
    PROVE  \E i \in I : Cardinality(AtMost(I, i)) = k
<1> USE DEF AtMost
<1> DEFINE C(x) == AtMost(I, x)
           T == {m \in 0..n : k <= Cardinality(C(m))}
<1>1. IsFiniteSet(I) /\ Cardinality(I) \in Nat
  <2>1. IsFiniteSet(1..n)
    BY FS_Interval
  <2>2. IsFiniteSet(I)
    BY <2>1, FS_Subset
  <2> QED BY <2>2, FS_CardinalityType
<1>2. C(n) = I /\ C(0) = {}
  <2>1. \A j \in I : j <= n /\ ~(j <= 0)
    OBVIOUS
  <2> QED BY <2>1
<1>3. n \in T /\ 0 \notin T
  BY <1>1, <1>2, FS_EmptySet
<1>4. T \subseteq Nat
  OBVIOUS
<1> HIDE DEF T
<1>5. PICK m \in T : \A x \in T : m <= x
  BY <1>3, <1>4, LeastElement
<1>6. m \in 1..n /\ m - 1 \notin T /\ k <= Cardinality(C(m))
  <2>1. m \in 0..n /\ k <= Cardinality(C(m))
    BY <1>5 DEF T
  <2>2. m # 0
    BY <1>3, <1>5
  <2>3. m \in 1..n
    BY <2>1, <2>2
  <2>4. m - 1 \notin T
    BY <2>3, <1>4, <1>5
  <2> QED BY <2>1, <2>3, <2>4
<1>7. ~ (k <= Cardinality(C(m - 1)))
  BY <1>6 DEF T
<1>8. /\ Cardinality(C(m)) \in Nat /\ Cardinality(C(m - 1)) \in Nat
      /\ m \in I => Cardinality(C(m)) = Cardinality(C(m - 1)) + 1
      /\ m \notin I => Cardinality(C(m)) = Cardinality(C(m - 1))
  BY <1>6, CountStep
<1>9. k \in Nat
  BY <1>1
<1> HIDE DEF C
<1>10. m \in I /\ Cardinality(C(m)) = k
  BY <1>6, <1>7, <1>8, <1>9
<1> QED BY <1>10 DEF C

\* No two elements of I have the same number of elements up to them.
LEMMA NthUnique ==
    ASSUME NEW n \in Nat, NEW I \in SUBSET (1..n), NEW a \in I, NEW b \in I, a < b
    PROVE  /\ Cardinality(AtMost(I, a)) # Cardinality(AtMost(I, b))
           /\ Cardinality(AtMost(I, b)) \in 1..Cardinality(I)
<1> USE DEF AtMost
<1> DEFINE A == AtMost(I, a)
           B == AtMost(I, b)
<1>1. IsFiniteSet(1..n)
  BY FS_Interval
<1>2. IsFiniteSet(I)
  BY <1>1, FS_Subset
<1>3. IsFiniteSet(A) /\ IsFiniteSet(B)
  BY <1>2, FS_Subset
<1>4. A \in SUBSET B /\ A # B /\ B # {} /\ B \in SUBSET I
  <2>1. a \in Int /\ b \in Int /\ \A j \in I : j \in Int
    OBVIOUS
  <2>2. b \in B /\ b \notin A
    BY <2>1
  <2>3. \A j \in I : j <= a => j <= b
    BY <2>1
  <2> QED BY <2>2, <2>3
<1>5. Cardinality(A) # Cardinality(B)
  BY <1>3, <1>4, FS_Subset
<1>6. Cardinality(B) # 0 /\ Cardinality(B) \in Nat /\ Cardinality(B) <= Cardinality(I)
  BY <1>2, <1>3, <1>4, FS_EmptySet, FS_CardinalityType, FS_Subset
<1>7. Cardinality(I) \in Nat
  BY <1>2, FS_CardinalityType
<1> QED BY <1>5, <1>6, <1>7

\* Picking the nodes of some threads keeps them once each, and loses none of them.
LEMMA ThoseFacts ==
    ASSUME NEW T, NEW s \in Seq(T), NEW S
    PROVE  /\ Those(s, S) \in Seq(T)
           /\ Nodes(Those(s, S)) = Nodes(s) \cap S
           /\ Distinct(s) => Distinct(Those(s, S))
<1> DEFINE I == {i \in DOMAIN s : s[i] \in S}
           N(i) == Cardinality(AtMost(I, i))
           Nth(k) == CHOOSE i \in I : N(i) = k
           r == [k \in 1..Cardinality(I) |-> s[Nth(k)]]
<1>1. Those(s, S) = r
  BY DEF Those
<1>2. I \in SUBSET (1..Len(s)) /\ Len(s) \in Nat /\ DOMAIN s = 1..Len(s)
  OBVIOUS
<1>3. Cardinality(I) \in Nat
  <2>1. IsFiniteSet(1..Len(s))
    BY <1>2, FS_Interval
  <2>2. IsFiniteSet(I)
    BY <1>2, <2>1, FS_Subset
  <2> QED BY <2>2, FS_CardinalityType
<1>4. \A k \in 1..Cardinality(I) : \E i \in I : N(i) = k
  BY <1>2, NthExists
<1>5. \A k \in 1..Cardinality(I) : Nth(k) \in I /\ N(Nth(k)) = k
  BY <1>4
<1>6. \A a, b \in I : N(a) = N(b) => a = b
  <2> SUFFICES ASSUME NEW a \in I, NEW b \in I, a # b PROVE N(a) # N(b)
    OBVIOUS
  <2>1. CASE a < b
    BY <1>2, <2>1, NthUnique
  <2>2. CASE b < a
    BY <1>2, <2>2, NthUnique
  <2> QED BY <1>2, <2>1, <2>2
<1>7. \A i \in I : N(i) \in 1..Cardinality(I)
  <2> SUFFICES ASSUME NEW i \in I PROVE N(i) \in 1..Cardinality(I)
    OBVIOUS
  <2> DEFINE B == AtMost(I, i)
  <2>1. IsFiniteSet(1..Len(s))
    BY <1>2, FS_Interval
  <2>2. IsFiniteSet(I)
    BY <1>2, <2>1, FS_Subset
  <2>3. B \in SUBSET I /\ i \in B
    BY <1>2 DEF AtMost
  <2>4. IsFiniteSet(B) /\ Cardinality(B) <= Cardinality(I)
    BY <2>2, <2>3, FS_Subset
  <2>5. Cardinality(B) \in Nat /\ Cardinality(B) # 0
    BY <2>3, <2>4, FS_EmptySet, FS_CardinalityType
  <2> QED BY <1>3, <2>4, <2>5
<1>8. \A i \in I : i \in DOMAIN s /\ s[i] \in S /\ s[i] \in T
  OBVIOUS
<1> HIDE DEF N, I
<1>9. \A i \in I : Nth(N(i)) = i
  BY <1>5, <1>6, <1>7
<1> HIDE DEF Nth
<1>10. r \in Seq(T)
  BY <1>3, <1>5, <1>8
<1>11. DOMAIN r = 1..Cardinality(I) /\ \A k \in DOMAIN r : r[k] = s[Nth(k)]
  OBVIOUS
<1> HIDE DEF r
<1>12. Nodes(r) = Nodes(s) \cap S
  <2>1. \A k \in DOMAIN r : r[k] \in Nodes(s) \cap S
    BY <1>5, <1>8, <1>11 DEF Nodes
  <2>2. ASSUME NEW i \in DOMAIN s, s[i] \in S PROVE s[i] \in Nodes(r)
    <3>1. i \in I
      BY <2>2 DEF I
    <3>2. N(i) \in DOMAIN r /\ r[N(i)] = s[i]
      BY <3>1, <1>7, <1>9, <1>11
    <3> QED BY <3>2 DEF Nodes
  <2> QED BY <2>1, <2>2 DEF Nodes
<1>13. Distinct(s) => Distinct(r)
  <2> SUFFICES ASSUME Distinct(s), NEW a \in DOMAIN r, NEW b \in DOMAIN r, r[a] = r[b]
               PROVE  a = b
    BY DEF Distinct
  <2>1. Nth(a) = Nth(b)
    BY <1>5, <1>8, <1>11 DEF Distinct
  <2> QED BY <2>1, <1>5, <1>11
<1> QED BY <1>1, <1>10, <1>12, <1>13

\* Two lists without a common thread, one after the other.
LEMMA ConcatFacts ==
    ASSUME NEW T, NEW s \in Seq(T), NEW r \in Seq(T), Distinct(s), Distinct(r),
           Nodes(s) \cap Nodes(r) = {}
    PROVE  /\ s \o r \in Seq(T)
           /\ Nodes(s \o r) = Nodes(s) \cup Nodes(r)
           /\ Distinct(s \o r)
<1> DEFINE u == s \o r
<1>1. /\ u \in Seq(T) /\ Len(u) = Len(s) + Len(r) /\ Len(s) \in Nat /\ Len(r) \in Nat
      /\ \A i \in 1..Len(s) : u[i] = s[i]
      /\ \A i \in (Len(s) + 1)..(Len(s) + Len(r)) : u[i] = r[i - Len(s)]
  OBVIOUS
<1>2. DOMAIN u = 1..(Len(s) + Len(r)) /\ DOMAIN s = 1..Len(s) /\ DOMAIN r = 1..Len(r)
  BY <1>1
<1> HIDE DEF u
<1>3. \A i \in DOMAIN u : \/ i \in DOMAIN s /\ u[i] = s[i]
                          \/ i - Len(s) \in DOMAIN r /\ u[i] = r[i - Len(s)] /\ i > Len(s)
  BY <1>1, <1>2
<1>4. \A i \in DOMAIN s : i \in DOMAIN u /\ u[i] = s[i]
  BY <1>1, <1>2
<1>5. ASSUME NEW i \in DOMAIN r
      PROVE  i + Len(s) \in DOMAIN u /\ u[i + Len(s)] = r[i]
  <2>1. i \in 1..Len(r)
    BY <1>2
  <2>2. i + Len(s) \in (Len(s) + 1)..(Len(s) + Len(r)) /\ (i + Len(s)) - Len(s) = i
    BY <2>1, <1>1
  <2>3. i + Len(s) \in DOMAIN u
    BY <2>1, <1>1, <1>2
  <2> QED
    BY <2>2, <2>3, <1>1
<1>6. Nodes(u) = Nodes(s) \cup Nodes(r)
  <2>1. Nodes(u) \subseteq Nodes(s) \cup Nodes(r)
    BY <1>3 DEF Nodes
  <2>2. Nodes(s) \subseteq Nodes(u)
    BY <1>4 DEF Nodes
  <2>3. Nodes(r) \subseteq Nodes(u)
    BY <1>5 DEF Nodes
  <2> QED BY <2>1, <2>2, <2>3
<1>7. Distinct(u)
  <2> SUFFICES ASSUME NEW a \in DOMAIN u, NEW b \in DOMAIN u, u[a] = u[b] PROVE a = b
    BY DEF Distinct
  <2>1. \A i \in DOMAIN s, j \in DOMAIN r : s[i] # r[j]
    BY DEF Nodes
  <2>2. CASE a \in DOMAIN s /\ u[a] = s[a] /\ b \in DOMAIN s /\ u[b] = s[b]
    BY <2>2 DEF Distinct
  <2>3. CASE /\ a - Len(s) \in DOMAIN r /\ u[a] = r[a - Len(s)]
             /\ b - Len(s) \in DOMAIN r /\ u[b] = r[b - Len(s)]
    <3>1. a - Len(s) = b - Len(s)
      BY <2>3 DEF Distinct
    <3> QED BY <3>1, <1>1, <1>2
  <2> QED BY <1>3, <2>1, <2>2, <2>3
<1> QED BY <1>1, <1>6, <1>7 DEF u

\* The head of a list popped.
LEMMA TailFacts ==
    ASSUME NEW T, NEW s \in Seq(T), s # <<>>, Distinct(s)
    PROVE  /\ Head(s) \in Nodes(s) /\ Head(s) \in T
           /\ Tail(s) \in Seq(T)
           /\ Nodes(Tail(s)) = Nodes(s) \ {Head(s)}
           /\ Distinct(Tail(s))
<1> DEFINE u == Tail(s)
<1>1. /\ u \in Seq(T) /\ Len(s) \in Nat \ {0} /\ Len(u) = Len(s) - 1
      /\ Head(s) = s[1] /\ \A i \in 1..(Len(s) - 1) : u[i] = s[i + 1]
  OBVIOUS
<1>2. DOMAIN u = 1..(Len(s) - 1) /\ DOMAIN s = 1..Len(s) /\ 1 \in DOMAIN s
  BY <1>1
<1> HIDE DEF u
<1>3. \A i \in DOMAIN u : i + 1 \in DOMAIN s /\ i + 1 # 1 /\ u[i] = s[i + 1]
  BY <1>1, <1>2
<1>4. \A i \in DOMAIN s : i # 1 => i - 1 \in DOMAIN u /\ u[i - 1] = s[i]
  BY <1>1, <1>2
<1>5. Nodes(u) = Nodes(s) \ {s[1]}
  <2>1. \A i \in DOMAIN u : u[i] \in Nodes(s) \ {s[1]}
    BY <1>2, <1>3 DEF Nodes, Distinct
  <2>2. \A i \in DOMAIN s : s[i] # s[1] => s[i] \in Nodes(u)
    BY <1>4 DEF Nodes
  <2> QED BY <2>1, <2>2 DEF Nodes
<1>6. Distinct(u)
  <2> SUFFICES ASSUME NEW a \in DOMAIN u, NEW b \in DOMAIN u, u[a] = u[b] PROVE a = b
    BY DEF Distinct
  <2>1. a + 1 = b + 1
    BY <1>3 DEF Distinct
  <2> QED BY <2>1, <1>1, <1>2
<1>7. Head(s) \in Nodes(s) /\ Head(s) \in T
  BY <1>1, <1>2 DEF Nodes
<1> QED BY <1>1, <1>5, <1>6, <1>7 DEF u

\* A queue is empty exactly when no thread is on it.
LEMMA NodesEmpty == ASSUME NEW T, NEW s \in Seq(T) PROVE s = <<>> <=> Nodes(s) = {}
<1>1. CASE s = <<>>
  BY <1>1 DEF Nodes
<1>2. CASE s # <<>>
  <2>1. 1 \in DOMAIN s
    BY <1>2
  <2> QED BY <1>2, <2>1 DEF Nodes
<1> QED BY <1>1, <1>2

-----------------------------------------------------------------------------
(* The scheduler. *)

States == {"READY", "RUNNING", "BLOCKED"}

\* RunqExact for run queues and states that a call has not stored yet.
RunqHolds(rq, st) ==
    \A p \in Levels :
        /\ Distinct(rq[p])
        /\ \A t \in Threads : t \in Nodes(rq[p]) <=> st[t] = "READY" /\ priority[t] = p

\* Exactly one thread is RUNNING, the one on the CPU.
OneRunning == \A t \in AllThreads : state[t] = "RUNNING" <=> t = current_process

\* What schedule() is entered with: only the outgoing thread may be RUNNING, and it is on no
\* queue.
Entered(st, rq) ==
    /\ st \in [AllThreads -> States] /\ rq \in [Levels -> Seq(Threads)]
    /\ RunqHolds(rq, st)
    /\ \A t \in AllThreads : st[t] = "RUNNING" => t = current_process
    /\ IF current_process = Idle THEN st[Idle] = "RUNNING" ELSE st[current_process] # "READY"

\* The thread states once the outgoing thread is off the CPU.
Off(st) ==
    [t \in AllThreads |-> IF t # current_process THEN st[t]
                          ELSE IF st[t] = "RUNNING" THEN "READY" ELSE "BLOCKED"]

\* What the constants and the levels of the threads give: idle is below every other thread.
LEMMA Params ==
    /\ Idle \notin Threads /\ LowestLevel \in Nat /\ Levels \subseteq Nat
    /\ \A t \in Threads : priority[t] \in Levels /\ rank[t] = priority[t] /\ t \in AllThreads
    /\ Idle \in AllThreads /\ rank[Idle] = LowestLevel + 1
    /\ \A t \in AllThreads : rank[t] <= rank[Idle] /\ rank[t] \in Nat
    /\ \A t \in AllThreads : t # Idle => t \in Threads
    /\ Quantum \in Nat \ {0}
<1>1. Idle \notin Threads /\ LowestLevel \in Nat /\ priority \in [Threads -> Levels]
  BY SchedParamsAssumption, Zenon
<1>2. /\ Levels \subseteq Nat /\ \A t \in Threads : priority[t] \in Levels /\ t \in AllThreads
      /\ Idle \in AllThreads /\ \A t \in AllThreads : t # Idle => t \in Threads
  BY <1>1 DEF Levels, AllThreads
<1>3. \A t \in Threads : rank[t] = priority[t] /\ rank[t] \in Nat /\ rank[t] <= LowestLevel
  <2>1. \A t \in Threads : rank[t] = priority[t]
    BY <1>1, <1>2, Zenon DEF rank
  <2>2. \A l \in Levels : l \in Nat /\ l <= LowestLevel
    BY <1>1 DEF Levels
  <2> QED BY <1>2, <2>1, <2>2, Zenon
<1>4. rank[Idle] = LowestLevel + 1
  BY <1>1, <1>2, Zenon DEF rank
<1>5. \A t \in AllThreads : rank[t] <= rank[Idle] /\ rank[t] \in Nat
  <2> SUFFICES ASSUME NEW t \in AllThreads PROVE rank[t] <= rank[Idle] /\ rank[t] \in Nat
    BY Zenon
  <2>1. CASE t = Idle
    BY <1>1, <1>4, <2>1
  <2>2. CASE t \in Threads
    BY <1>1, <1>3, <1>4, <2>2
  <2> QED BY <1>2, <2>1, <2>2, Zenon
<1> QED BY <1>1, <1>2, <1>3, <1>4, <1>5, SchedAssumption, Zenon

-----------------------------------------------------------------------------
(* schedule() *)

\* The outgoing thread at the tail of its level, if it is still RUNNING.
LEMMA Requeue ==
    ASSUME current_process \in AllThreads, NEW st, NEW rq, Entered(st, rq)
    PROVE  LET requeued == current_process # Idle /\ st[current_process] = "RUNNING"
               rq1 == IF requeued THEN runq_push(rq, current_process) ELSE rq
           IN  rq1 \in [Levels -> Seq(Threads)] /\ RunqHolds(rq1, Off(st))
<1> DEFINE c == current_process
           requeued == c # Idle /\ st[c] = "RUNNING"
           rq1 == IF requeued THEN runq_push(rq, c) ELSE rq
<1>1. CASE requeued
  <2> DEFINE l == priority[c]
  <2>1. c \in Threads /\ l \in Levels /\ rq[l] \in Seq(Threads) /\ Distinct(rq[l])
    BY <1>1, Params, Zenon DEF Entered, RunqHolds
  <2>2. c \notin Nodes(rq[l])
    BY <1>1, <2>1, Zenon DEF Entered, RunqHolds
  <2>3. /\ Append(rq[l], c) \in Seq(Threads) /\ Distinct(Append(rq[l], c))
        /\ Nodes(Append(rq[l], c)) = Nodes(rq[l]) \cup {c}
    BY <2>1, <2>2, AppendFacts
  <2>4. rq1 = [rq EXCEPT ![l] = Append(rq[l], c)] /\ rq1 \in [Levels -> Seq(Threads)]
    BY <1>1, <2>1, <2>3, Zenon DEF runq_push, Entered
  <2>5. /\ rq1[l] = Append(rq[l], c) /\ \A p \in Levels : p # l => rq1[p] = rq[p]
    BY <2>1, <2>4, Zenon DEF Entered
  <2> HIDE DEF rq1
  <2>6. \A t \in Threads : Off(st)[t] = IF t = c THEN "READY" ELSE st[t]
    BY <1>1, Params, Zenon DEF Off
  <2>7. ASSUME NEW p \in Levels
        PROVE  /\ Distinct(rq1[p])
               /\ \A t \in Threads : t \in Nodes(rq1[p]) <=> Off(st)[t] = "READY" /\ priority[t] = p
    <3>1. CASE p = l
      BY <3>1, <2>1, <2>3, <2>5, <2>6 DEF Entered, RunqHolds
    <3>2. CASE p # l
      BY <3>2, <2>1, <2>5, <2>6, Zenon DEF Entered, RunqHolds
    <3> QED BY <3>1, <3>2, Zenon
  <2> QED BY <2>4, <2>7, Zenon DEF RunqHolds, rq1
<1>2. CASE ~requeued
  <2>1. rq1 = rq /\ rq \in [Levels -> Seq(Threads)]
    BY <1>2, Zenon DEF Entered
  <2>2. \A t \in Threads : Off(st)[t] = "READY" <=> st[t] = "READY"
    BY <1>2, Params, Zenon DEF Off, Entered
  <2> QED BY <2>1, <2>2, Zenon DEF RunqHolds, Entered
<1> QED BY <1>1, <1>2, Zenon

\* runq_pop_highest finds the first thread of the highest level that has one.
LEMMA Highest ==
    ASSUME NEW rq \in [Levels -> Seq(Threads)], SomeQueued(rq)
    PROVE  /\ HighestLevel(rq) \in Levels /\ rq[HighestLevel(rq)] # <<>>
           /\ \A p \in Levels : rq[p] # <<>> => HighestLevel(rq) <= p
<1> DEFINE L == {p \in Levels : rq[p] # <<>>}
<1>1. L # {} /\ L \subseteq Nat
  BY Params, Zenon DEF SomeQueued
<1>2. PICK m \in L : \A p \in L : m <= p
  BY <1>1, LeastElement, Zenon
<1>3. \A k \in Levels : k < m => rq[k] = <<>>
  BY <1>1, <1>2, Params
<1>4. \E p \in Levels : rq[p] # <<>> /\ \A k \in Levels : k < p => rq[k] = <<>>
  BY <1>2, <1>3, Zenon
<1> DEFINE h == HighestLevel(rq)
<1>5. h \in Levels /\ rq[h] # <<>> /\ \A k \in Levels : k < h => rq[k] = <<>>
  BY <1>4, Zenon DEF HighestLevel
<1> HIDE DEF h
<1>6. \A p \in Levels : rq[p] # <<>> => h <= p
  BY <1>5, Params
<1> QED BY <1>5, <1>6, Zenon DEF h

\* What schedule() leaves behind: exact run queues, one RUNNING thread, and none READY above it.
LEMMA ScheduleFacts ==
    ASSUME current_process \in AllThreads, NEW st, NEW rq, Entered(st, rq), schedule(st, rq)
    PROVE  /\ state' \in [AllThreads -> States] /\ runq' \in [Levels -> Seq(Threads)]
           /\ current_process' \in AllThreads /\ ticks_left' = Quantum
           /\ RunqHolds(runq', state')
           /\ \A t \in AllThreads : state'[t] = "RUNNING" <=> t = current_process'
           /\ \A t \in Threads : Off(st)[t] = "READY" => rank[current_process'] <= rank[t]
           /\ state' = [Off(st) EXCEPT ![current_process'] = "RUNNING"]
           /\ current_process' = Idle \/ Off(st)[current_process'] = "READY"
<1> DEFINE c == current_process
           requeued == c # Idle /\ st[c] = "RUNNING"
           rq1 == IF requeued THEN runq_push(rq, c) ELSE rq
           level == HighestLevel(rq1)
           next == IF SomeQueued(rq1) THEN Head(rq1[level]) ELSE Idle
           st1 == IF requeued \/ (c = Idle /\ next # Idle) THEN [st EXCEPT ![c] = "READY"] ELSE st
<1>1. /\ runq' = IF next = Idle THEN rq1 ELSE [rq1 EXCEPT ![level] = Tail(@)]
      /\ state' = [st1 EXCEPT ![next] = "RUNNING"]
      /\ ticks_left' = Quantum
      /\ current_process' = next
  BY Zenon DEF schedule
<1>2. rq1 \in [Levels -> Seq(Threads)] /\ RunqHolds(rq1, Off(st))
  BY Requeue, Zenon
<1>3. /\ Off(st) \in [AllThreads -> States] /\ \A t \in AllThreads : Off(st)[t] # "RUNNING"
      /\ st \in [AllThreads -> States]
  BY Zenon DEF Off, Entered, States
<1>4. requeued => SomeQueued(rq1)
  <2> SUFFICES ASSUME requeued PROVE SomeQueued(rq1)
    BY Zenon
  <2>1. c \in Threads /\ Off(st)[c] = "READY" /\ priority[c] \in Levels
    BY Params, Zenon DEF Off
  <2> HIDE DEF rq1
  <2>2. c \in Nodes(rq1[priority[c]])
    BY <1>2, <2>1, Zenon DEF RunqHolds
  <2> QED BY <2>1, <2>2 DEF SomeQueued, Nodes
<1> HIDE DEF rq1
<1>5. CASE SomeQueued(rq1)
  <2>1. /\ level \in Levels /\ rq1[level] # <<>>
        /\ \A p \in Levels : rq1[p] # <<>> => level <= p
    BY <1>2, <1>5, Highest, Zenon
  <2>2. rq1[level] \in Seq(Threads) /\ Distinct(rq1[level]) /\ next = Head(rq1[level])
    BY <1>2, <1>5, <2>1, Zenon DEF RunqHolds
  <2>3. /\ next \in Nodes(rq1[level]) /\ next \in Threads
        /\ Tail(rq1[level]) \in Seq(Threads)
        /\ Nodes(Tail(rq1[level])) = Nodes(rq1[level]) \ {next}
        /\ Distinct(Tail(rq1[level]))
    BY <2>1, <2>2, TailFacts
  <2> HIDE DEF next, level
  <2>4. Off(st)[next] = "READY" /\ priority[next] = level /\ next # Idle /\ next \in AllThreads
    BY <1>2, <2>1, <2>3, Params, Zenon DEF RunqHolds
  <2>5. st1 = Off(st)
    <3>1. CASE requeued \/ c = Idle
      BY <3>1, <1>3, <2>4, Zenon DEF Off, Entered
    <3>2. CASE ~requeued /\ c # Idle
      BY <3>2, <1>3, Zenon DEF Off, Entered, States
    <3> QED BY <3>1, <3>2, Zenon
  <2> HIDE DEF st1
  <2>6. /\ runq' = [rq1 EXCEPT ![level] = Tail(rq1[level])]
        /\ state' = [Off(st) EXCEPT ![next] = "RUNNING"] /\ current_process' = next
    BY <1>1, <1>2, <2>1, <2>4, <2>5, Zenon
  <2>7. state' \in [AllThreads -> States] /\ runq' \in [Levels -> Seq(Threads)]
    BY <1>2, <1>3, <2>1, <2>3, <2>4, <2>6, Zenon DEF States
  <2>8. \A t \in AllThreads : state'[t] = IF t = next THEN "RUNNING" ELSE Off(st)[t]
    BY <1>3, <2>4, <2>6, Zenon
  <2>9. \A p \in Levels : runq'[p] = IF p = level THEN Tail(rq1[level]) ELSE rq1[p]
    BY <1>2, <2>1, <2>6, Zenon
  <2>10. ASSUME NEW p \in Levels
         PROVE  /\ Distinct(runq'[p])
                /\ \A t \in Threads : t \in Nodes(runq'[p]) <=> state'[t] = "READY" /\ priority[t] = p
    <3>1. CASE p = level
      BY <1>2, <3>1, <2>3, <2>4, <2>8, <2>9, Params, SMTT(30) DEF RunqHolds
    <3>2. CASE p # level
      BY <1>2, <3>2, <2>3, <2>4, <2>8, <2>9, Params, SMTT(30) DEF RunqHolds
    <3> QED BY <3>1, <3>2, Zenon
  <2>11. \A t \in Threads : Off(st)[t] = "READY" => rank[next] <= rank[t]
    <3> SUFFICES ASSUME NEW t \in Threads, Off(st)[t] = "READY" PROVE level <= priority[t]
      BY <2>3, <2>4, Params, Zenon
    <3>1. t \in Nodes(rq1[priority[t]]) /\ priority[t] \in Levels
      BY <1>2, Params, Zenon DEF RunqHolds
    <3> QED BY <3>1, <2>1 DEF Nodes
  <2>12. \A t \in AllThreads : state'[t] = "RUNNING" <=> t = next
    BY <1>3, <2>8, Zenon
  <2> QED BY <1>1, <2>4, <2>6, <2>7, <2>10, <2>11, <2>12, Zenon DEF RunqHolds
<1>6. CASE ~SomeQueued(rq1)
  <2>1. next = Idle /\ ~requeued
    BY <1>4, <1>6, Zenon
  <2>2. \A t \in Threads : Off(st)[t] # "READY"
    <3> SUFFICES ASSUME NEW t \in Threads, Off(st)[t] = "READY" PROVE FALSE
      BY Zenon
    <3>1. t \in Nodes(rq1[priority[t]]) /\ priority[t] \in Levels
      BY <1>2, Params, Zenon DEF RunqHolds
    <3> QED BY <3>1, <1>6 DEF Nodes, SomeQueued
  <2>3. st1 = st /\ runq' = rq1 /\ current_process' = Idle
    BY <1>1, <2>1, Zenon
  <2>4. state' = [st EXCEPT ![Idle] = "RUNNING"]
    BY <1>1, <2>1, <2>3, Zenon
  <2>5. \A t \in AllThreads : t # Idle => Off(st)[t] = st[t]
    BY <1>3, <2>1, Zenon DEF Off, Entered, States
  <2>6. state' = [Off(st) EXCEPT ![Idle] = "RUNNING"]
    BY <1>3, <2>4, <2>5, Zenon
  <2>7. \A t \in AllThreads : state'[t] = IF t = Idle THEN "RUNNING" ELSE Off(st)[t]
    BY <1>3, <2>6, Zenon
  <2>8. state' \in [AllThreads -> States]
    BY <1>3, <2>6, Zenon DEF States
  <2>9. RunqHolds(runq', state')
    BY <1>2, <2>3, <2>7, Params DEF RunqHolds
  <2>10. \A t \in AllThreads : state'[t] = "RUNNING" <=> t = Idle
    BY <1>3, <2>7, Zenon
  <2> QED BY <1>1, <1>2, <2>2, <2>3, <2>6, <2>8, <2>9, <2>10, Params, ZenonT(60)
<1> QED BY <1>5, <1>6, Zenon

-----------------------------------------------------------------------------
(* Steps of SchedAbs *)

\* What schedule() relies on and keeps.
Core ==
    /\ state \in [AllThreads -> States] /\ current_process \in AllThreads
    /\ runq \in [Levels -> Seq(Threads)]
    /\ RunqExact /\ OneRunning

\* The definitions that SchedAbs and Sched share mean the same in both.
LEMMA AbsNames == Abs!AllThreads = AllThreads /\ Abs!rank = rank /\ Abs!Blocked = Blocked
BY Zenon DEF Abs!AllThreads, AllThreads, Abs!rank, rank, Abs!Levels, Levels, Abs!Blocked, Blocked

\* A switch of the scheduler, after it made the threads of W READY, is one of SchedAbs.
LEMMA SwitchStep ==
    ASSUME Core, NEW st, NEW rq, Entered(st, rq), schedule(st, rq),
           NEW W \in SUBSET Blocked, NEW how \in {"READY", "BLOCKED"},
           current_process = Idle => how = "READY",
           Off(st) = Abs!Left(W, how),
           need_resched' \in {need_resched, FALSE}
    PROVE  Core' /\ Abs!Next /\ ticks_left' = Quantum
           /\ \A t \in Threads : state'[t] = "BLOCKED" <=> Abs!Left(W, how)[t] = "BLOCKED"
<1>1. /\ state' \in [AllThreads -> States] /\ runq' \in [Levels -> Seq(Threads)]
      /\ current_process' \in AllThreads /\ ticks_left' = Quantum
      /\ RunqHolds(runq', state')
      /\ \A t \in AllThreads : state'[t] = "RUNNING" <=> t = current_process'
      /\ \A t \in Threads : Off(st)[t] = "READY" => rank[current_process'] <= rank[t]
      /\ state' = [Off(st) EXCEPT ![current_process'] = "RUNNING"]
      /\ current_process' = Idle \/ Off(st)[current_process'] = "READY"
  BY ScheduleFacts, Zenon DEF Core
<1>2. Core'
  BY <1>1, Zenon DEF Core, RunqExact, RunqHolds, OneRunning
<1>3. current_process' \in Abs!Ready(Off(st)) \cup {Idle}
  BY <1>1, Params, Zenon DEF Abs!Ready
<1>4. \A t \in Abs!Ready(Off(st)) : Abs!rank[current_process'] <= Abs!rank[t]
  BY <1>1, AbsNames, Zenon DEF Abs!Ready
<1>5. Abs!Switch(W, how)
  BY <1>1, <1>3, <1>4, Zenon DEF Abs!Switch
<1>6. Abs!Next
  BY <1>5, AbsNames, Zenon DEF Abs!Next
<1>7. \A t \in Threads : state'[t] = "BLOCKED" <=> Off(st)[t] = "BLOCKED"
  <2>1. \A t \in Threads : state'[t] = IF t = current_process' THEN "RUNNING" ELSE Off(st)[t]
    BY <1>1, Params, Zenon DEF Off
  <2> QED BY <1>1, <2>1, Params, Zenon
<1> QED BY <1>1, <1>2, <1>6, <1>7, Zenon

\* Making the threads of ts READY and queueing them.
LEMMA ReadyFacts ==
    ASSUME Core, NEW ts \in Seq(Threads), Distinct(ts), Nodes(ts) \subseteq Blocked
    PROVE  /\ ReadyAll(state, ts) \in [AllThreads -> States]
           /\ ReadyAll(state, ts) = Abs!Wakened(Nodes(ts))
           /\ PushAll(runq, ts) \in [Levels -> Seq(Threads)]
           /\ RunqHolds(PushAll(runq, ts), ReadyAll(state, ts))
           /\ \A t \in AllThreads : ReadyAll(state, ts)[t] = "RUNNING" <=> t = current_process
           /\ Entered(ReadyAll(state, ts), PushAll(runq, ts))
<1> DEFINE st == ReadyAll(state, ts)
           rq == PushAll(runq, ts)
           At(p) == {t \in Threads : priority[t] = p}
<1>1. /\ st \in [AllThreads -> States]
      /\ \A t \in AllThreads : st[t] = IF t \in Nodes(ts) THEN "READY" ELSE state[t]
  BY Zenon DEF ReadyAll, Core, States
<1>2. st = Abs!Wakened(Nodes(ts))
  BY AbsNames, Zenon DEF ReadyAll, Abs!Wakened
<1>3. ASSUME NEW p \in Levels
      PROVE  /\ rq[p] \in Seq(Threads) /\ Distinct(rq[p])
             /\ \A t \in Threads : t \in Nodes(rq[p]) <=> st[t] = "READY" /\ priority[t] = p
  <2>1. rq[p] = runq[p] \o Those(ts, At(p))
    BY Zenon DEF PushAll
  <2>2. /\ Those(ts, At(p)) \in Seq(Threads) /\ Distinct(Those(ts, At(p)))
        /\ Nodes(Those(ts, At(p))) = Nodes(ts) \cap At(p)
    BY ThoseFacts, Zenon
  <2>3. /\ runq[p] \in Seq(Threads) /\ Distinct(runq[p])
        /\ \A t \in Threads : t \in Nodes(runq[p]) <=> state[t] = "READY" /\ priority[t] = p
    BY Zenon DEF Core, RunqExact
  <2> HIDE DEF rq, st
  <2>4. Nodes(runq[p]) \cap Nodes(Those(ts, At(p))) = {}
    BY <2>2, <2>3, Zenon DEF Blocked
  <2>5. /\ rq[p] \in Seq(Threads) /\ Distinct(rq[p])
        /\ Nodes(rq[p]) = Nodes(runq[p]) \cup (Nodes(ts) \cap At(p))
    <3> DEFINE q == Those(ts, At(p))
    <3> HIDE DEF q
    <3>1. /\ q \in Seq(Threads) /\ Distinct(q) /\ Nodes(q) = Nodes(ts) \cap At(p)
          /\ Nodes(runq[p]) \cap Nodes(q) = {} /\ rq[p] = runq[p] \o q
      BY <2>1, <2>2, <2>4, Zenon DEF q
    <3> QED BY <2>3, <3>1, ConcatFacts
  <2>6. \A t \in Threads : st[t] = IF t \in Nodes(ts) THEN "READY" ELSE state[t]
    BY <1>1, Params, Zenon
  <2> QED BY <2>3, <2>5, <2>6, Zenon
<1>4. rq \in [Levels -> Seq(Threads)]
  BY <1>3, Zenon DEF PushAll
<1>5. RunqHolds(rq, st)
  BY <1>3, Zenon DEF RunqHolds
<1>6. \A t \in AllThreads : st[t] = "RUNNING" <=> t = current_process
  BY <1>1, Zenon DEF Core, OneRunning, Blocked
<1> HIDE DEF st, rq
<1>7. Entered(st, rq)
  BY <1>1, <1>4, <1>5, <1>6, Zenon DEF Entered, Core
<1> QED BY <1>1, <1>2, <1>4, <1>5, <1>6, <1>7, Zenon DEF st, rq

\* The states in which a wake-up leaves the threads.
AfterWake(ts) ==
    \A t \in Threads : state'[t] = "BLOCKED" <=> state[t] = "BLOCKED" /\ t \notin Nodes(ts)

\* A wake-up without a switch.
LEMMA WakeNoSwitch ==
    ASSUME Core, NEW ts \in Seq(Threads), Distinct(ts), Nodes(ts) \subseteq Blocked,
           NEW tl, NoSwitch(ReadyAll(state, ts), PushAll(runq, ts), tl),
           \/ need_resched' = TRUE
           \/ ts = <<>> /\ need_resched' = need_resched
    PROVE  Core' /\ (Abs!Next \/ UNCHANGED Abs!vars) /\ ticks_left' = tl /\ AfterWake(ts)
<1>1. /\ ReadyAll(state, ts) \in [AllThreads -> States]
      /\ ReadyAll(state, ts) = Abs!Wakened(Nodes(ts))
      /\ PushAll(runq, ts) \in [Levels -> Seq(Threads)]
      /\ RunqHolds(PushAll(runq, ts), ReadyAll(state, ts))
      /\ \A t \in AllThreads : ReadyAll(state, ts)[t] = "RUNNING" <=> t = current_process
  BY ReadyFacts, Zenon
<1>2. /\ state' = ReadyAll(state, ts) /\ runq' = PushAll(runq, ts) /\ ticks_left' = tl
      /\ current_process' = current_process
  BY Zenon DEF NoSwitch
<1>3. Core'
  BY <1>1, <1>2, Zenon DEF Core, RunqExact, RunqHolds, OneRunning
<1>4. AfterWake(ts)
  BY <1>2, Params, Zenon DEF AfterWake, ReadyAll
<1>5. CASE ts = <<>>
  <2>1. state' = state
    BY <1>1, <1>2, <1>5 DEF ReadyAll, Core, Nodes
  <2> QED BY <1>2, <1>3, <1>4, <2>1, SMTT(30) DEF Abs!Next, Abs!QuantumEnds, Abs!vars
<1>6. CASE ts # <<>>
  <2>1. Nodes(ts) # {} /\ Nodes(ts) \in SUBSET Abs!Blocked
    BY <1>6, NodesEmpty, AbsNames, Zenon
  <2>2. Abs!Wake(Nodes(ts))
    BY <1>1, <1>2, <1>6, <2>1, Zenon DEF Abs!Wake
  <2> QED BY <1>2, <1>3, <1>4, <2>1, <2>2, Zenon DEF Abs!Next
<1> QED BY <1>5, <1>6, Zenon

AbsStep == Abs!Next \/ UNCHANGED Abs!vars

\* A wake-up, and the tail of the interrupt that made it.
LEMMA WakeTail ==
    ASSUME Core, NEW ts \in Seq(Threads), Distinct(ts), Nodes(ts) \subseteq Blocked,
           NEW tl \in 0..Quantum, NEW nr \in BOOLEAN,
           nr = TRUE \/ (ts = <<>> /\ nr = need_resched),
           sched_preempt_if_needed(ReadyAll(state, ts), PushAll(runq, ts), tl, nr)
    PROVE  Core' /\ AbsStep /\ ticks_left' \in 0..Quantum /\ need_resched' \in BOOLEAN /\ AfterWake(ts)
<1> DEFINE st == ReadyAll(state, ts)
           rq == PushAll(runq, ts)
<1>1. CASE nr /\ preempt_count[current_process] = 0
  <2>1. schedule(st, rq) /\ need_resched' = FALSE
    BY <1>1, Zenon DEF sched_preempt_if_needed
  <2>2. Entered(st, rq) /\ st = Abs!Wakened(Nodes(ts))
    BY ReadyFacts, Zenon
  <2>3. \A t \in AllThreads : st[t] = "RUNNING" <=> t = current_process
    BY ReadyFacts, Zenon
  <2> HIDE DEF st, rq
  <2>4. Off(st) = Abs!Left(Nodes(ts), "READY")
    BY <2>2, <2>3, AbsNames, Zenon DEF Off, Abs!Left
  <2>5. Core' /\ Abs!Next /\ ticks_left' = Quantum
        /\ \A t \in Threads : state'[t] = "BLOCKED" <=> Abs!Left(Nodes(ts), "READY")[t] = "BLOCKED"
    BY <2>1, <2>2, <2>4, SwitchStep, Zenon
  <2>6. \A t \in Threads : Abs!Left(Nodes(ts), "READY")[t] = "BLOCKED"
                              <=> state[t] = "BLOCKED" /\ t \notin Nodes(ts)
    BY AbsNames, Params, Zenon DEF Abs!Left, Abs!Wakened, Core, OneRunning
  <2>7. AfterWake(ts)
    BY <2>5, <2>6, Zenon DEF AfterWake
  <2>8. ticks_left' \in 0..Quantum
    BY <2>5, Params
  <2> QED BY <2>1, <2>5, <2>7, <2>8, Zenon DEF AbsStep
<1>2. CASE ~(nr /\ preempt_count[current_process] = 0)
  <2>1. NoSwitch(st, rq, tl) /\ need_resched' = nr
    BY <1>2, Zenon DEF sched_preempt_if_needed
  <2> HIDE DEF st, rq
  <2>2. need_resched' = TRUE \/ (ts = <<>> /\ need_resched' = need_resched)
    BY <2>1, Zenon
  <2> QED BY <2>1, <2>2, WakeNoSwitch, Zenon DEF AbsStep, st, rq
<1> QED BY <1>1, <1>2, Zenon

\* A wake-up by a thread or by an interrupt handler.
LEMMA WokenFacts ==
    ASSUME Core, NEW ts \in Seq(Threads), Distinct(ts), Nodes(ts) \subseteq Blocked,
           ticks_left \in 0..Quantum, need_resched \in BOOLEAN, NEW byIrq \in BOOLEAN,
           Woken(state, ts, byIrq)
    PROVE  Core' /\ AbsStep /\ ticks_left' \in 0..Quantum /\ need_resched' \in BOOLEAN /\ AfterWake(ts)
<1> DEFINE nr == need_resched \/ ts # <<>>
<1>1. nr \in BOOLEAN /\ (nr = TRUE \/ (ts = <<>> /\ nr = need_resched))
  BY Zenon
<1>2. CASE byIrq
  <2>1. sched_preempt_if_needed(ReadyAll(state, ts), PushAll(runq, ts), ticks_left, nr)
    BY <1>2, Zenon DEF Woken
  <2> HIDE DEF nr
  <2> QED BY <1>1, <2>1, WakeTail, Zenon
<1>3. CASE ~byIrq
  <2>1. /\ NoSwitch(ReadyAll(state, ts), PushAll(runq, ts), ticks_left) /\ need_resched' = nr
    BY <1>3, Zenon DEF Woken
  <2> HIDE DEF nr
  <2>2. need_resched' = TRUE \/ (ts = <<>> /\ need_resched' = need_resched)
    BY <1>1, <2>1, Zenon
  <2> QED BY <1>1, <2>1, <2>2, WakeNoSwitch, Zenon DEF AbsStep
<1> QED BY <1>2, <1>3, Zenon

\* thread_yield: the thread goes to the tail of its level.
LEMMA YieldStep ==
    ASSUME Core, schedule(state, runq), UNCHANGED need_resched
    PROVE  /\ Core' /\ AbsStep /\ ticks_left' = Quantum
           /\ \A t \in Threads : state'[t] = "BLOCKED" <=> state[t] = "BLOCKED"
<1>1. Entered(state, runq)
  BY Zenon DEF Entered, Core, RunqExact, RunqHolds, OneRunning
<1>2. Off(state) = Abs!Left({}, "READY")
  BY AbsNames, Zenon DEF Off, Abs!Left, Abs!Wakened, Core, OneRunning
<1>3. /\ Core' /\ Abs!Next /\ ticks_left' = Quantum
      /\ \A t \in Threads : state'[t] = "BLOCKED" <=> Abs!Left({}, "READY")[t] = "BLOCKED"
  BY <1>1, <1>2, SwitchStep, Zenon
<1>4. \A t \in Threads : Abs!Left({}, "READY")[t] = "BLOCKED" <=> state[t] = "BLOCKED"
  BY AbsNames, Params, Zenon DEF Abs!Left, Abs!Wakened, Core, OneRunning
<1> QED BY <1>3, <1>4, Zenon DEF AbsStep

\* The current thread blocks.
LEMMA BlockStep ==
    ASSUME Core, NEW c \in Threads, current_process = c,
           schedule([state EXCEPT ![c] = "BLOCKED"], runq), UNCHANGED need_resched
    PROVE  /\ Core' /\ AbsStep /\ ticks_left' = Quantum
           /\ \A t \in Threads : state'[t] = "BLOCKED" <=> state[t] = "BLOCKED" \/ t = c
<1> DEFINE st == [state EXCEPT ![c] = "BLOCKED"]
<1>1. \A t \in AllThreads : st[t] = IF t = c THEN "BLOCKED" ELSE state[t]
  BY Zenon DEF Core
<1>2. st \in [AllThreads -> States]
  BY Zenon DEF Core, States
<1>3. schedule(st, runq)
  BY Zenon
<1> HIDE DEF st
<1>4. RunqHolds(runq, st)
  BY <1>1, Params, Zenon DEF RunqHolds, Core, RunqExact, OneRunning
<1>5. Entered(st, runq)
  BY <1>1, <1>2, <1>4, Params, Zenon DEF Entered, Core, OneRunning
<1>6. Off(st) = Abs!Left({}, "BLOCKED")
  BY <1>1, AbsNames, Zenon DEF Off, Abs!Left, Abs!Wakened
<1>7. /\ Core' /\ Abs!Next /\ ticks_left' = Quantum
      /\ \A t \in Threads : state'[t] = "BLOCKED" <=> Abs!Left({}, "BLOCKED")[t] = "BLOCKED"
  BY <1>3, <1>5, <1>6, Params, SwitchStep
<1>8. \A t \in Threads : Abs!Left({}, "BLOCKED")[t] = "BLOCKED" <=> state[t] = "BLOCKED" \/ t = c
  BY AbsNames, Params, Zenon DEF Abs!Left, Abs!Wakened
<1> QED BY <1>7, <1>8, Zenon DEF AbsStep

-----------------------------------------------------------------------------
(* The inductive invariant *)

\* Where the threads inside a blocking call are.  A thread back from sched_sleep_ticks is on
\* no list: it was taken off by the tick that woke it, nothing else wakes it.
Calls ==
    \A t \in Threads :
        /\ pc[t] = "wait" => wait_on[t] \in Queues
        /\ pc[t] = "sleep" => t \in Sleepers /\ (t \in Nodes(sleep_list) => state[t] = "BLOCKED")

SInv == TypeOK /\ RunqExact /\ ListsExact /\ OneRunning /\ Calls

\* The invariant contains what schedule() relies on.
LEMMA SInvCore == SInv => Core
BY Zenon DEF SInv, TypeOK, Core, States

\* The part of TypeOK that is not in Core.
Types ==
    /\ sleep_list \in Seq(Threads) /\ wq \in [Queues -> Seq(Threads)]
    /\ need_resched \in BOOLEAN
    /\ preempt_count \in [AllThreads -> 0..MaxPreempt]
    /\ ticks_left \in 0..Quantum
    /\ wake_in \in [Threads -> {m \in Nat : \E n \in Timeouts \cup {0} : m <= n}]
    /\ timed_out \in [Threads -> BOOLEAN] /\ sig_interrupt \in [Threads -> BOOLEAN]
    /\ pc \in [Threads -> {"run", "yield", "wait", "sleep"}]
    /\ wait_on \in [Threads -> Queues \cup {NoQueue}]

\* The invariant in the four parts that the steps below establish one at a time.
LEMMA SInvParts == SInv <=> Core /\ Types /\ ListsExact /\ Calls
BY Zenon DEF SInv, TypeOK, Core, Types, States

\* The same of the state after a step.
LEMMA SInvPartsNext == Core' /\ Types' /\ ListsExact' /\ Calls' => SInv'
BY Zenon DEF SInv, TypeOK, Core, Types, States

\* preempt_disable and preempt_enable keep the invariant and are steps of SchedAbs.
LEMMA PreemptControl ==
    ASSUME SInv, NEW c \in Threads, preempt_disable(c) \/ preempt_enable(c)
    PROVE  SInv' /\ AbsStep
<1>1. Core /\ Types /\ ListsExact /\ Calls
  BY SInvParts, Zenon
<1>2. /\ UNCHANGED <<state, current_process, runq, sleep_list, wq, need_resched, ticks_left,
                     wake_in, timed_out, sig_interrupt, wait_on>>
      /\ pc' = pc \/ (pc[c] = "run" /\ \E v \in {"run", "yield"} : pc' = [pc EXCEPT ![c] = v])
  BY Zenon DEF preempt_disable, preempt_enable, Running
<1>3. Core'
  BY <1>1, <1>2, Zenon DEF Core, RunqExact, OneRunning
<1>4. preempt_count' \in [AllThreads -> 0..MaxPreempt]
  <2>1. preempt_count \in [AllThreads -> 0..MaxPreempt] /\ c \in AllThreads /\ MaxPreempt \in Nat
    BY <1>1, Params, SchedAssumption, Zenon DEF Types
  <2>2. CASE preempt_disable(c)
    BY <2>1, <2>2 DEF preempt_disable
  <2>3. CASE preempt_enable(c)
    BY <2>1, <2>3 DEF preempt_enable
  <2> QED BY <2>2, <2>3, Zenon
<1>5. pc' \in [Threads -> {"run", "yield", "wait", "sleep"}]
  BY <1>1, <1>2, Zenon DEF Types
<1>6. Types'
  BY <1>1, <1>2, <1>4, <1>5, Zenon DEF Types
<1>7. \A t \in Threads : pc'[t] = pc[t] \/ (pc[t] = "run" /\ pc'[t] \in {"run", "yield"})
  BY <1>1, <1>2, Zenon DEF Types
<1>8. ListsExact' /\ Calls'
  BY <1>1, <1>2, <1>7, Zenon DEF ListsExact, Calls
<1> QED BY <1>2, <1>3, <1>6, <1>8, SInvPartsNext, Zenon DEF AbsStep, Abs!vars

\* thread_yield keeps the invariant and is a step of SchedAbs.
LEMMA YieldInv ==
    ASSUME SInv, NEW c \in Threads, thread_yield(c)
    PROVE  SInv' /\ AbsStep
<1>1. Core /\ Types /\ ListsExact /\ Calls
  BY SInvParts, Zenon
<1>2. /\ Core' /\ AbsStep /\ ticks_left' = Quantum
      /\ \A t \in Threads : state'[t] = "BLOCKED" <=> state[t] = "BLOCKED"
  BY <1>1, YieldStep, Zenon DEF thread_yield
<1>3. pc' \in [Threads -> {"run", "yield", "wait", "sleep"}]
  BY <1>1, Zenon DEF Types, thread_yield
<1>4. Types'
  BY <1>1, <1>2, <1>3, Params DEF Types, thread_yield
<1>5. \A t \in Threads : pc'[t] = pc[t] \/ (pc[t] \in {"run", "yield"} /\ pc'[t] = "run")
  BY <1>1, SMTT(30) DEF Types, thread_yield
<1>6. ListsExact' /\ Calls'
  BY <1>1, <1>2, <1>5 DEF ListsExact, Calls, thread_yield
<1> QED BY <1>2, <1>4, <1>6, SInvPartsNext, Zenon

\* A thread at the head of the sleep list.
LEMMA ConsFacts ==
    ASSUME NEW T, NEW s \in Seq(T), NEW t \in T, Distinct(s), t \notin Nodes(s)
    PROVE  <<t>> \o s \in Seq(T) /\ Distinct(<<t>> \o s) /\ Nodes(<<t>> \o s) = Nodes(s) \cup {t}
<1> DEFINE h == <<t>>
<1>1. h \in Seq(T) /\ DOMAIN h = {1} /\ h[1] = t
  OBVIOUS
<1> HIDE DEF h
<1>2. Nodes(h) = {t} /\ Distinct(h)
  BY <1>1, Zenon DEF Nodes, Distinct
<1>3. Nodes(h) \cap Nodes(s) = {}
  BY <1>2, Zenon
<1>4. h \o s \in Seq(T) /\ Distinct(h \o s) /\ Nodes(h \o s) = Nodes(h) \cup Nodes(s)
  BY <1>1, <1>2, <1>3, ConcatFacts
<1> QED BY <1>2, <1>4, Zenon DEF h

\* The same of sched_wait_event, up to its sleep.
LEMMA WaitInv ==
    ASSUME SInv, NEW c \in Threads, NEW q \in Queues, NEW n \in Timeouts, sched_wait_event(c, q, n)
    PROVE  SInv' /\ AbsStep
<1>1. Core /\ Types /\ ListsExact /\ Calls
  BY SInvParts, Zenon
<1>2. current_process = c /\ pc[c] = "run" /\ UNCHANGED <<need_resched, preempt_count, sig_interrupt>>
  BY Zenon DEF sched_wait_event, Running
<1>3. /\ Core' /\ AbsStep /\ ticks_left' = Quantum
      /\ \A t \in Threads : state'[t] = "BLOCKED" <=> state[t] = "BLOCKED" \/ t = c
  BY <1>1, <1>2, BlockStep, Zenon DEF sched_wait_event
<1>4. c \notin Nodes(sleep_list) /\ \A k \in Queues : c \notin Nodes(wq[k])
  BY <1>1, <1>2, Zenon DEF ListsExact
<1>5. /\ sleep_list' \in Seq(Threads) /\ Distinct(sleep_list')
      /\ Nodes(sleep_list) \subseteq Nodes(sleep_list')
      /\ Nodes(sleep_list') \subseteq Nodes(sleep_list) \cup {c}
  <2>1. sleep_list \in Seq(Threads) /\ Distinct(sleep_list)
    BY <1>1, Zenon DEF Types, ListsExact
  <2>2. CASE n = 0
    BY <2>1, <2>2, Zenon DEF sched_wait_event
  <2>3. CASE n # 0
    <3>1. sleep_list' = <<c>> \o sleep_list
      BY <2>3, Zenon DEF sched_wait_event
    <3> QED BY <1>4, <2>1, <3>1, ConsFacts, Zenon
  <2> QED BY <2>2, <2>3, Zenon
<1>6. /\ Append(wq[q], c) \in Seq(Threads) /\ Distinct(Append(wq[q], c))
      /\ Nodes(Append(wq[q], c)) = Nodes(wq[q]) \cup {c}
  <2>1. wq[q] \in Seq(Threads) /\ Distinct(wq[q])
    BY <1>1, Zenon DEF Types, ListsExact
  <2> QED BY <1>4, <2>1, AppendFacts
<1>7. wq' \in [Queues -> Seq(Threads)]
      /\ \A k \in Queues : wq'[k] = IF k = q THEN Append(wq[q], c) ELSE wq[k]
  BY <1>1, <1>6, Zenon DEF Types, sched_wait_event
<1>8. wake_in' \in [Threads -> {m \in Nat : \E k \in Timeouts \cup {0} : m <= k}]
  <2>1. n \in {m \in Nat : \E k \in Timeouts \cup {0} : m <= k}
    BY SchedAssumption
  <2> QED BY <1>1, <2>1, Zenon DEF Types, sched_wait_event
<1>9. /\ timed_out' \in [Threads -> BOOLEAN]
      /\ pc' \in [Threads -> {"run", "yield", "wait", "sleep"}]
      /\ wait_on' \in [Threads -> Queues \cup {NoQueue}]
  BY <1>1, Zenon DEF Types, sched_wait_event
<1>10. \A t \in Threads : /\ pc'[t] = IF t = c THEN "wait" ELSE pc[t]
                          /\ wait_on'[t] = IF t = c THEN q ELSE wait_on[t]
  BY <1>1, Zenon DEF Types, sched_wait_event
<1>11. Types'
  <2>1. ticks_left' \in 0..Quantum
    BY <1>3, Params
  <2> QED BY <1>1, <1>2, <1>5, <1>7, <1>8, <1>9, <2>1, SMTT(30) DEF Types
<1>12. ListsExact'
  <2>1. Distinct(sleep_list') /\ \A k \in Queues : Distinct(wq'[k])
    BY <1>1, <1>5, <1>6, <1>7, ZenonT(60) DEF ListsExact
  <2>2. ASSUME NEW t \in Threads
        PROVE  /\ \A k \in Queues : t \in Nodes(wq'[k]) => pc'[t] = "wait" /\ wait_on'[t] = k
               /\ t \in Nodes(sleep_list') => pc'[t] \in {"wait", "sleep"}
               /\ state'[t] = "BLOCKED" /\ pc'[t] = "wait" => t \in Nodes(wq'[wait_on'[t]])
               /\ state'[t] = "BLOCKED" /\ pc'[t] = "sleep" => t \in Nodes(sleep_list')
    <3>1. CASE t = c
      BY <1>4, <1>5, <1>6, <1>7, <1>10, <3>1, ZenonT(60)
    <3>2. CASE t # c
      <4>1. /\ \A k \in Queues : t \in Nodes(wq'[k]) <=> t \in Nodes(wq[k])
            /\ t \in Nodes(sleep_list') <=> t \in Nodes(sleep_list)
            /\ pc'[t] = pc[t] /\ wait_on'[t] = wait_on[t]
            /\ state'[t] = "BLOCKED" <=> state[t] = "BLOCKED"
        BY <1>3, <1>5, <1>6, <1>7, <1>10, <3>2, ZenonT(60)
      <4> QED BY <1>1, <4>1, Zenon DEF ListsExact, Calls
    <3> QED BY <3>1, <3>2, Zenon
  <2> QED BY <2>1, <2>2, Zenon DEF ListsExact
<1>13. Calls'
  BY <1>1, <1>3, <1>5, <1>10, Zenon DEF Calls
<1> QED BY <1>3, <1>11, <1>12, <1>13, SInvPartsNext, Zenon

\* The same of its return, off the queue and the sleep list.
LEMMA WaitWokenInv ==
    ASSUME SInv, NEW c \in Threads, wait_event_woken(c)
    PROVE  SInv' /\ AbsStep
<1>1. Core /\ Types /\ ListsExact /\ Calls
  BY SInvParts, Zenon
<1>2. /\ current_process = c /\ pc[c] = "wait"
      /\ UNCHANGED <<state, current_process, runq, need_resched, preempt_count, ticks_left,
                     wake_in, timed_out>>
  BY Zenon DEF wait_event_woken
<1> DEFINE q == wait_on[c]
<1>3. q \in Queues
  BY <1>1, <1>2, Zenon DEF Calls
<1>4. /\ Unlinked(sleep_list, c) \in Seq(Threads) /\ Distinct(Unlinked(sleep_list, c))
      /\ Nodes(Unlinked(sleep_list, c)) = Nodes(sleep_list) \ {c}
  <2>1. sleep_list \in Seq(Threads) /\ Distinct(sleep_list)
    BY <1>1, SMTT(30) DEF Types, ListsExact
  <2> QED BY <2>1, UnlinkedFacts, Zenon
<1>5. /\ Unlinked(wq[q], c) \in Seq(Threads) /\ Distinct(Unlinked(wq[q], c))
      /\ Nodes(Unlinked(wq[q], c)) = Nodes(wq[q]) \ {c}
  <2>1. wq[q] \in Seq(Threads) /\ Distinct(wq[q])
    BY <1>1, <1>3, Zenon DEF Types, ListsExact
  <2> QED BY <2>1, UnlinkedFacts, Zenon
<1>6. /\ wq' \in [Queues -> Seq(Threads)] /\ sleep_list' = Unlinked(sleep_list, c)
      /\ \A k \in Queues : wq'[k] = IF k = q THEN Unlinked(wq[q], c) ELSE wq[k]
  BY <1>1, <1>3, <1>5, Zenon DEF Types, wait_event_woken
<1>7. /\ sig_interrupt' \in [Threads -> BOOLEAN]
      /\ pc' \in [Threads -> {"run", "yield", "wait", "sleep"}]
      /\ wait_on' \in [Threads -> Queues \cup {NoQueue}]
  BY <1>1, Zenon DEF Types, wait_event_woken
<1>8. \A t \in Threads : /\ pc'[t] = IF t = c THEN "run" ELSE pc[t]
                         /\ wait_on'[t] = IF t = c THEN NoQueue ELSE wait_on[t]
  BY <1>1, SMTT(30) DEF Types, wait_event_woken
<1>9. Core' /\ AbsStep
  BY <1>1, <1>2, Zenon DEF Core, RunqExact, OneRunning, AbsStep, Abs!vars
<1>10. Types'
  BY <1>1, <1>2, <1>4, <1>6, <1>7, SMTT(30) DEF Types
<1> HIDE DEF q
<1>11. ListsExact'
  <2>1. Distinct(sleep_list') /\ \A k \in Queues : Distinct(wq'[k])
    BY <1>1, <1>4, <1>5, <1>6, Zenon DEF ListsExact
  <2>2. \A k \in Queues : Nodes(wq'[k]) = Nodes(wq[k]) \ {c}
    <3>1. \A k \in Queues : k # q => c \notin Nodes(wq[k])
      BY <1>1, SMTT(30) DEF ListsExact, q
    <3> QED BY <1>5, <1>6, <3>1, Zenon
  <2>3. ASSUME NEW t \in Threads
        PROVE  /\ \A k \in Queues : t \in Nodes(wq'[k]) => pc'[t] = "wait" /\ wait_on'[t] = k
               /\ t \in Nodes(sleep_list') => pc'[t] \in {"wait", "sleep"}
               /\ state'[t] = "BLOCKED" /\ pc'[t] = "wait" => t \in Nodes(wq'[wait_on'[t]])
               /\ state'[t] = "BLOCKED" /\ pc'[t] = "sleep" => t \in Nodes(sleep_list')
    <3>1. CASE t = c
      BY <1>4, <1>6, <1>8, <2>2, <3>1, SMTT(30)
    <3>2. CASE t # c
      BY <1>1, <1>2, <1>4, <1>6, <1>8, <2>2, <3>2, SMTT(30) DEF ListsExact, Calls
    <3> QED BY <3>1, <3>2, SMTT(30)
  <2> QED BY <2>1, <2>3, Zenon DEF ListsExact
<1>12. Calls'
  BY <1>1, <1>2, <1>4, <1>6, <1>8, Zenon DEF Calls
<1> QED BY <1>9, <1>10, <1>11, <1>12, SInvPartsNext, Zenon

\* The same of sched_sleep_ticks, up to its sleep.
LEMMA SleepInv ==
    ASSUME SInv, NEW c \in Sleepers, NEW n \in Timeouts, sched_sleep_ticks(c, n)
    PROVE  SInv' /\ AbsStep
<1>1. Core /\ Types /\ ListsExact /\ Calls /\ c \in Threads
  BY SInvParts, SchedAssumption, Zenon
<1>2. /\ current_process = c /\ pc[c] = "run" /\ sleep_list' = <<c>> \o sleep_list
      /\ UNCHANGED <<wq, need_resched, preempt_count, timed_out, sig_interrupt, wait_on>>
  BY Zenon DEF sched_sleep_ticks, Running
<1>3. /\ Core' /\ AbsStep /\ ticks_left' = Quantum
      /\ \A t \in Threads : state'[t] = "BLOCKED" <=> state[t] = "BLOCKED" \/ t = c
  BY <1>1, <1>2, BlockStep, Zenon DEF sched_sleep_ticks
<1>4. /\ sleep_list' \in Seq(Threads) /\ Distinct(sleep_list')
      /\ Nodes(sleep_list') = Nodes(sleep_list) \cup {c}
  <2>1. sleep_list \in Seq(Threads) /\ Distinct(sleep_list) /\ c \notin Nodes(sleep_list)
    BY <1>1, <1>2, Zenon DEF Types, ListsExact
  <2> QED BY <1>1, <1>2, <2>1, ConsFacts
<1>5. wake_in' \in [Threads -> {m \in Nat : \E k \in Timeouts \cup {0} : m <= k}]
  <2>1. n \in {m \in Nat : \E k \in Timeouts \cup {0} : m <= k}
    BY SchedAssumption
  <2> QED BY <1>1, <2>1, Zenon DEF Types, sched_sleep_ticks
<1>6. /\ pc' \in [Threads -> {"run", "yield", "wait", "sleep"}]
      /\ \A t \in Threads : pc'[t] = IF t = c THEN "sleep" ELSE pc[t]
  BY <1>1, Zenon DEF Types, sched_sleep_ticks
<1>7. Types'
  <2>1. ticks_left' \in 0..Quantum
    BY <1>3, Params
  <2> QED BY <1>1, <1>2, <1>4, <1>5, <1>6, <2>1, SMTT(30) DEF Types
<1>8. ListsExact'
  <2>1. ASSUME NEW t \in Threads
        PROVE  /\ \A k \in Queues : t \in Nodes(wq'[k]) => pc'[t] = "wait" /\ wait_on'[t] = k
               /\ t \in Nodes(sleep_list') => pc'[t] \in {"wait", "sleep"}
               /\ state'[t] = "BLOCKED" /\ pc'[t] = "wait" => t \in Nodes(wq'[wait_on'[t]])
               /\ state'[t] = "BLOCKED" /\ pc'[t] = "sleep" => t \in Nodes(sleep_list')
    <3>1. CASE t = c
      BY <1>1, <1>2, <1>4, <1>6, <3>1, SMTT(30) DEF ListsExact
    <3>2. CASE t # c
      <4>1. /\ wq' = wq /\ pc'[t] = pc[t] /\ wait_on' = wait_on
            /\ t \in Nodes(sleep_list') <=> t \in Nodes(sleep_list)
            /\ state'[t] = "BLOCKED" <=> state[t] = "BLOCKED"
        BY <1>2, <1>3, <1>4, <1>6, <3>2, Zenon
      <4> QED BY <1>1, <4>1, Zenon DEF ListsExact
    <3> QED BY <3>1, <3>2, SMTT(30)
  <2> QED BY <1>1, <1>2, <1>4, <2>1, ZenonT(60) DEF ListsExact
<1>9. Calls'
  BY <1>1, <1>2, <1>3, <1>4, <1>6, Zenon DEF Calls
<1> QED BY <1>3, <1>7, <1>8, <1>9, SInvPartsNext, Zenon

\* The same of its return.
LEMMA SleepWokenInv ==
    ASSUME SInv, NEW c \in Threads, sleep_ticks_woken(c)
    PROVE  SInv' /\ AbsStep
<1>1. Core /\ Types /\ ListsExact /\ Calls
  BY SInvParts, Zenon
<1>2. /\ current_process = c /\ pc[c] = "sleep"
      /\ UNCHANGED <<state, current_process, runq, sleep_list, wq, need_resched, preempt_count,
                     ticks_left, wake_in, timed_out, sig_interrupt, wait_on>>
  BY Zenon DEF sleep_ticks_woken
<1>3. /\ pc' \in [Threads -> {"run", "yield", "wait", "sleep"}]
      /\ \A t \in Threads : pc'[t] = IF t = c THEN "run" ELSE pc[t]
  BY <1>1, SMTT(30) DEF Types, sleep_ticks_woken
<1>4. Core' /\ AbsStep
  BY <1>1, <1>2, Zenon DEF Core, RunqExact, OneRunning, AbsStep, Abs!vars
<1>5. Types'
  BY <1>1, <1>2, <1>3, SMTT(30) DEF Types
<1>6. state[c] = "RUNNING" /\ c \notin Nodes(sleep_list) /\ \A k \in Queues : c \notin Nodes(wq[k])
  BY <1>1, <1>2, Params, SMTT(30) DEF Core, OneRunning, Calls, ListsExact
<1>7. ListsExact' /\ Calls'
  BY <1>1, <1>2, <1>3, <1>6, Zenon DEF ListsExact, Calls
<1> QED BY <1>4, <1>5, <1>7, SInvPartsNext, Zenon

\* A wake-up of waiters of q that leaves r of it.
LEMMA WakeQueue ==
    ASSUME SInv, NEW q \in Queues, NEW r \in Seq(Threads), NEW ts \in Seq(Threads), Distinct(ts),
           Nodes(ts) \subseteq Nodes(wq[q]) \cap Blocked,
           Distinct(r), Nodes(r) \subseteq Nodes(wq[q]),
           (Nodes(wq[q]) \cap Blocked) \ Nodes(ts) \subseteq Nodes(r),
           NEW byIrq \in BOOLEAN, Woken(state, ts, byIrq),
           wq' = [wq EXCEPT ![q] = r],
           timed_out' = [t \in Threads |-> IF t \in Nodes(ts) THEN FALSE ELSE timed_out[t]],
           UNCHANGED <<sleep_list, preempt_count, wake_in, sig_interrupt, pc, wait_on>>
    PROVE  SInv' /\ AbsStep
<1>1. Core /\ Types /\ ListsExact /\ Calls
  BY SInvParts, Zenon
<1>2. Core' /\ AbsStep /\ ticks_left' \in 0..Quantum /\ need_resched' \in BOOLEAN /\ AfterWake(ts)
  BY <1>1, WokenFacts, Zenon DEF Types
<1>3. /\ wq' \in [Queues -> Seq(Threads)]
      /\ \A k \in Queues : wq'[k] = IF k = q THEN r ELSE wq[k]
  BY <1>1, Zenon DEF Types
<1>4. timed_out' \in [Threads -> BOOLEAN]
  BY <1>1, Zenon DEF Types
<1>5. Types'
  BY <1>1, <1>2, <1>3, <1>4, ZenonT(60) DEF Types
<1>6. ListsExact'
  <2>1. Distinct(sleep_list') /\ \A k \in Queues : Distinct(wq'[k])
    BY <1>1, <1>3, ZenonT(60) DEF ListsExact
  <2>2. ASSUME NEW t \in Threads
        PROVE  /\ \A k \in Queues : t \in Nodes(wq'[k]) => pc'[t] = "wait" /\ wait_on'[t] = k
               /\ t \in Nodes(sleep_list') => pc'[t] \in {"wait", "sleep"}
               /\ state'[t] = "BLOCKED" /\ pc'[t] = "wait" => t \in Nodes(wq'[wait_on'[t]])
               /\ state'[t] = "BLOCKED" /\ pc'[t] = "sleep" => t \in Nodes(sleep_list')
    <3>1. \A k \in Queues : t \in Nodes(wq'[k]) => t \in Nodes(wq[k])
      BY <1>3, Zenon
    <3>2. state'[t] = "BLOCKED" => t \in Blocked /\ t \notin Nodes(ts)
      BY <1>2, SMTT(30) DEF AfterWake, Blocked
    <3>3. ASSUME state'[t] = "BLOCKED", pc[t] = "wait" PROVE t \in Nodes(wq'[wait_on[t]])
      <4>1. wait_on[t] \in Queues /\ t \in Nodes(wq[wait_on[t]])
        BY <1>1, <3>2, <3>3, Zenon DEF ListsExact, Calls, Blocked
      <4> QED BY <1>3, <3>2, <3>3, <4>1, SMTT(30)
    <3> QED BY <1>1, <3>1, <3>2, <3>3, Zenon DEF ListsExact, Blocked
  <2> QED BY <2>1, <2>2, Zenon DEF ListsExact
<1>7. Calls'
  <2>1. \A t \in Nodes(ts) : t \in Threads /\ pc[t] = "wait"
    BY <1>1, Zenon DEF ListsExact, Blocked
  <2> QED BY <1>1, <1>2, <2>1, Zenon DEF Calls, AfterWake
<1> QED BY <1>2, <1>5, <1>6, <1>7, SInvPartsNext, Zenon

\* The same of wq_wake_one, from a thread or an interrupt.
LEMMA WakeOneInv ==
    ASSUME SInv, NEW q \in Queues, NEW byIrq \in BOOLEAN, wq_wake_one(q, byIrq)
    PROVE  SInv' /\ AbsStep
<1>1. wq[q] \in Seq(Threads) /\ Distinct(wq[q]) /\ wq \in [Queues -> Seq(Threads)]
  BY SInvParts, Zenon DEF Types, ListsExact
<1> DEFINE live == FirstLive(wq[q], Blocked)
           ts == IF live = {} THEN <<>> ELSE <<wq[q][CHOOSE i \in live : TRUE]>>
           r == AfterWakeOne(wq[q], Blocked)
<1>2. /\ wq' = [wq EXCEPT ![q] = r] /\ Woken(state, ts, byIrq)
      /\ timed_out' = [t \in Threads |-> IF t \in Nodes(ts) THEN FALSE ELSE timed_out[t]]
      /\ UNCHANGED <<sleep_list, preempt_count, wake_in, sig_interrupt, pc, wait_on>>
  BY SMTT(30) DEF wq_wake_one
<1>3. ts \in Seq(Threads) /\ Distinct(ts) /\ Nodes(ts) = WakeOne(wq[q], Blocked)
  <2>1. CASE Nodes(wq[q]) \cap Blocked = {}
    <3>1. live = {}
      BY <1>1, <2>1, FirstLiveNone, SMTT(30)
    <3> QED BY <3>1 DEF Nodes, Distinct, WakeOne
  <2>2. CASE Nodes(wq[q]) \cap Blocked # {}
    <3>1. PICK i \in DOMAIN wq[q] : live = {i} /\ wq[q][i] \in Blocked
      BY <1>1, <2>2, FirstLiveExists, Zenon
    <3>2. ts = <<wq[q][i]>> /\ wq[q][i] \in Threads /\ WakeOne(wq[q], Blocked) = {wq[q][i]}
      BY <3>1, ZenonT(60) DEF WakeOne, Blocked
    <3> HIDE DEF ts
    <3> QED BY <3>2 DEF Nodes, Distinct
  <2> QED BY <2>1, <2>2, SMTT(30)
<1>4. /\ WakeOne(wq[q], Blocked) \subseteq Nodes(wq[q]) \cap Blocked
      /\ r \in Seq(Threads) /\ Distinct(r) /\ Nodes(r) \subseteq Nodes(wq[q])
      /\ (Nodes(wq[q]) \cap Blocked) \ WakeOne(wq[q], Blocked) \subseteq Nodes(r)
  BY <1>1, WakeOneFacts, Zenon
<1> HIDE DEF ts, r, live
<1> QED BY <1>2, <1>3, <1>4, WakeQueue, Zenon

\* The same of wq_wake_all.
LEMMA WakeAllInv ==
    ASSUME SInv, NEW q \in Queues, NEW byIrq \in BOOLEAN, wq_wake_all(q, byIrq)
    PROVE  SInv' /\ AbsStep
<1>1. wq[q] \in Seq(Threads) /\ Distinct(wq[q])
  BY SInvParts, Zenon DEF Types, ListsExact
<1> DEFINE ts == Those(wq[q], Blocked)
           r == <<>>
<1>2. /\ wq' = [wq EXCEPT ![q] = r] /\ Woken(state, ts, byIrq)
      /\ timed_out' = [t \in Threads |-> IF t \in Nodes(ts) THEN FALSE ELSE timed_out[t]]
      /\ UNCHANGED <<sleep_list, preempt_count, wake_in, sig_interrupt, pc, wait_on>>
  BY Zenon DEF wq_wake_all
<1>3. ts \in Seq(Threads) /\ Distinct(ts) /\ Nodes(ts) = Nodes(wq[q]) \cap Blocked
  BY <1>1, ThoseFacts, Zenon
<1>4. r \in Seq(Threads) /\ Distinct(r) /\ Nodes(r) = {}
  BY DEF Distinct, Nodes
<1> HIDE DEF ts, r
<1> QED BY <1>2, <1>3, <1>4, WakeQueue, ZenonT(60)

\* The same of the wake-up at the end of signal_send.
LEMMA SignalInv ==
    ASSUME SInv, NEW t \in Signalled, NEW byIrq \in BOOLEAN, signal_send(t, byIrq)
    PROVE  SInv' /\ AbsStep
<1>1. Core /\ Types /\ ListsExact /\ Calls /\ t \in Threads
  BY SInvParts, SchedAssumption, Zenon
<1> DEFINE ts == <<t>>
<1>2. /\ state[t] = "BLOCKED" /\ Woken(state, ts, byIrq)
      /\ UNCHANGED <<sleep_list, wq, preempt_count, wake_in, timed_out, pc, wait_on>>
  BY Zenon DEF signal_send
<1>3. ts \in Seq(Threads) /\ Distinct(ts) /\ Nodes(ts) = {t}
  BY <1>1 DEF Distinct, Nodes
<1> HIDE DEF ts
<1>4. Core' /\ AbsStep /\ ticks_left' \in 0..Quantum /\ need_resched' \in BOOLEAN /\ AfterWake(ts)
  BY <1>1, <1>2, <1>3, WokenFacts, ZenonT(60) DEF Types, Blocked
<1>5. sig_interrupt' \in [Threads -> BOOLEAN]
  BY <1>1, Zenon DEF Types, signal_send
<1>6. Types'
  BY <1>1, <1>2, <1>4, <1>5, SMTT(30) DEF Types
<1>7. ListsExact'
  BY <1>1, <1>2, <1>4, ZenonT(60) DEF ListsExact, AfterWake
<1>8. pc[t] # "sleep"
  BY <1>1, SchedAssumption, Zenon DEF Calls
<1>9. Calls'
  BY <1>1, <1>2, <1>3, <1>4, <1>8, ZenonT(60) DEF Calls, AfterWake
<1> QED BY <1>4, <1>6, <1>7, <1>9, SInvPartsNext, SMTT(30)

\* The same of sched_tick, with the sleepers it wakes.
LEMMA TickInv ==
    ASSUME SInv, sched_tick
    PROVE  SInv' /\ AbsStep
<1>1. Core /\ Types /\ ListsExact /\ Calls
  BY SInvParts, Zenon
<1> DEFINE c == current_process
           due == {t \in Blocked : Expired(t)}
           early == {t \in Blocked : ~Expired(t)}
           ts == Those(sleep_list, due)
           kept == Those(sleep_list, early)
           tl == IF c = Idle \/ ticks_left = 0 THEN ticks_left ELSE ticks_left - 1
           nr == \/ need_resched \/ ts # <<>>
                 \/ c # Idle /\ tl = 0
                 \/ c = Idle /\ \E p \in Levels \ {LowestLevel} : PushAll(runq, ts)[p] # <<>>
<1>2. /\ wake_in' = [t \in Threads |-> IF Expired(t) THEN 0 ELSE wake_in[t] - 1]
      /\ sleep_list' = kept
      /\ timed_out' = [t \in Threads |-> t \in Nodes(ts) \/ timed_out[t]]
      /\ sched_preempt_if_needed(ReadyAll(state, ts), PushAll(runq, ts), tl, nr)
      /\ UNCHANGED <<wq, preempt_count, sig_interrupt, pc, wait_on>>
  BY ZenonT(60) DEF sched_tick, wake_expired_sleepers
<1>3. sleep_list \in Seq(Threads) /\ Distinct(sleep_list)
  BY <1>1, Zenon DEF Types, ListsExact
<1>4. ts \in Seq(Threads) /\ Distinct(ts) /\ Nodes(ts) = Nodes(sleep_list) \cap due
  BY <1>3, ThoseFacts, SMTT(30)
<1>5. kept \in Seq(Threads) /\ Distinct(kept) /\ Nodes(kept) = Nodes(sleep_list) \cap early
  BY <1>3, ThoseFacts, SMTT(30)
<1>6. tl \in 0..Quantum
  BY <1>1, Params DEF Types
<1>7. nr \in BOOLEAN /\ (nr = TRUE \/ (ts = <<>> /\ nr = need_resched))
  <2>1. need_resched \in BOOLEAN
    BY <1>1, Zenon DEF Types
  <2> HIDE DEF tl, ts
  <2> QED BY <2>1, ZenonT(60)
<1> HIDE DEF ts, kept, tl, nr
<1>8. Core' /\ AbsStep /\ ticks_left' \in 0..Quantum /\ need_resched' \in BOOLEAN /\ AfterWake(ts)
  BY <1>1, <1>2, <1>4, <1>6, <1>7, WakeTail, ZenonT(60)
<1>9. wake_in' \in [Threads -> {m \in Nat : \E n \in Timeouts \cup {0} : m <= n}]
  <2> DEFINE D == {m \in Nat : \E n \in Timeouts \cup {0} : m <= n}
  <2>1. 0 \in D /\ \A m \in D : m > 1 => m - 1 \in D
    BY SchedAssumption
  <2>2. \A t \in Threads : wake_in[t] \in D /\ wake_in[t] \in Nat
    BY <1>1, Zenon DEF Types
  <2> HIDE DEF D
  <2>3. \A t \in Threads : (IF Expired(t) THEN 0 ELSE wake_in[t] - 1) \in D
    <3> SUFFICES ASSUME NEW t \in Threads PROVE (IF Expired(t) THEN 0 ELSE wake_in[t] - 1) \in D
      BY Zenon
    <3>1. wake_in[t] \in Nat /\ wake_in[t] \in D
      BY <2>2, Zenon
    <3>2. CASE Expired(t)
      BY <2>1, <3>2, Zenon
    <3>3. CASE ~Expired(t)
      <4>1. wake_in[t] > 1
        BY <3>1, <3>3 DEF Expired
      <4> QED BY <2>1, <3>1, <3>3, <4>1, Zenon
    <3> QED BY <3>2, <3>3, SMTT(30)
  <2>4. wake_in' \in [Threads -> D]
    BY <1>2, <2>3, Zenon
  <2> QED BY <2>4, Zenon DEF D
<1>10. timed_out' \in [Threads -> BOOLEAN]
  BY <1>1, <1>2, Zenon DEF Types
<1>11. Types'
  BY <1>1, <1>2, <1>5, <1>8, <1>9, <1>10, SMTT(30) DEF Types
<1>12. ListsExact'
  <2>1. Distinct(sleep_list') /\ \A k \in Queues : Distinct(wq'[k])
    BY <1>1, <1>2, <1>5, Zenon DEF ListsExact
  <2>2. ASSUME NEW t \in Threads
        PROVE  /\ \A k \in Queues : t \in Nodes(wq'[k]) => pc'[t] = "wait" /\ wait_on'[t] = k
               /\ t \in Nodes(sleep_list') => pc'[t] \in {"wait", "sleep"}
               /\ state'[t] = "BLOCKED" /\ pc'[t] = "wait" => t \in Nodes(wq'[wait_on'[t]])
               /\ state'[t] = "BLOCKED" /\ pc'[t] = "sleep" => t \in Nodes(sleep_list')
    <3>1. t \in Nodes(sleep_list') => t \in Nodes(sleep_list)
      BY <1>2, <1>5, Zenon
    <3>2. state'[t] = "BLOCKED" => state[t] = "BLOCKED" /\ t \notin Nodes(ts)
      BY <1>8, Zenon DEF AfterWake
    <3>3. ASSUME state'[t] = "BLOCKED", pc[t] = "sleep" PROVE t \in Nodes(sleep_list')
      <4>1. t \in Nodes(sleep_list) /\ t \in Blocked /\ t \notin due
        BY <1>1, <1>4, <3>2, <3>3, Zenon DEF ListsExact, Blocked
      <4> QED BY <1>2, <1>5, <4>1, ZenonT(60)
    <3> QED BY <1>1, <1>2, <3>1, <3>2, <3>3, Zenon DEF ListsExact
  <2> QED BY <2>1, <2>2, Zenon DEF ListsExact
<1>13. Calls'
  <2>1. \A t \in Nodes(sleep_list') : state[t] = "BLOCKED" /\ t \notin Nodes(ts)
    BY <1>2, <1>4, <1>5, Zenon DEF Blocked
  <2> QED BY <1>1, <1>2, <1>8, <2>1, Zenon DEF Calls, AfterWake
<1> QED BY <1>8, <1>11, <1>12, <1>13, SInvPartsNext, SMTT(30)

\* Every step of the scheduler keeps the invariant and is one of SchedAbs.
LEMMA SInvNext == SInv /\ [Next]_vars => SInv' /\ AbsStep
<1> SUFFICES ASSUME SInv, [Next]_vars PROVE SInv' /\ AbsStep
  BY Zenon
<1>1. ASSUME NEW c \in Threads, ThreadStep(c) PROVE SInv' /\ AbsStep
  <2>1. CASE preempt_disable(c) \/ preempt_enable(c)
    BY <2>1, PreemptControl, Zenon
  <2>2. CASE thread_yield(c)
    BY <2>2, YieldInv, Zenon
  <2>3. ASSUME NEW q \in Queues, NEW n \in Timeouts, sched_wait_event(c, q, n)
        PROVE  SInv' /\ AbsStep
    BY <2>3, WaitInv, Zenon
  <2>4. CASE wait_event_woken(c)
    BY <2>4, WaitWokenInv, Zenon
  <2>5. ASSUME c \in Sleepers, NEW n \in Timeouts, sched_sleep_ticks(c, n)
        PROVE  SInv' /\ AbsStep
    BY <2>5, SleepInv, Zenon
  <2>6. CASE sleep_ticks_woken(c)
    BY <2>6, SleepWokenInv, Zenon
  <2> QED BY <1>1, <2>1, <2>2, <2>3, <2>4, <2>5, <2>6 DEF ThreadStep
<1>2. ASSUME NEW byIrq \in BOOLEAN, WakeStep(byIrq) PROVE SInv' /\ AbsStep
  <2>1. ASSUME NEW q \in Queues, wq_wake_one(q, byIrq) PROVE SInv' /\ AbsStep
    BY <2>1, WakeOneInv, Zenon
  <2>2. ASSUME NEW q \in Queues, wq_wake_all(q, byIrq) PROVE SInv' /\ AbsStep
    BY <2>2, WakeAllInv, Zenon
  <2>3. ASSUME NEW t \in Signalled, signal_send(t, byIrq) PROVE SInv' /\ AbsStep
    BY <2>3, SignalInv, Zenon
  <2> QED BY <1>2, <2>1, <2>2, <2>3, Zenon DEF WakeStep
<1>3. CASE sched_tick
  BY <1>3, TickInv, Zenon
<1>4. CASE UNCHANGED vars
  <2>1. SInv'
    BY <1>4 DEF vars, SInv, TypeOK, RunqExact, ListsExact, OneRunning, Calls
  <2>2. AbsStep
    BY <1>4, Zenon DEF vars, AbsStep, Abs!vars
  <2> QED BY <2>1, <2>2, SMTT(30)
<1> QED BY <1>1, <1>2, <1>3, <1>4, Zenon DEF Next

-----------------------------------------------------------------------------
(* The initial states *)

\* sched_init establishes it, and an initial state of SchedAbs.
LEMMA SInvInit == Init => SInv /\ Abs!Init
<1> SUFFICES ASSUME Init PROVE SInv /\ Abs!Init
  BY Zenon
<1>1. PICK c \in Threads, others \in [1..(Cardinality(Threads) - 1) -> Threads] :
        /\ Distinct(others) /\ Nodes(others) = Threads \ {c}
        /\ state = [t \in AllThreads |-> IF t = c THEN "RUNNING" ELSE "READY"]
        /\ current_process = c
        /\ runq = PushAll([p \in Levels |-> <<>>], others)
        /\ need_resched = (others # <<>>)
  BY Zenon DEF Init
<1>2. /\ sleep_list = <<>> /\ wq = [q \in Queues |-> <<>>]
      /\ preempt_count = [t \in AllThreads |-> 0] /\ ticks_left = Quantum
      /\ wake_in = [t \in Threads |-> 0] /\ timed_out = [t \in Threads |-> FALSE]
      /\ sig_interrupt = [t \in Threads |-> FALSE]
      /\ pc = [t \in Threads |-> "run"] /\ wait_on = [t \in Threads |-> NoQueue]
  BY Zenon DEF Init
<1>3. others \in Seq(Threads)
  <2>1. Cardinality(Threads) \in Nat
    BY SchedAssumption, FS_CardinalityType, Zenon
  <2>2. Cardinality(Threads) # 0
    BY SchedAssumption, FS_EmptySet, Zenon
  <2>3. Cardinality(Threads) - 1 \in Nat
    BY <2>1, <2>2
  <2> DEFINE n == Cardinality(Threads) - 1
  <2> HIDE DEF n
  <2>4. n \in Nat /\ others \in [1..n -> Threads]
    BY <2>3, SMTT(30) DEF n
  <2> QED BY <2>4
<1>4. /\ state \in [AllThreads -> States] /\ current_process \in AllThreads /\ OneRunning
      /\ \A t \in Threads : state[t] = "READY" <=> t # c
  BY <1>1, Params, Zenon DEF States, OneRunning
<1>5. ASSUME NEW p \in Levels
      PROVE  /\ runq[p] \in Seq(Threads) /\ Distinct(runq[p])
             /\ \A t \in Threads : t \in Nodes(runq[p]) <=> state[t] = "READY" /\ priority[t] = p
  <2> DEFINE At == {t \in Threads : priority[t] = p}
             r == Those(others, At)
             e == <<>>
  <2>1. runq[p] = e \o r
    BY <1>1, Zenon DEF PushAll
  <2>2. r \in Seq(Threads) /\ Distinct(r) /\ Nodes(r) = Nodes(others) \cap At
    BY <1>1, <1>3, ThoseFacts, Zenon
  <2>3. e \in Seq(Threads) /\ Distinct(e) /\ Nodes(e) = {}
    BY DEF Distinct, Nodes
  <2> HIDE DEF r, e
  <2>4. Nodes(e) \cap Nodes(r) = {}
    BY <2>3, Zenon
  <2>5. /\ e \o r \in Seq(Threads) /\ Nodes(e \o r) = Nodes(e) \cup Nodes(r)
        /\ Distinct(e \o r)
    BY <2>2, <2>3, <2>4, ConcatFacts
  <2> QED BY <1>1, <1>4, <2>1, <2>2, <2>3, <2>5, ZenonT(60)
<1>6. Core
  <2>1. runq \in [Levels -> Seq(Threads)]
    BY <1>1, <1>5, Zenon DEF PushAll
  <2>2. RunqExact
    BY <1>5, Zenon DEF RunqExact
  <2> QED BY <1>4, <2>1, <2>2, Zenon DEF Core
<1>7. Types
  <2>1. 0 \in {m \in Nat : \E n \in Timeouts \cup {0} : m <= n} /\ 0 \in 0..MaxPreempt
    BY SchedAssumption
  <2>2. sleep_list \in Seq(Threads) /\ wq \in [Queues -> Seq(Threads)] /\ ticks_left \in 0..Quantum
    BY <1>2, Params
  <2>3. preempt_count \in [AllThreads -> 0..MaxPreempt]
        /\ wake_in \in [Threads -> {m \in Nat : \E n \in Timeouts \cup {0} : m <= n}]
    BY <1>2, <2>1, Zenon
  <2>4. /\ timed_out \in [Threads -> BOOLEAN] /\ sig_interrupt \in [Threads -> BOOLEAN]
        /\ pc \in [Threads -> {"run", "yield", "wait", "sleep"}]
        /\ wait_on \in [Threads -> Queues \cup {NoQueue}] /\ need_resched \in BOOLEAN
    BY <1>1, <1>2, SMTT(30)
  <2> QED BY <2>2, <2>3, <2>4, Zenon DEF Types
<1>8. ListsExact /\ Calls
  BY <1>2 DEF ListsExact, Calls, Nodes, Distinct
<1>9. Abs!Init
  <2>1. others = <<>> <=> Threads = {c}
    <3>1. others = <<>> <=> Nodes(others) = {}
      BY <1>3, NodesEmpty, Zenon
    <3> QED BY <1>1, <3>1, Zenon
  <2> QED BY <1>1, <2>1, AbsNames, Zenon DEF Abs!Init
<1> QED BY <1>6, <1>7, <1>8, <1>9, SInvParts, Zenon

-----------------------------------------------------------------------------
(* The theorems *)

\* Whatever calls, ticks, wake-ups and signals come in whatever order, the run queues hold
\* exactly the READY threads and the wait queues and the sleep list exactly the waiting ones.
THEOREM SchedQueuesExact == Spec => []QueuesExact
<1>1. SInv => QueuesExact
  BY Zenon DEF SInv, QueuesExact
<1> QED BY <1>1, SInvInit, SInvNext, PTL DEF Spec

\* schedule() and the interrupt tail, with their queues, do what SchedAbs promises.
THEOREM SchedImplements == Spec => ImplementsSchedAbs
<1>1. Init => Abs!Init
  BY SInvInit, Zenon
<1>2. SInv /\ [Next]_vars => [Abs!Next]_Abs!vars
  BY SInvNext, Zenon DEF AbsStep
<1> QED BY <1>1, <1>2, SInvInit, SInvNext, PTL DEF Spec, ImplementsSchedAbs, Abs!Spec

-----------------------------------------------------------------------------
(* What SchedAbs promises *)

\* The inductive invariant: the typing, the single RUNNING thread, and the owed switch.
AInv == Abs!TypeOK /\ Abs!OneRunning /\ Abs!PreemptionOwed

\* Idle ranks below every thread.
LEMMA RankFacts ==
    /\ Abs!rank \in [Abs!AllThreads -> Int]
    /\ \A t \in Threads : Abs!rank[t] < Abs!rank[Idle]
<1>1. \A t \in Threads : Abs!rank[t] < Abs!rank[Idle]
  <2> SUFFICES ASSUME NEW t \in Threads PROVE rank[t] < rank[Idle]
    BY AbsNames, Zenon
  <2>1. rank[t] = priority[t] /\ priority[t] \in Levels /\ rank[Idle] = LowestLevel + 1
    BY Params, Zenon
  <2> QED BY <2>1, SchedParamsAssumption DEF Levels
<1>2. Abs!rank \in [Abs!AllThreads -> Int]
  <2>1. \A t \in AllThreads : rank[t] \in Nat
    BY Params, Zenon
  <2>2. rank \in [AllThreads -> Nat]
    BY <2>1, Zenon DEF rank
  <2> QED BY <2>2, AbsNames
<1> QED BY <1>1, <1>2, Zenon

\* The thread state reached at boot satisfies the invariant.
LEMMA AInvInit == Abs!Init => AInv
  <1> SUFFICES ASSUME Abs!Init PROVE AInv
    BY SMTT(30)
  <1> USE SchedParamsAssumption, RankFacts DEF Abs!Init, Abs!AllThreads
  <1>1. Abs!TypeOK
    BY Zenon DEF Abs!TypeOK
  <1>2. Abs!OneRunning
    BY Zenon DEF Abs!OneRunning
  <1>3. Abs!PreemptionOwed
    BY Zenon DEF Abs!PreemptionOwed
  <1> QED
    BY <1>1, <1>2, <1>3, Zenon DEF AInv

\* A switch picks a thread nothing READY outranks, so nothing is owed after it.
LEMMA AInvSwitch ==
    ASSUME AInv, NEW W \in SUBSET Abs!Blocked, NEW how \in {"READY", "BLOCKED"}, Abs!Switch(W, how)
    PROVE  AInv'
  <1> DEFINE st == Abs!Left(W, how)
  <1>1. st \in [Abs!AllThreads -> {"READY", "RUNNING", "BLOCKED"}]
    BY Zenon DEF AInv, Abs!TypeOK, Abs!Left, Abs!Wakened, Abs!AllThreads
  <1>2. \A t \in Abs!AllThreads : st[t] # "RUNNING"
    BY <1>1, Zenon DEF AInv, Abs!TypeOK, Abs!OneRunning, Abs!Left, Abs!Wakened, Abs!AllThreads
  <1>3. PICK next \in Abs!Ready(st) \cup {Idle} :
             /\ \A t \in Abs!Ready(st) : Abs!rank[next] <= Abs!rank[t]
             /\ state' = [st EXCEPT ![next] = "RUNNING"]
             /\ current_process' = next
    BY Zenon DEF Abs!Switch
  <1>4. next \in Abs!AllThreads
    BY <1>3, Zenon DEF Abs!Ready, Abs!AllThreads
  <1>5. Abs!TypeOK'
    BY <1>1, <1>3, <1>4, Zenon DEF Abs!TypeOK, AInv, Abs!Switch
  <1>6. Abs!OneRunning'
    BY <1>1, <1>2, <1>3, <1>4, Zenon DEF Abs!OneRunning
  <1>7. \A t \in Threads : state'[t] = "READY" => Abs!rank[next] <= Abs!rank[t]
    BY <1>1, <1>3, Zenon DEF Abs!Ready, Abs!AllThreads
  <1>8. Abs!PreemptionOwed'
    BY <1>3, <1>4, <1>7, SchedParamsAssumption, RankFacts DEF Abs!PreemptionOwed, Abs!AllThreads
  <1> QED
    BY <1>5, <1>6, <1>8, Zenon DEF AInv

\* Every step preserves the invariant.
LEMMA AInvNext == AInv /\ [Abs!Next]_Abs!vars => AInv'
  <1> SUFFICES ASSUME AInv, [Abs!Next]_Abs!vars PROVE AInv'
    BY Zenon
  <1>1. ASSUME NEW W \in SUBSET Abs!Blocked, Abs!Wake(W) PROVE AInv'
    <2>1. Abs!TypeOK'
      BY <1>1, Zenon DEF AInv, Abs!TypeOK, Abs!Wake, Abs!Wakened
    <2>2. Abs!OneRunning'
      BY <1>1, SMTT(30) DEF AInv, Abs!TypeOK, Abs!OneRunning, Abs!Wake, Abs!Wakened, Abs!Blocked, Abs!AllThreads
    <2>3. Abs!PreemptionOwed'
      BY <1>1, Zenon DEF Abs!PreemptionOwed, Abs!Wake
    <2> QED
      BY <2>1, <2>2, <2>3, Zenon DEF AInv
  <1>2. CASE Abs!QuantumEnds
    BY <1>2, Zenon DEF Abs!QuantumEnds, AInv, Abs!TypeOK, Abs!OneRunning, Abs!PreemptionOwed
  <1>3. ASSUME NEW W \in SUBSET Abs!Blocked, NEW how \in {"READY", "BLOCKED"}, Abs!Switch(W, how)
        PROVE  AInv'
    BY <1>3, AInvSwitch, Zenon
  <1>4. CASE UNCHANGED Abs!vars
    BY <1>4, Zenon DEF Abs!vars, AInv, Abs!TypeOK, Abs!OneRunning, Abs!PreemptionOwed
  <1> QED
    BY <1>1, <1>2, <1>3, <1>4, Zenon DEF Abs!Next


\* A READY thread that outranks the one on the CPU has a switch owed to it, in every
\* implementation of SchedAbs.
THEOREM AbsPreemptionOwed == Abs!Spec => []Abs!PreemptionOwed
<1>1. AInv => Abs!PreemptionOwed
  BY Zenon DEF AInv
<1> QED BY <1>1, AInvInit, AInvNext, PTL DEF Abs!Spec

\* Exactly one thread is RUNNING, in every implementation of SchedAbs.
THEOREM AbsOneRunning == Abs!Spec => [](Abs!TypeOK /\ Abs!OneRunning)
<1>1. AInv => Abs!TypeOK /\ Abs!OneRunning
  BY Zenon DEF AInv
<1> QED BY <1>1, AInvInit, AInvNext, PTL DEF Abs!Spec

\* No wake-up, by a thread, a device interrupt, a signal or the tick, is forgotten by the
\* preemption machinery of the scheduler itself.
THEOREM SchedPreemptionOwed == Spec => []PreemptionOwed
<1>1. Abs!PreemptionOwed => PreemptionOwed
  BY AbsNames, Zenon DEF Abs!PreemptionOwed, PreemptionOwed
<1> QED BY <1>1, SchedImplements, AbsPreemptionOwed, PTL DEF ImplementsSchedAbs

-----------------------------------------------------------------------------
(* The result of a wait *)

\* What WakeResultStable says of a step.
ResultKept ==
    \A t \in Threads :
        pc[t] = "wait" /\ state[t] # "BLOCKED" /\ pc'[t] = "wait"
            => timed_out'[t] = timed_out[t] /\ sig_interrupt'[t] = sig_interrupt[t]

\* A thread's own steps leave the results of other sleepers alone, and its own until it returns them.
LEMMA ResultThread ==
    ASSUME SInv, NEW c \in Threads, ThreadStep(c) PROVE ResultKept
<1> USE DEF ResultKept
<1>1. /\ timed_out \in [Threads -> BOOLEAN] /\ sig_interrupt \in [Threads -> BOOLEAN]
      /\ pc \in [Threads -> {"run", "yield", "wait", "sleep"}]
  BY Zenon DEF SInv, TypeOK
<1>2. ASSUME NEW q \in Queues, NEW n \in Timeouts, sched_wait_event(c, q, n) PROVE ResultKept
  BY <1>1, <1>2, Zenon DEF sched_wait_event, Running
<1>3. CASE wait_event_woken(c)
  BY <1>1, <1>3, ZenonT(60) DEF wait_event_woken
<1>4. CASE preempt_disable(c) \/ preempt_enable(c) \/ thread_yield(c) \/ sleep_ticks_woken(c)
  BY <1>4, SMTT(30) DEF preempt_disable, preempt_enable, thread_yield, sleep_ticks_woken
<1>5. ASSUME NEW n \in Timeouts, sched_sleep_ticks(c, n) PROVE ResultKept
  BY <1>5, Zenon DEF sched_sleep_ticks
<1> QED BY <1>2, <1>3, <1>4, <1>5, ZenonT(60) DEF ThreadStep

\* A wake-up or a signal writes the result of a sleeper only as it makes it READY.
LEMMA ResultWake ==
    ASSUME SInv, NEW byIrq \in BOOLEAN, WakeStep(byIrq) PROVE ResultKept
<1>1. /\ timed_out \in [Threads -> BOOLEAN] /\ sig_interrupt \in [Threads -> BOOLEAN]
      /\ wq \in [Queues -> Seq(Threads)]
  BY Zenon DEF SInv, TypeOK
<1>2. ASSUME NEW q \in Queues, wq_wake_one(q, byIrq) PROVE ResultKept
  <2> DEFINE live == FirstLive(wq[q], Blocked)
             ts == IF live = {} THEN <<>> ELSE <<wq[q][CHOOSE i \in live : TRUE]>>
  <2>1. Nodes(ts) \subseteq Blocked
    <3>1. CASE live = {}
      BY <3>1 DEF Nodes
    <3>2. CASE live # {}
      <4> DEFINE x == wq[q][CHOOSE i \in live : TRUE]
      <4>1. x \in Blocked /\ ts = <<x>>
        BY <3>2, ZenonT(60) DEF FirstLive
      <4> HIDE DEF x, ts
      <4> QED BY <4>1 DEF Nodes
    <3> QED BY <3>1, <3>2, Zenon
  <2>2. /\ timed_out' = [t \in Threads |-> IF t \in Nodes(ts) THEN FALSE ELSE timed_out[t]]
        /\ sig_interrupt' = sig_interrupt
    BY <1>2, SMTT(30) DEF wq_wake_one
  <2> HIDE DEF ts
  <2> QED BY <2>1, <2>2, Zenon DEF ResultKept, Blocked
<1>3. ASSUME NEW q \in Queues, wq_wake_all(q, byIrq) PROVE ResultKept
  <2> DEFINE ts == Those(wq[q], Blocked)
  <2>1. Nodes(ts) \subseteq Blocked
    BY <1>1, ThoseFacts
  <2>2. /\ timed_out' = [t \in Threads |-> IF t \in Nodes(ts) THEN FALSE ELSE timed_out[t]]
        /\ sig_interrupt' = sig_interrupt
    BY <1>3, Zenon DEF wq_wake_all
  <2> HIDE DEF ts
  <2> QED BY <2>1, <2>2, Zenon DEF ResultKept, Blocked
<1>4. ASSUME NEW s \in Signalled, signal_send(s, byIrq) PROVE ResultKept
  BY <1>1, <1>4, ZenonT(60) DEF signal_send, ResultKept
<1> QED BY <1>2, <1>3, <1>4, Zenon DEF WakeStep

\* The tick writes timed_out only of the sleepers it wakes.
LEMMA ResultTick == ASSUME SInv, sched_tick PROVE ResultKept
<1> DEFINE ts == Those(sleep_list, {t \in Blocked : Expired(t)})
<1>1. sleep_list \in Seq(Threads) /\ timed_out \in [Threads -> BOOLEAN]
  BY Zenon DEF SInv, TypeOK
<1>2. Nodes(ts) \subseteq Blocked
  BY <1>1, ThoseFacts
<1>3. /\ timed_out' = [t \in Threads |-> t \in Nodes(ts) \/ timed_out[t]]
      /\ sig_interrupt' = sig_interrupt
  BY Zenon DEF sched_tick, wake_expired_sleepers
<1> HIDE DEF ts
<1>4. ASSUME NEW t \in Threads, state[t] # "BLOCKED" PROVE timed_out'[t] = timed_out[t]
  <2>1. t \notin Nodes(ts)
    BY <1>2, <1>4, Zenon DEF Blocked
  <2>2. timed_out[t] \in BOOLEAN
    BY <1>1, Zenon
  <2> QED BY <1>3, <2>1, <2>2, Zenon
<1> QED BY <1>3, <1>4, Zenon DEF ResultKept

\* A wake-up that was delivered to a waiter is never turned into a timeout, nor a timeout
\* into a wake-up, before sched_wait_event returns it.
THEOREM SchedWakeResult == Spec => WakeResultStable
<1>1. SInv /\ [Next]_vars => [ResultKept]_vars
  BY ResultThread, ResultWake, ResultTick, Zenon DEF Next
<1> QED BY <1>1, SInvInit, SInvNext, PTL DEF Spec, WakeResultStable, ResultKept
=============================================================================
