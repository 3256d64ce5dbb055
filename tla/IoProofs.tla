------------------------------ MODULE IoProofs ------------------------------
(***************************************************************************)
(* Proofs about where processes wait for input and output: pipes with the  *)
(* descriptor tables that hold their ends (Pipe), the network daemon (Netd) *)
(* and the signals of a process (Signal).  For every set of processes, of   *)
(* descriptors, of senders and of signals, and every size of a ring.        *)
(***************************************************************************)
EXTENDS Signal, Netd, Pipe, FiniteSetTheorems, TLAPS

-----------------------------------------------------------------------------
(* Counting around a ring of n places. *)

\* r is what a, less than twice round the ring, is the place of.
Wraps(n, a, r) == r \in 0..(n - 1) /\ (a < n => r = a) /\ (~(a < n) => r = a - n)

\* Once round the ring at most.
LEMMA Wrap ==
    ASSUME NEW n \in Nat \ {0}, NEW a \in Nat, a < 2 * n
    PROVE  Wraps(n, a, a % n)
<1>1. CASE a < n
  <2>1. a % n = a
    BY <1>1
  <2> QED BY <1>1, <2>1 DEF Wraps
<1>2. CASE ~(a < n)
  <2>1. a % n = a - n
    BY <1>2
  <2> QED BY <1>2, <2>1 DEF Wraps
<1> QED BY <1>1, <1>2, Zenon

\* Backwards, once round the ring at most.
LEMMA WrapBack ==
    ASSUME NEW n \in Nat \ {0}, NEW a \in Int, 0 - n <= a, a < 0
    PROVE  a % n = a + n
OBVIOUS

\* Going on from a place of the ring.
LEMMA WrapTwice ==
    ASSUME NEW n \in Nat \ {0}, NEW a \in 0..(n - 1), NEW b \in Nat, NEW c \in Nat, b + c <= n
    PROVE  (((a + b) % n) + c) % n = (a + b + c) % n
<1> DEFINE d == (a + b) % n
           e == (a + b + c) % n
           f == (d + c) % n
<1>1. a + b \in Nat /\ a + b < 2 * n /\ a + b + c \in Nat /\ a + b + c < 2 * n
  OBVIOUS
<1>2. Wraps(n, a + b, d)
  BY <1>1, Wrap, Zenon
<1>3. Wraps(n, a + b + c, e)
  BY <1>1, Wrap, Zenon
<1> HIDE DEF d, e
<1>4. d + c \in Nat /\ d + c < 2 * n
  BY <1>2 DEF Wraps
<1>5. Wraps(n, d + c, f)
  BY <1>4, Wrap, Zenon
<1> HIDE DEF f
<1>6. f = e
  BY <1>1, <1>2, <1>3, <1>4, <1>5 DEF Wraps
<1> QED BY <1>6, Zenon DEF d, e, f

\* How far the place of the i-th of c elements is from where the next one goes.
LEMMA Distance ==
    ASSUME NEW n \in Nat \ {0}, NEW a \in 0..(n - 1), NEW c \in 0..n, NEW i \in 0..(n - 1)
    PROVE  (((a + i) % n) - ((a + c) % n)) % n = IF i < c THEN n + i - c ELSE i - c
<1> DEFINE x == (a + i) % n
           h == (a + c) % n
           y == (x - h) % n
<1>0. a + i \in Nat /\ a + i < 2 * n /\ a + c \in Nat /\ a + c < 2 * n
  OBVIOUS
<1>1. Wraps(n, a + i, x)
  BY <1>0, Wrap, Zenon
<1>2. Wraps(n, a + c, h)
  BY <1>0, Wrap, Zenon
<1> HIDE DEF x, h
<1>3. x \in 0..(n - 1) /\ h \in 0..(n - 1)
  BY <1>1, <1>2, Zenon DEF Wraps
<1>4. CASE x >= h
  <2>1. x - h \in Nat /\ x - h < 2 * n
    BY <1>3, <1>4
  <2>2. Wraps(n, x - h, y)
    BY <2>1, Wrap, Zenon
  <2> HIDE DEF y
  <2>3. y = IF i < c THEN n + i - c ELSE i - c
    BY <1>1, <1>2, <1>3, <1>4, <2>2 DEF Wraps
  <2> QED BY <2>3 DEF x, h, y
<1>5. CASE ~(x >= h)
  <2>1. x - h \in Int /\ 0 - n <= x - h /\ x - h < 0
    BY <1>3, <1>5
  <2>2. y = x - h + n
    BY <2>1, WrapBack, Zenon
  <2> HIDE DEF y
  <2>3. y = IF i < c THEN n + i - c ELSE i - c
    BY <1>1, <1>2, <1>3, <1>5, <2>2 DEF Wraps
  <2> QED BY <2>3 DEF x, h, y
<1> QED BY <1>4, <1>5, Zenon

-----------------------------------------------------------------------------
(* Pipes: what the tables hold, counted. *)

\* The slots of the tables S that hold e.
Held(S, e) == {s \in Tables \X Fds : S[s[1]][s[2]] = e}

\* The tables and sizes the pipe is proved correct for.
PipeFits ==
    /\ IsFiniteSet(Procs) /\ IsFiniteSet(Fds)
    /\ NULL \notin Procs /\ NULL \notin Ends /\ NULL \notin Fds
    /\ PIPE_CAP \in Nat \ {0} /\ Chunk \in Nat \ {0} /\ Counts \subseteq Nat
    /\ Mod \in Nat /\ PIPE_CAP <= Mod

\* The slots of table t that hold e, among all the slots, if it is g.
Row(t, g, e) == {s \in Tables \X Fds : s[1] = t /\ g[s[2]] = e}

\* There are as many of them as the table says.
LEMMA OneTable ==
    ASSUME PipeFits, NEW t \in Procs, NEW g, NEW e
    PROVE  IsFiniteSet(Row(t, g, e)) /\ Cardinality(Row(t, g, e)) = InSlots(g, e)
<1> DEFINE S == {fd \in Fds : g[fd] = e}
           B == Row(t, g, e)
           f == [x \in S |-> <<t, x>>]
<1>1. IsFiniteSet(S)
  BY FS_Subset, Zenon DEF PipeFits
<1>2. f \in [S -> B]
  BY Zenon DEF Tables, Row
<1>3. \A x, y \in S : f[x] = f[y] => x = y
  BY Zenon
<1>4. \A s \in B : \E x \in S : f[x] = s
  <2> TAKE s \in B
  <2>1. s[2] \in S /\ s = <<t, s[2]>>
    BY DEF Row
  <2> QED BY <2>1, Zenon
<1> HIDE DEF S, B, f
<1>5. f \in Bijection(S, B)
  <2>1. f \in Injection(S, B)
    BY <1>2, <1>3, Zenon DEF Injection, IsInjective
  <2>2. f \in Surjection(S, B)
    BY <1>2, <1>4, Zenon DEF Surjection
  <2> QED
    BY <2>1, <2>2, Zenon DEF Bijection
<1>6. ExistsBijection(S, B)
  BY <1>5, Zenon DEF ExistsBijection
<1>7. IsFiniteSet(B) /\ Cardinality(B) = Cardinality(S)
  BY <1>1, <1>6, FS_Bijection, Zenon
<1> QED
  BY <1>7, Zenon DEF S, B, InSlots

\* A slot set is finite and counts are naturals.
LEMMA SlotCounts ==
    ASSUME PipeFits, NEW g, NEW e
    PROVE  InSlots(g, e) \in Nat /\ (InSlots(g, e) = 0 <=> \A fd \in Fds : g[fd] # e)
<1> DEFINE S == {fd \in Fds : g[fd] = e}
<1>1. IsFiniteSet(S)
  BY FS_Subset, Zenon DEF PipeFits
<1>2. Cardinality(S) \in Nat /\ (Cardinality(S) = 0 <=> S = {})
  BY <1>1, FS_CardinalityType, FS_EmptySet, Zenon
<1> QED
  BY <1>2, Zenon DEF InSlots

\* Functions that agree on D except at c.
SameBut(D, f, h, c) == \A x \in D \ {c} : h[x] = f[x]

\* The slots that hold an end are finitely many.
LEMMA HeldFinite ==
    ASSUME PipeFits, NEW S, NEW e
    PROVE  IsFiniteSet(Held(S, e)) /\ Cardinality(Held(S, e)) \in Nat
<1>1. IsFiniteSet(Tables \X Fds)
  BY FS_Product, Zenon DEF PipeFits, Tables
<1>2. IsFiniteSet(Held(S, e))
  BY <1>1, FS_Subset, Zenon DEF Held
<1> QED
  BY <1>2, FS_CardinalityType, Zenon

\* The count of an end follows from that of the table t that changes.
Counted(S, R, t, e) ==
    Cardinality(Held(R, e)) = Cardinality(Held(S, e)) - InSlots(S[t], e) + InSlots(R[t], e)

\* It is so whatever the table becomes.
LEMMA TableMove ==
    ASSUME PipeFits, NEW S, NEW R, NEW t \in Procs, NEW e, SameBut(Procs, S, R, t)
    PROVE  Counted(S, R, t, e)
<1> DEFINE A == {s \in Tables \X Fds : s[1] # t /\ S[s[1]][s[2]] = e}
           B == Row(t, S[t], e)
           C == Row(t, R[t], e)
<1>1. Held(S, e) = A \cup B /\ A \cap B = {}
  BY Zenon DEF Held, Row
<1>2. Held(R, e) = A \cup C /\ A \cap C = {}
  BY Zenon DEF Held, Row, Tables, SameBut
<1>3. IsFiniteSet(Tables \X Fds)
  BY FS_Product, Zenon DEF PipeFits, Tables
<1>4. IsFiniteSet(A)
  BY <1>3, FS_Subset, Zenon
<1>5. /\ IsFiniteSet(B) /\ Cardinality(B) = InSlots(S[t], e)
      /\ IsFiniteSet(C) /\ Cardinality(C) = InSlots(R[t], e)
  BY OneTable, Zenon
<1>6. InSlots(S[t], e) \in Nat /\ InSlots(R[t], e) \in Nat
  BY SlotCounts, Zenon
<1>7. Cardinality(A) \in Nat /\ Cardinality({}) = 0 /\ Cardinality(Held(S, e)) \in Nat
  BY <1>4, HeldFinite, FS_CardinalityType, FS_EmptySet, Zenon
<1> HIDE DEF A, B, C
<1>8. Cardinality(A \cup B) = Cardinality(A) + Cardinality(B) - Cardinality(A \cap B)
  BY <1>4, <1>5, FS_Union, Zenon
<1>9. Cardinality(A \cup C) = Cardinality(A) + Cardinality(C) - Cardinality(A \cap C)
  BY <1>4, <1>5, FS_Union, Zenon
<1>10. Cardinality(Held(R, e)) = Cardinality(Held(S, e)) - InSlots(S[t], e) + InSlots(R[t], e)
  <2>1. Cardinality(A \cap B) = 0 /\ Cardinality(A \cap C) = 0
    BY <1>1, <1>2, <1>7, Zenon
  <2>2. /\ Cardinality(Held(S, e)) = Cardinality(A) + InSlots(S[t], e) - 0
        /\ Cardinality(Held(R, e)) = Cardinality(A) + InSlots(R[t], e) - 0
    BY <1>1, <1>2, <1>5, <1>8, <1>9, <2>1, Zenon
  <2> QED
    BY <1>6, <1>7, <2>2
<1> QED
  BY <1>10, Zenon DEF Counted

\* Where a function has a value.
Where(D, f, v) == {x \in D : f[x] = v}

\* A value is had at no point or at one or more.
LEMMA WhereCount ==
    ASSUME NEW D, IsFiniteSet(D), NEW f, NEW v
    PROVE  /\ Cardinality(Where(D, f, v)) \in Nat
           /\ Cardinality(Where(D, f, v)) = 0 <=> \A x \in D : f[x] # v
<1>1. IsFiniteSet(Where(D, f, v))
  BY FS_Subset, Zenon DEF Where
<1>2. /\ Cardinality(Where(D, f, v)) \in Nat
      /\ Cardinality(Where(D, f, v)) = 0 <=> Where(D, f, v) = {}
  BY <1>1, FS_CardinalityType, FS_EmptySet, Zenon
<1> QED
  BY <1>2, Zenon DEF Where

\* Changed at one point, it has its old value at one point less, its new one at one more.
Moved(D, f, h, c) ==
    /\ Cardinality(Where(D, h, f[c])) = Cardinality(Where(D, f, f[c])) - 1
    /\ Cardinality(Where(D, h, h[c])) = Cardinality(Where(D, f, h[c])) + 1
    /\ \A v : v # h[c] /\ v # f[c] => Cardinality(Where(D, h, v)) = Cardinality(Where(D, f, v))

\* So it is with every function on a finite set.
LEMMA PointMove ==
    ASSUME NEW D, IsFiniteSet(D), NEW f, NEW h, NEW c \in D, SameBut(D, f, h, c), h[c] # f[c]
    PROVE  Moved(D, f, h, c)
<1>1. \A v : IsFiniteSet(Where(D, f, v))
  BY FS_Subset, Zenon DEF Where
<1>3. Where(D, h, f[c]) = Where(D, f, f[c]) \ {c} /\ c \in Where(D, f, f[c])
  BY DEF Where, SameBut
<1>4. Where(D, h, h[c]) = Where(D, f, h[c]) \cup {c} /\ c \notin Where(D, f, h[c])
  BY Zenon DEF Where, SameBut
<1>5. \A v : v # h[c] /\ v # f[c] => Where(D, h, v) = Where(D, f, v)
  BY Zenon DEF Where, SameBut
<1>6. Cardinality(Where(D, f, f[c]) \ {c}) = Cardinality(Where(D, f, f[c])) - 1
  BY <1>1, <1>3, FS_RemoveElement, Zenon
<1>7. Cardinality(Where(D, f, h[c]) \cup {c}) = Cardinality(Where(D, f, h[c])) + 1
  BY <1>1, <1>4, FS_AddElement, Zenon
<1> QED
  BY <1>3, <1>4, <1>5, <1>6, <1>7, Zenon DEF Moved

\* Filling or emptying one slot of a table.
LEMMA SlotMove ==
    ASSUME PipeFits, NEW g, NEW h, NEW fd \in Fds, SameBut(Fds, g, h, fd), h[fd] # g[fd]
    PROVE  /\ InSlots(h, g[fd]) = InSlots(g, g[fd]) - 1
           /\ InSlots(h, h[fd]) = InSlots(g, h[fd]) + 1
           /\ \A e : e # h[fd] /\ e # g[fd] => InSlots(h, e) = InSlots(g, e)
<1>1. IsFiniteSet(Fds) /\ \A k, e : InSlots(k, e) = Cardinality(Where(Fds, k, e))
  BY Zenon DEF PipeFits, InSlots, Where
<1>2. Moved(Fds, g, h, fd)
  BY <1>1, PointMove, Zenon
<1> QED
  BY <1>1, <1>2, Zenon DEF Moved

-----------------------------------------------------------------------------
(* Pipes: the inductive invariant. *)

\* Descriptions count the slots that hold them, tables the processes that use them.
TablesInv ==
    /\ fd_table \in [Procs -> Procs \cup {NULL}]
    /\ slots \in [Procs -> [Fds -> Ends \cup {NULL}]]
    /\ fd_rc \in [Procs -> Nat] /\ refcount \in [Ends -> Nat]
    /\ \A e \in Ends : refcount[e] = Cardinality(Held(slots, e))
    /\ \A t \in Procs : fd_rc[t] = Cardinality(Where(Procs, fd_table, t))
    /\ \A t \in Procs : fd_rc[t] = 0 => \A fd \in Fds : slots[t][fd] = NULL

EndsInv ==
    /\ readers = (IF refcount["r"] > 0 THEN 1 ELSE 0)
    /\ writers = (IF refcount["w"] > 0 THEN 1 ELSE 0)

RingInv ==
    /\ buf \in [0..(PIPE_CAP - 1) -> 0..(Mod - 1)] /\ first \in 0..(Mod - 1)
    /\ head \in 0..(PIPE_CAP - 1) /\ tail \in 0..(PIPE_CAP - 1) /\ count \in 0..PIPE_CAP
    /\ Fifo

CallRecs == [op : {"idle", "read", "write"}, n : Nat, part : 0..Chunk, fd : Fds \cup {NULL}]

\* A piece is part of what is left to move.
CallsInv ==
    /\ call \in [Procs -> CallRecs] /\ \A p \in Procs : call[p].part <= call[p].n
    /\ cur \in Procs \cup {NULL}
    /\ rwait \subseteq Procs /\ wwait \subseteq Procs
    /\ blocked \subseteq Procs /\ interrupted \subseteq Procs

\* A call is on a slot of the caller's own table that is not empty.
OpenInv ==
    \A p \in Procs : call[p] # Idle =>
        /\ fd_table[p] \in Procs /\ call[p].fd \in Fds
        /\ slots[fd_table[p]][call[p].fd] # NULL

PipeInv == TablesInv /\ EndsInv /\ RingInv /\ CallsInv /\ OpenInv /\ SleepersHaveReason

\* A table changes, and the counts of the descriptions with it.
LEMMA RefsMove ==
    ASSUME PipeFits, TablesInv, NEW t \in Procs, SameBut(Procs, slots, slots', t),
           NEW new \in [Ends -> Int],
           \A e \in Ends : new[e] = refcount[e] - InSlots(slots[t], e) + InSlots(slots'[t], e)
    PROVE  new \in [Ends -> Nat] /\ \A e \in Ends : new[e] = Cardinality(Held(slots', e))
<1>1. ASSUME NEW e \in Ends
      PROVE  new[e] \in Nat /\ new[e] = Cardinality(Held(slots', e))
  <2>1. Cardinality(Held(slots', e))
          = Cardinality(Held(slots, e)) - InSlots(slots[t], e) + InSlots(slots'[t], e)
    <3>1. Counted(slots, slots', t, e)
      BY TableMove, Zenon
    <3> QED
      BY <3>1, Zenon DEF Counted
  <2>2. Cardinality(Held(slots, e)) = refcount[e]
    BY Zenon DEF TablesInv
  <2>3. new[e] = Cardinality(Held(slots', e))
    BY <2>1, <2>2, Zenon
  <2>4. Cardinality(Held(slots', e)) \in Nat
    BY HeldFinite, Zenon
  <2> QED
    BY <2>3, <2>4, Zenon
<1>2. new \in [Ends -> Nat]
  BY <1>1, Zenon
<1> QED
  BY <1>1, <1>2, Zenon

\* An empty ring is in order.
LEMMA EmptyRing ==
    ASSUME PipeFits, count' = 0, head' = 0, tail' = 0, first' = 0,
           buf' = [i \in 0..(PIPE_CAP - 1) |-> 0]
    PROVE  RingInv'
<1>1. 0 \in 0..(PIPE_CAP - 1) /\ 0 \in 0..(Mod - 1) /\ 0 \in 0..PIPE_CAP
  BY DEF PipeFits
<1>2. (tail' + count') % PIPE_CAP = 0 /\ 0..(count' - 1) = {}
  BY DEF PipeFits
<1> QED
  BY <1>1, <1>2, Zenon DEF RingInv, Fifo

\* k bytes taken out at the tail leave the rest in order.
LEMMA TakeRing ==
    ASSUME PipeFits, RingInv, NEW k \in 0..count,
           tail' = (tail + k) % PIPE_CAP, count' = count - k, first' = (first + k) % Mod,
           UNCHANGED <<buf, head>>
    PROVE  RingInv'
<1>1. /\ PIPE_CAP \in Nat \ {0} /\ Mod \in Nat \ {0} /\ PIPE_CAP <= Mod
      /\ tail \in 0..(PIPE_CAP - 1) /\ first \in 0..(Mod - 1) /\ count \in 0..PIPE_CAP
  BY DEF PipeFits, RingInv
<1>2. tail + k \in Nat /\ tail + k < 2 * PIPE_CAP /\ first + k \in Nat /\ first + k < 2 * Mod
  BY <1>1
<1>3. Wraps(PIPE_CAP, tail + k, tail') /\ Wraps(Mod, first + k, first')
  BY <1>1, <1>2, Wrap, Zenon
<1>4. tail' \in 0..(PIPE_CAP - 1) /\ first' \in 0..(Mod - 1)
  BY <1>3, Zenon DEF Wraps
<1>5. count' \in 0..PIPE_CAP /\ count' \in Nat /\ k \in Nat /\ k + count' <= PIPE_CAP /\ k + count' = count
  BY <1>1
<1>6. head' = (tail' + count') % PIPE_CAP
  <2>1. (((tail + k) % PIPE_CAP) + count') % PIPE_CAP = (tail + k + count') % PIPE_CAP
    BY <1>1, <1>5, WrapTwice, Zenon
  <2>2. tail + k + count' = tail + count
    BY <1>1, <1>5
  <2>3. head = (tail + count) % PIPE_CAP
    BY Zenon DEF RingInv, Fifo
  <2> QED
    BY <2>1, <2>2, <2>3, Zenon
<1>7. ASSUME NEW i \in 0..(count' - 1)
      PROVE  buf'[(tail' + i) % PIPE_CAP] = (first' + i) % Mod
  <2>1. i \in Nat /\ k + i \in 0..(count - 1) /\ k + i <= PIPE_CAP /\ k + i <= Mod
    BY <1>1, <1>5
  <2>2. (((tail + k) % PIPE_CAP) + i) % PIPE_CAP = (tail + k + i) % PIPE_CAP
    BY <1>1, <1>5, <2>1, WrapTwice, Zenon
  <2>3. (((first + k) % Mod) + i) % Mod = (first + k + i) % Mod
    BY <1>1, <1>5, <2>1, WrapTwice, Zenon
  <2>4. tail + k + i = tail + (k + i) /\ first + k + i = first + (k + i)
    BY <1>1, <2>1
  <2>5. buf[(tail + (k + i)) % PIPE_CAP] = (first + (k + i)) % Mod
    BY <2>1, Zenon DEF RingInv, Fifo
  <2> QED
    BY <2>2, <2>3, <2>4, <2>5, Zenon
<1>8. buf' \in [0..(PIPE_CAP - 1) -> 0..(Mod - 1)] /\ head' \in 0..(PIPE_CAP - 1)
  BY Zenon DEF RingInv
<1> QED
  BY <1>4, <1>5, <1>6, <1>7, <1>8, Zenon DEF RingInv, Fifo

\* k bytes put in at the head, around the end of the ring, follow those that were there.
LEMMA PutRing ==
    ASSUME PipeFits, RingInv, NEW k \in Nat, k <= PIPE_CAP - count, Put(k)
    PROVE  RingInv' /\ count' = count + k
<1>1. /\ PIPE_CAP \in Nat \ {0} /\ Mod \in Nat \ {0} /\ PIPE_CAP <= Mod
      /\ tail \in 0..(PIPE_CAP - 1) /\ first \in 0..(Mod - 1) /\ count \in 0..PIPE_CAP
  BY DEF PipeFits, RingInv
<1>2. /\ count' = count + k /\ head' = (head + k) % PIPE_CAP /\ tail' = tail /\ first' = first
      /\ buf' = [i \in DOMAIN buf |->
                   LET j == (i - head) % PIPE_CAP
                   IN  IF j < k THEN (first + count + j) % Mod ELSE buf[i]]
  BY Zenon DEF Put
<1>3. head = (tail + count) % PIPE_CAP /\ head \in 0..(PIPE_CAP - 1)
  BY Zenon DEF RingInv, Fifo
<1>4. DOMAIN buf = 0..(PIPE_CAP - 1) /\ \A i \in 0..(PIPE_CAP - 1) : buf[i] \in 0..(Mod - 1)
  BY Zenon DEF RingInv
<1>5. count + k \in 0..PIPE_CAP /\ count \in Nat /\ count + k <= PIPE_CAP
  BY <1>1
<1>6. head' \in 0..(PIPE_CAP - 1) /\ head' = (tail' + count') % PIPE_CAP
  <2>1. (((tail + count) % PIPE_CAP) + k) % PIPE_CAP = (tail + count + k) % PIPE_CAP
    BY <1>1, <1>5, WrapTwice, Zenon
  <2>2. tail + count + k = tail + (count + k)
    BY <1>1, <1>5
  <2>3. head + k \in Nat /\ head + k < 2 * PIPE_CAP
    BY <1>1, <1>3, <1>5
  <2>4. Wraps(PIPE_CAP, head + k, (head + k) % PIPE_CAP)
    BY <1>1, <2>3, Wrap, Zenon
  <2> QED
    BY <1>2, <1>3, <2>1, <2>2, <2>4, Zenon DEF Wraps
<1>7. buf' \in [0..(PIPE_CAP - 1) -> 0..(Mod - 1)]
  <2>1. ASSUME NEW i \in 0..(PIPE_CAP - 1)
        PROVE  buf'[i] \in 0..(Mod - 1)
    <3> DEFINE j == (i - head) % PIPE_CAP
    <3>1. buf'[i] = IF j < k THEN (first + count + j) % Mod ELSE buf[i]
      BY <1>2, <1>4, Zenon
    <3>2. j \in Nat
      BY <1>1, <1>3
    <3> HIDE DEF j
    <3>3. first + count + j \in Nat
      BY <1>1, <3>2
    <3>4. (first + count + j) % Mod \in 0..(Mod - 1)
      BY <1>1, <3>3
    <3> QED
      BY <1>4, <3>1, <3>4, Zenon
  <2> QED
    BY <1>2, <1>4, <2>1, Zenon
<1>8. ASSUME NEW i \in 0..(count' - 1)
      PROVE  buf'[(tail' + i) % PIPE_CAP] = (first' + i) % Mod
  <2> DEFINE x == (tail + i) % PIPE_CAP
             j == (x - head) % PIPE_CAP
  <2>1. i \in 0..(PIPE_CAP - 1) /\ i \in Nat /\ i < count + k
    BY <1>1, <1>2, <1>5
  <2>2. j = IF i < count THEN PIPE_CAP + i - count ELSE i - count
    <3>1. (((tail + i) % PIPE_CAP) - ((tail + count) % PIPE_CAP)) % PIPE_CAP
            = IF i < count THEN PIPE_CAP + i - count ELSE i - count
      BY <1>1, <2>1, Distance, SMTT(30)
    <3> QED
      BY <1>3, <3>1, Zenon
  <2>3. x \in 0..(PIPE_CAP - 1)
    <3>1. tail + i \in Nat /\ tail + i < 2 * PIPE_CAP
      BY <1>1, <2>1
    <3> QED
      BY <1>1, <3>1, Wrap, Zenon DEF Wraps
  <2>4. buf'[x] = IF j < k THEN (first + count + j) % Mod ELSE buf[x]
    BY <1>2, <1>4, <2>3, Zenon
  <2>5. i < count => buf[x] = (first + i) % Mod
    <3>1. i < count => i \in 0..(count - 1)
      BY <1>1, <2>1
    <3> QED
      BY <3>1, Zenon DEF RingInv, Fifo
  <2> HIDE DEF x, j
  <2>6. CASE i < count
    <3>1. ~(j < k)
      BY <1>1, <1>5, <2>1, <2>2, <2>6
    <3>2. buf'[x] = (first + i) % Mod
      BY <2>4, <2>5, <2>6, <3>1, Zenon
    <3> QED
      BY <1>2, <3>2, Zenon DEF x
  <2>7. CASE ~(i < count)
    <3>1. j < k /\ first + count + j = first + i
      BY <1>1, <1>5, <2>1, <2>2, <2>7
    <3>2. buf'[x] = (first + i) % Mod
      BY <2>4, <3>1, Zenon
    <3> QED
      BY <1>2, <3>2, Zenon DEF x
  <2> QED
    BY <2>6, <2>7, Zenon
<1> QED
  BY <1>1, <1>2, <1>5, <1>6, <1>7, <1>8, Zenon DEF RingInv, Fifo

\* Nobody sleeps when no process is in a queue, and sleepers stay where the pipe does not change.
LEMMA SleepKept ==
    ASSUME SleepersHaveReason, blocked' \subseteq blocked,
           \A p \in blocked' : /\ call'[p] = call[p]
                               /\ p \in rwait => p \in rwait'
                               /\ p \in wwait => p \in wwait',
           UNCHANGED <<count, readers, writers>>
    PROVE  SleepersHaveReason'
  BY Zenon DEF SleepersHaveReason

\* file_put(): the ends that lose their last reference wake whoever sleeps.
LEMMA PutKeeps ==
    ASSUME PipeFits, PipeInv, NEW new \in [Ends -> Nat], file_put(new), UNCHANGED <<call, cur, interrupted>>,
           \A e \in Ends : new[e] > 0 => refcount[e] > 0
    PROVE  refcount' = new /\ EndsInv' /\ RingInv' /\ CallsInv' /\ SleepersHaveReason'
<1> DEFINE gone == {e \in Ends : refcount[e] > 0 /\ new[e] = 0}
<1>1. /\ refcount' = new
      /\ IF \A e \in Ends : new[e] = 0 THEN Empty
         ELSE /\ readers' = IF "r" \in gone THEN readers - 1 ELSE readers
              /\ writers' = IF "w" \in gone THEN writers - 1 ELSE writers
              /\ UNCHANGED ring
      /\ IF gone = {} THEN UNCHANGED <<blocked, rwait, wwait>>
         ELSE /\ blocked' = blocked \ (rwait \cup wwait)
              /\ rwait' = {} /\ wwait' = {}
  BY Zenon DEF file_put
<1>2. "r" \in Ends /\ "w" \in Ends /\ \A e \in Ends : e = "r" \/ e = "w"
  BY Zenon DEF Ends
<1>3. /\ refcount \in [Ends -> Nat]
      /\ readers = (IF refcount["r"] > 0 THEN 1 ELSE 0) /\ writers = (IF refcount["w"] > 0 THEN 1 ELSE 0)
  BY Zenon DEF PipeInv, TablesInv, EndsInv
<1>4. EndsInv'
  <2>1. CASE \A e \in Ends : new[e] = 0
    BY <1>1, <1>2, <2>1 DEF Empty, EndsInv
  <2>2. CASE ~(\A e \in Ends : new[e] = 0)
    <3>1. readers' = (IF new["r"] > 0 THEN 1 ELSE 0)
      BY <1>1, <1>2, <1>3, <2>2
    <3>2. writers' = (IF new["w"] > 0 THEN 1 ELSE 0)
      BY <1>1, <1>2, <1>3, <2>2
    <3> QED
      BY <1>1, <3>1, <3>2, Zenon DEF EndsInv
  <2> QED
    BY <2>1, <2>2, Zenon
<1>5. RingInv'
  <2>1. CASE \A e \in Ends : new[e] = 0
    BY <1>1, <2>1, EmptyRing, Zenon DEF Empty
  <2>2. CASE ~(\A e \in Ends : new[e] = 0)
    BY <1>1, <2>2, Zenon DEF ring, RingInv, Fifo, PipeInv
  <2> QED
    BY <2>1, <2>2, Zenon
<1>6. CallsInv'
  <2>1. rwait' \subseteq rwait /\ wwait' \subseteq wwait /\ blocked' \subseteq blocked
    BY <1>1, Zenon
  <2> QED
    BY <2>1, Zenon DEF CallsInv, PipeInv
<1>7. SleepersHaveReason'
  <2>1. SleepersHaveReason
    BY Zenon DEF PipeInv
  <2>2. CASE gone # {}
    <3>1. blocked' = {}
      BY <1>1, <2>1, <2>2, Zenon DEF SleepersHaveReason
    <3> QED
      BY <3>1, Zenon DEF SleepersHaveReason
  <2>3. CASE gone = {} /\ \A e \in Ends : new[e] = 0
    <3>1. \A e \in Ends : refcount[e] = 0
      BY <1>3, <2>3
    <3>2. readers = 0 /\ writers = 0
      BY <1>2, <1>3, <3>1
    <3>3. blocked = {}
      BY <2>1, <3>2 DEF SleepersHaveReason
    <3> QED
      BY <1>1, <2>3, <3>3, Zenon DEF SleepersHaveReason
  <2>4. CASE gone = {} /\ ~(\A e \in Ends : new[e] = 0)
    <3>1. UNCHANGED <<blocked, rwait, wwait, readers, writers>> /\ UNCHANGED ring
      BY <1>1, <2>4, Zenon
    <3> QED
      BY <2>1, <3>1, Zenon DEF SleepersHaveReason, ring
  <2> QED
    BY <2>2, <2>3, <2>4, Zenon
<1> QED
  BY <1>1, <1>4, <1>5, <1>6, <1>7, Zenon

\* A step that leaves the pipe and the calls alone keeps all that does not name the tables.
LEMMA PipeAlone ==
    ASSUME PipeInv, UNCHANGED <<readers, writers, ring, rwait, wwait, cur, call, blocked, interrupted>>
    PROVE  RingInv' /\ CallsInv' /\ SleepersHaveReason'
<1>1. RingInv'
  BY Zenon DEF PipeInv, RingInv, Fifo, ring
<1>2. CallsInv'
  BY Zenon DEF PipeInv, CallsInv
<1>3. SleepersHaveReason'
  BY Zenon DEF PipeInv, SleepersHaveReason, ring
<1> QED
  BY <1>1, <1>2, <1>3, Zenon

\* A process in user mode has a table, which is in use.
LEMMA OwnTable ==
    ASSUME PipeFits, PipeInv, NEW p \in Procs, p \in UserProcs
    PROVE  /\ fd_table[p] \in Procs /\ slots[fd_table[p]] \in [Fds -> Ends \cup {NULL}]
           /\ fd_rc[fd_table[p]] > 0 /\ call[p] = Idle
<1>1. /\ fd_table[p] \in Procs /\ slots[fd_table[p]] \in [Fds -> Ends \cup {NULL}]
      /\ fd_rc[fd_table[p]] = Cardinality(Where(Procs, fd_table, fd_table[p]))
  BY Zenon DEF UserProcs, Alive, PipeInv, TablesInv
<1>2. IsFiniteSet(Where(Procs, fd_table, fd_table[p])) /\ p \in Where(Procs, fd_table, fd_table[p])
  BY FS_Subset, Zenon DEF PipeFits, Where
<1>3. Cardinality(Where(Procs, fd_table, fd_table[p])) \in Nat \ {0}
  BY <1>2, FS_CardinalityType, FS_EmptySet, Zenon
<1> QED
  BY <1>1, <1>3 DEF UserProcs

\* An end without references is in no slot.
LEMMA HeldNowhere ==
    ASSUME PipeFits, TablesInv, NEW e \in Ends, refcount[e] = 0, NEW t \in Procs
    PROVE  (\A fd \in Fds : slots[t][fd] # e) /\ InSlots(slots[t], e) = 0
<1>1. Cardinality(Held(slots, e)) = 0
  BY Zenon DEF TablesInv
<1>2. Held(slots, e) = {}
  BY <1>1, HeldFinite, FS_EmptySet, Zenon
<1>3. \A fd \in Fds : slots[t][fd] # e
  <2> SUFFICES ASSUME NEW fd \in Fds, slots[t][fd] = e
               PROVE  FALSE
    BY Zenon
  <2> DEFINE s == <<t, fd>>
  <2>1. s \in Tables \X Fds /\ s[1] = t /\ s[2] = fd
    BY Zenon DEF Tables
  <2> HIDE DEF s
  <2>2. s \in Held(slots, e)
    BY <2>1, Zenon DEF Held
  <2> QED
    BY <1>2, <2>2, Zenon
<1> QED
  BY <1>3, SlotCounts, Zenon

\* A table in use changes.
LEMMA TablesKept ==
    ASSUME PipeFits, TablesInv, NEW t \in Procs, fd_rc[t] > 0, SameBut(Procs, slots, slots', t),
           slots' \in [Procs -> [Fds -> Ends \cup {NULL}]], UNCHANGED <<fd_table, fd_rc>>,
           refcount' \in [Ends -> Int],
           \A e \in Ends : refcount'[e] = refcount[e] - InSlots(slots[t], e) + InSlots(slots'[t], e)
    PROVE  TablesInv'
<1>1. refcount' \in [Ends -> Nat] /\ \A e \in Ends : refcount'[e] = Cardinality(Held(slots', e))
  BY RefsMove, Zenon
<1>2. \A u \in Procs : fd_rc'[u] = 0 => \A fd \in Fds : slots'[u][fd] = NULL
  BY DEF TablesInv, SameBut
<1> QED
  BY <1>1, <1>2, Zenon DEF TablesInv

\* Table t keeps what calls use.
StillOpen(t) ==
    \A q \in Procs : call[q] # Idle /\ fd_table[q] = t /\ slots[t][call[q].fd] # NULL
                       => slots'[t][call[q].fd] # NULL

\* Calls go on while the slots they use are not emptied.
LEMMA OpenKept ==
    ASSUME PipeFits, PipeInv, NEW t \in Procs, SameBut(Procs, slots, slots', t),
           fd_table' = fd_table, call' = call, StillOpen(t)
    PROVE  OpenInv'
<1>1. ASSUME NEW q \in Procs, call[q] # Idle
      PROVE  /\ fd_table[q] \in Procs /\ call[q].fd \in Fds
             /\ slots'[fd_table[q]][call[q].fd] # NULL
  <2>1. /\ fd_table[q] \in Procs /\ call[q].fd \in Fds
        /\ slots[fd_table[q]][call[q].fd] # NULL
    BY <1>1, Zenon DEF PipeInv, OpenInv
  <2>2. CASE fd_table[q] = t
    BY <1>1, <2>1, <2>2, Zenon DEF StillOpen
  <2>3. CASE fd_table[q] # t
    BY <2>1, <2>3, Zenon DEF SameBut
  <2> QED
    BY <2>1, <2>2, <2>3, Zenon
<1> QED
  BY <1>1, Zenon DEF OpenInv, Idle

\* pipe(): two free slots of the caller's table take the ends of a new pipe.
LEMMA PipeKeeps ==
    ASSUME PipeFits, PipeInv, NEW p \in Procs, vfs_pipe(p)
    PROVE  PipeInv'
<1> DEFINE t == fd_table[p]
<1>1. PICK rfd \in Fds, wfd \in Fds :
        /\ slots[t][rfd] = NULL /\ slots[t][wfd] = NULL /\ rfd # wfd
        /\ slots' = [slots EXCEPT ![t][rfd] = "r", ![t][wfd] = "w"]
  BY Zenon DEF vfs_pipe, Slot
<1>2. /\ p \in UserProcs /\ (\A e \in Ends : refcount[e] = 0)
      /\ refcount' = [e \in Ends |-> 1] /\ readers' = 1 /\ writers' = 1
      /\ UNCHANGED <<fd_table, fd_rc, rwait, wwait, cur, call, blocked, interrupted>> /\ UNCHANGED ring
  BY Zenon DEF vfs_pipe
<1>3. t \in Procs /\ slots[t] \in [Fds -> Ends \cup {NULL}] /\ fd_rc[t] > 0
  BY <1>2, OwnTable, Zenon
<1>4. TablesInv /\ slots \in [Procs -> [Fds -> Ends \cup {NULL}]]
  BY Zenon DEF PipeInv, TablesInv
<1> HIDE DEF t
<1>5. /\ \A u \in Procs \ {t} : slots'[u] = slots[u]
      /\ \A fd \in Fds : slots'[t][fd] = IF fd = wfd THEN "w" ELSE IF fd = rfd THEN "r" ELSE slots[t][fd]
      /\ slots' \in [Procs -> [Fds -> Ends \cup {NULL}]]
  BY <1>1, <1>3, <1>4, Zenon DEF Ends
<1>6. ASSUME NEW e \in Ends
      PROVE  InSlots(slots[t], e) = 0 /\ InSlots(slots'[t], e) = 1
  <2>1. InSlots(slots[t], e) = 0 /\ \A fd \in Fds : slots[t][fd] # e
    BY <1>2, <1>3, <1>4, HeldNowhere, Zenon
  <2>2. PICK x \in Fds : {fd \in Fds : slots'[t][fd] = e} = {x}
    BY <1>1, <1>5, <2>1 DEF Ends
  <2> QED
    BY <2>1, <2>2, FS_Singleton, Zenon DEF InSlots
<1>7. TablesInv'
  <2>1. SameBut(Procs, slots, slots', t)
    BY <1>5, Zenon DEF SameBut
  <2>2. refcount' \in [Ends -> Int]
        /\ \A e \in Ends : refcount'[e] = refcount[e] - InSlots(slots[t], e) + InSlots(slots'[t], e)
    BY <1>2, <1>6
  <2> QED
    BY <1>2, <1>3, <1>4, <1>5, <2>1, <2>2, TablesKept, Zenon
<1>8. EndsInv'
  BY <1>2 DEF EndsInv, Ends
<1>9. RingInv' /\ CallsInv'
  BY <1>2, Zenon DEF PipeInv, RingInv, Fifo, CallsInv, ring
<1>10. OpenInv'
  <2>1. SameBut(Procs, slots, slots', t)
    BY <1>5, Zenon DEF SameBut
  <2>2. "r" # NULL /\ "w" # NULL
    BY Zenon DEF PipeFits, Ends
  <2>3. \A fd \in Fds : slots[t][fd] # NULL => slots'[t][fd] # NULL
    BY <1>5, <2>2, Zenon
  <2>4. \A q \in Procs : call[q] # Idle => call[q].fd \in Fds
    BY Zenon DEF PipeInv, OpenInv
  <2>5. StillOpen(t)
    BY <2>3, <2>4, Zenon DEF StillOpen
  <2>6. fd_table' = fd_table /\ call' = call
    BY <1>2, Zenon
  <2> QED
    BY <1>3, <2>1, <2>5, <2>6, OpenKept, Zenon
<1>11. SleepersHaveReason'
  <2>1. readers = 0 /\ writers = 0
    BY <1>2 DEF PipeInv, EndsInv, Ends
  <2>2. blocked = {}
    BY <2>1 DEF PipeInv, SleepersHaveReason
  <2> QED
    BY <1>2, <2>2, Zenon DEF SleepersHaveReason
<1> QED
  BY <1>7, <1>8, <1>9, <1>10, <1>11, Zenon DEF PipeInv

\* One slot of the caller's table changes, and file_put() settles the counts.
LEMMA SlotKeeps ==
    ASSUME PipeFits, PipeInv, NEW p \in Procs, p \in UserProcs, NEW fd \in Fds, NEW v \in Ends \cup {NULL},
           NotInUse(p, fd), slots' = [slots EXCEPT ![fd_table[p]][fd] = v],
           NEW new \in [Ends -> Int], file_put(new), UNCHANGED <<fd_table, fd_rc, cur, call, interrupted>>,
           \A e \in Ends : new[e] = refcount[e] - InSlots(slots[fd_table[p]], e)
                                                + InSlots(slots'[fd_table[p]], e),
           v # NULL => refcount[v] > 0
    PROVE  PipeInv'
<1> DEFINE t == fd_table[p]
<1>1. t \in Procs /\ slots[t] \in [Fds -> Ends \cup {NULL}] /\ fd_rc[t] > 0 /\ call[p] = Idle
  BY OwnTable, Zenon
<1>2. TablesInv /\ slots \in [Procs -> [Fds -> Ends \cup {NULL}]] /\ refcount \in [Ends -> Nat]
  BY Zenon DEF PipeInv, TablesInv
<1>3. \A e \in Ends : new[e] = refcount[e] - InSlots(slots[t], e) + InSlots(slots'[t], e)
  BY Zenon
<1>4. /\ SameBut(Procs, slots, slots', t) /\ slots' \in [Procs -> [Fds -> Ends \cup {NULL}]]
      /\ slots'[t][fd] = v /\ \A x \in Fds \ {fd} : slots'[t][x] = slots[t][x]
  BY <1>1, <1>2, Zenon DEF SameBut
<1>5. \A q \in Procs : fd_table[q] = t => call[q].fd # fd
  BY <1>1, Zenon DEF NotInUse, Alive, PipeFits
<1> HIDE DEF t
<1>6. new \in [Ends -> Nat]
  BY <1>1, <1>2, <1>3, <1>4, RefsMove, Zenon
<1>7. \A e \in Ends : new[e] > 0 => refcount[e] > 0
  <2> SUFFICES ASSUME NEW e \in Ends, refcount[e] = 0
               PROVE  new[e] = 0
    BY <1>2, <1>6
  <2>1. InSlots(slots[t], e) = 0 /\ \A x \in Fds : slots[t][x] # e
    BY <1>1, <1>2, HeldNowhere, Zenon
  <2>2. e # NULL /\ v # e
    BY DEF PipeFits
  <2>3. \A x \in Fds : slots'[t][x] # e
    BY <1>4, <2>1, <2>2, Zenon
  <2>4. InSlots(slots'[t], e) = 0
    BY <2>3, SlotCounts, Zenon
  <2> QED
    BY <1>3, <2>1, <2>4
<1>8. refcount' = new /\ EndsInv' /\ RingInv' /\ CallsInv' /\ SleepersHaveReason'
  <2>1. UNCHANGED <<call, cur, interrupted>>
    BY Zenon
  <2> QED
    BY <1>6, <1>7, <2>1, PutKeeps, Zenon
<1>9. TablesInv'
  <2>1. UNCHANGED <<fd_table, fd_rc>> /\ refcount' \in [Ends -> Int]
    BY <1>8, Zenon
  <2>2. \A e \in Ends : refcount'[e] = refcount[e] - InSlots(slots[t], e) + InSlots(slots'[t], e)
    BY <1>3, <1>8, Zenon
  <2> QED
    BY <1>1, <1>2, <1>4, <2>1, <2>2, TablesKept, Zenon
<1>10. OpenInv'
  <2>1. StillOpen(t)
    <3>1. \A q \in Procs : call[q] # Idle => call[q].fd \in Fds
      BY Zenon DEF PipeInv, OpenInv
    <3> QED
      BY <1>4, <1>5, <3>1, Zenon DEF StillOpen
  <2>2. fd_table' = fd_table /\ call' = call
    BY Zenon
  <2> QED
    BY <1>1, <1>4, <2>1, <2>2, OpenKept, Zenon
<1> QED
  BY <1>8, <1>9, <1>10, Zenon DEF PipeInv

\* A description in a slot has a reference.
LEMMA InSlotCounted ==
    ASSUME PipeFits, PipeInv, NEW t \in Procs, NEW fd \in Fds, slots[t][fd] # NULL
    PROVE  slots[t][fd] \in Ends /\ refcount[slots[t][fd]] > 0
<1>1. TablesInv /\ slots[t][fd] \in Ends /\ refcount[slots[t][fd]] \in Nat
  BY DEF PipeInv, TablesInv
<1>2. refcount[slots[t][fd]] # 0
  BY <1>1, HeldNowhere, Zenon
<1> QED
  BY <1>1, <1>2

\* dup2().
LEMMA Dup2Keeps ==
    ASSUME PipeFits, PipeInv, NEW p \in Procs, NEW oldfd \in Fds, NEW newfd \in Fds, vfs_dup2(p, oldfd, newfd)
    PROVE  PipeInv'
<1> DEFINE t == fd_table[p]
           v == slots[t][oldfd]
           new == [e \in Ends |-> refcount[e] - InSlots(slots[t], e) + InSlots(slots'[t], e)]
<1>1. /\ p \in UserProcs /\ v # NULL /\ NotInUse(p, newfd)
      /\ slots' = [slots EXCEPT ![t][newfd] = v]
      /\ file_put(new) /\ UNCHANGED <<fd_table, fd_rc, cur, call, interrupted>>
  BY Zenon DEF vfs_dup2, Slot
<1>2. v \in Ends /\ refcount[v] > 0
  BY <1>1, OwnTable, InSlotCounted, Zenon
<1>3. new \in [Ends -> Int]
  <2>1. \A e \in Ends : refcount[e] \in Int /\ InSlots(slots[t], e) \in Int /\ InSlots(slots'[t], e) \in Int
    BY SlotCounts DEF PipeInv, TablesInv
  <2> QED
    BY <2>1
<1>4. \A e \in Ends : new[e] = refcount[e] - InSlots(slots[t], e) + InSlots(slots'[t], e)
  BY Zenon
<1> HIDE DEF v, new
<1> QED
  BY <1>1, <1>2, <1>3, <1>4, SlotKeeps, Zenon

\* close().
LEMMA CloseKeeps ==
    ASSUME PipeFits, PipeInv, NEW p \in Procs, NEW fd \in Fds, vfs_close(p, fd)
    PROVE  PipeInv'
<1> DEFINE t == fd_table[p]
           v == slots[t][fd]
           new == [refcount EXCEPT ![v] = @ - 1]
<1>1. /\ p \in UserProcs /\ v # NULL /\ NotInUse(p, fd)
      /\ slots' = [slots EXCEPT ![t][fd] = NULL]
      /\ file_put(new) /\ UNCHANGED <<fd_table, fd_rc, cur, call, interrupted>>
  BY Zenon DEF vfs_close, Slot
<1>2. v \in Ends /\ refcount[v] > 0
  BY <1>1, OwnTable, InSlotCounted, Zenon
<1>3. t \in Procs /\ slots \in [Procs -> [Fds -> Ends \cup {NULL}]] /\ refcount \in [Ends -> Nat]
  BY <1>1, OwnTable, Zenon DEF PipeInv, TablesInv
<1>4. slots'[t][fd] = NULL /\ SameBut(Fds, slots[t], slots'[t], fd)
  BY <1>1, <1>3, Zenon DEF SameBut
<1>5. /\ InSlots(slots'[t], v) = InSlots(slots[t], v) - 1
      /\ \A e : e # NULL /\ e # v => InSlots(slots'[t], e) = InSlots(slots[t], e)
  BY <1>1, <1>4, SlotMove
<1>6. new \in [Ends -> Int] /\ new[v] = refcount[v] - 1 /\ \A e \in Ends \ {v} : new[e] = refcount[e]
  BY <1>2, <1>3
<1>7. \A e \in Ends : InSlots(slots[t], e) \in Nat /\ refcount[e] \in Nat /\ e # NULL
  BY <1>3, SlotCounts, Zenon DEF PipeFits
<1> HIDE DEF v, new
<1>8. \A e \in Ends : new[e] = refcount[e] - InSlots(slots[t], e) + InSlots(slots'[t], e)
  <2> SUFFICES ASSUME NEW e \in Ends
               PROVE  new[e] = refcount[e] - InSlots(slots[t], e) + InSlots(slots'[t], e)
    BY Zenon
  <2> DEFINE a == InSlots(slots[t], e)
             b == InSlots(slots'[t], e)
  <2>1. /\ a \in Nat /\ refcount[e] \in Nat
        /\ e = v => new[e] = refcount[e] - 1 /\ b = a - 1
        /\ e # v => new[e] = refcount[e] /\ b = a
    BY <1>5, <1>6, <1>7, Zenon
  <2> HIDE DEF a, b
  <2>2. new[e] = refcount[e] - a + b
    BY <2>1
  <2> QED
    BY <2>2, Zenon DEF a, b
<1> QED
  BY <1>1, <1>6, <1>8, SlotKeeps, Zenon

\* Processes come to a table and leave it, and the counts of the tables follow.
OwnersKept ==
    /\ fd_table' \in [Procs -> Procs \cup {NULL}] /\ fd_rc' \in [Procs -> Nat]
    /\ \A t \in Procs : fd_rc'[t] = Cardinality(Where(Procs, fd_table', t))

\* A new process takes a table.
LEMMA OwnerComes ==
    ASSUME PipeFits, TablesInv, NEW c \in Procs, c \notin Alive, NEW t \in Procs,
           fd_table' = [fd_table EXCEPT ![c] = t], fd_rc' = [fd_rc EXCEPT ![t] = @ + 1]
    PROVE  OwnersKept
<1>1. /\ fd_table \in [Procs -> Procs \cup {NULL}] /\ fd_rc \in [Procs -> Nat] /\ fd_table[c] = NULL
      /\ \A u \in Procs : fd_rc[u] = Cardinality(Where(Procs, fd_table, u))
      /\ IsFiniteSet(Procs) /\ NULL \notin Procs
  BY Zenon DEF TablesInv, Alive, PipeFits
<1>2. /\ fd_table' \in [Procs -> Procs \cup {NULL}] /\ fd_table'[c] = t
      /\ SameBut(Procs, fd_table, fd_table', c)
      /\ fd_rc' \in [Procs -> Nat] /\ fd_rc'[t] = fd_rc[t] + 1
      /\ \A u \in Procs \ {t} : fd_rc'[u] = fd_rc[u]
  BY <1>1 DEF SameBut
<1>3. fd_table'[c] # fd_table[c]
  BY <1>1, <1>2, Zenon
<1>4. Moved(Procs, fd_table, fd_table', c)
  BY <1>1, <1>2, <1>3, PointMove, Zenon
<1>5. \A u \in Procs : fd_rc'[u] = Cardinality(Where(Procs, fd_table', u))
  BY <1>1, <1>2, <1>4, Zenon DEF Moved
<1> QED
  BY <1>2, <1>5, Zenon DEF OwnersKept

\* A process leaves its table.
LEMMA OwnerLeaves ==
    ASSUME PipeFits, TablesInv, NEW p \in Procs, fd_table[p] \in Procs, fd_rc[fd_table[p]] > 0,
           fd_table' = [fd_table EXCEPT ![p] = NULL], fd_rc' = [fd_rc EXCEPT ![fd_table[p]] = @ - 1]
    PROVE  OwnersKept
<1> DEFINE t == fd_table[p]
<1>1. /\ fd_table \in [Procs -> Procs \cup {NULL}] /\ fd_rc \in [Procs -> Nat]
      /\ \A u \in Procs : fd_rc[u] = Cardinality(Where(Procs, fd_table, u))
      /\ IsFiniteSet(Procs) /\ NULL \notin Procs
  BY Zenon DEF TablesInv, PipeFits
<1>2. /\ fd_table' \in [Procs -> Procs \cup {NULL}] /\ fd_table'[p] = NULL
      /\ SameBut(Procs, fd_table, fd_table', p)
      /\ fd_rc' \in [Procs -> Nat] /\ fd_rc'[t] = fd_rc[t] - 1
      /\ \A u \in Procs \ {t} : fd_rc'[u] = fd_rc[u]
  BY <1>1 DEF SameBut
<1>3. fd_table'[p] # fd_table[p]
  BY <1>1, <1>2, Zenon
<1>4. Moved(Procs, fd_table, fd_table', p)
  BY <1>1, <1>2, <1>3, PointMove, Zenon
<1>5. \A u \in Procs : fd_rc'[u] = Cardinality(Where(Procs, fd_table', u))
  BY <1>1, <1>2, <1>4, Zenon DEF Moved
<1> QED
  BY <1>2, <1>5, Zenon DEF OwnersKept

\* A process that does not exist is in no call.
LEMMA Unborn ==
    ASSUME PipeFits, PipeInv, NEW c \in Procs, c \notin Alive
    PROVE  call[c] = Idle /\ fd_table[c] = NULL
  BY Zenon DEF PipeFits, PipeInv, OpenInv, Alive

\* fork().
LEMMA ForkKeeps ==
    ASSUME PipeFits, PipeInv, NEW p \in Procs, NEW c \in Procs, vfs_fork_fds(p, c)
    PROVE  PipeInv'
<1> DEFINE t == fd_table[p]
<1>1. /\ p \in UserProcs /\ c \notin Alive /\ fd_rc[c] = 0
      /\ fd_table' = [fd_table EXCEPT ![c] = c] /\ fd_rc' = [fd_rc EXCEPT ![c] = 1]
      /\ slots' = [slots EXCEPT ![c] = slots[t]]
      /\ refcount' = [e \in Ends |-> refcount[e] + InSlots(slots[t], e)]
      /\ UNCHANGED <<readers, writers, ring, rwait, wwait, cur, call, blocked, interrupted>>
  BY Zenon DEF vfs_fork_fds
<1>2. /\ TablesInv /\ t \in Procs /\ slots \in [Procs -> [Fds -> Ends \cup {NULL}]]
      /\ refcount \in [Ends -> Nat] /\ fd_rc \in [Procs -> Nat]
      /\ fd_table \in [Procs -> Procs \cup {NULL}]
  BY <1>1, OwnTable, Zenon DEF PipeInv, TablesInv
<1>3. RingInv' /\ CallsInv' /\ SleepersHaveReason'
  BY <1>1, PipeAlone, Zenon
<1>4. \A e \in Ends : /\ InSlots(slots[t], e) \in Nat /\ InSlots(slots[c], e) = 0
                      /\ refcount[e] = 0 => InSlots(slots[t], e) = 0
  <2>1. \A fd \in Fds : slots[c][fd] = NULL
    BY <1>1, Zenon DEF PipeInv, TablesInv
  <2>2. \A e \in Ends : \A fd \in Fds : slots[c][fd] # e
    BY <2>1, Zenon DEF PipeFits
  <2>3. \A e \in Ends : InSlots(slots[c], e) = 0
    BY <2>2, SlotCounts, Zenon
  <2> QED
    BY <1>2, <2>3, SlotCounts, HeldNowhere, Zenon
<1>5. /\ slots' \in [Procs -> [Fds -> Ends \cup {NULL}]] /\ slots'[c] = slots[t]
      /\ SameBut(Procs, slots, slots', c)
  BY <1>1, <1>2, Zenon DEF SameBut
<1>6. refcount' \in [Ends -> Nat] /\ \A e \in Ends : refcount'[e] = Cardinality(Held(slots', e))
  <2>1. refcount' \in [Ends -> Int]
    BY <1>1, <1>2, <1>4
  <2>2. \A e \in Ends : refcount'[e] = refcount[e] - InSlots(slots[c], e) + InSlots(slots'[c], e)
    <3> SUFFICES ASSUME NEW e \in Ends
                 PROVE  refcount'[e] = refcount[e] - InSlots(slots[c], e) + InSlots(slots'[c], e)
      BY Zenon
    <3>1. /\ refcount'[e] = refcount[e] + InSlots(slots[t], e) /\ InSlots(slots[c], e) = 0
          /\ InSlots(slots'[c], e) = InSlots(slots[t], e) /\ refcount[e] \in Nat /\ InSlots(slots[t], e) \in Nat
      BY <1>1, <1>2, <1>4, <1>5, Zenon
    <3> QED
      BY <3>1
  <2>3. TablesInv /\ SameBut(Procs, slots, slots', c)
    BY <1>2, <1>5, Zenon
  <2> QED
    BY <2>1, <2>2, <2>3, RefsMove, Zenon
<1>7. OwnersKept
  <2>1. fd_rc' = [fd_rc EXCEPT ![c] = @ + 1]
    BY <1>1
  <2> QED
    BY <1>1, <1>2, <2>1, OwnerComes, Zenon
<1>8. TablesInv'
  <2>1. \A u \in Procs : fd_rc'[u] = 0 => \A fd \in Fds : slots'[u][fd] = NULL
    <3>1. fd_rc'[c] = 1 /\ \A u \in Procs \ {c} : fd_rc'[u] = fd_rc[u] /\ slots'[u] = slots[u]
      BY <1>1, <1>2, Zenon
    <3> QED
      BY <1>2, <3>1 DEF TablesInv
  <2> QED
    BY <1>5, <1>6, <1>7, <2>1, Zenon DEF TablesInv, OwnersKept
<1>9. EndsInv'
  <2>1. \A e \in Ends : refcount'[e] > 0 <=> refcount[e] > 0
    BY <1>1, <1>2, <1>4
  <2>2. "r" \in Ends /\ "w" \in Ends
    BY Zenon DEF Ends
  <2>3. readers' = readers /\ writers' = writers
    BY <1>1, Zenon
  <2> QED
    BY <2>1, <2>2, <2>3, Zenon DEF EndsInv, PipeInv
<1>10. OpenInv'
  <2>1. ASSUME NEW q \in Procs, call'[q] # Idle
        PROVE  /\ fd_table'[q] \in Procs /\ call'[q].fd \in Fds
               /\ slots'[fd_table'[q]][call'[q].fd] # NULL
    <3>1. call' = call /\ q # c
      BY <1>1, <2>1, Unborn, Zenon
    <3>2. /\ fd_table[q] \in Procs /\ call[q].fd \in Fds
          /\ slots[fd_table[q]][call[q].fd] # NULL
      BY <2>1, <3>1, Zenon DEF PipeInv, OpenInv
    <3>3. fd_table'[q] = fd_table[q]
      BY <1>1, <1>2, <3>1, Zenon
    <3>4. fd_table[q] # c
      <4>1. Cardinality(Where(Procs, fd_table, c)) = 0 /\ IsFiniteSet(Procs)
        BY <1>1, Zenon DEF PipeInv, TablesInv, PipeFits
      <4> QED
        BY <4>1, WhereCount, Zenon
    <3>5. slots'[fd_table[q]] = slots[fd_table[q]]
      BY <1>5, <3>2, <3>4, Zenon DEF SameBut
    <3> QED
      BY <3>1, <3>2, <3>3, <3>5, Zenon
  <2> QED
    BY <2>1, Zenon DEF OpenInv, Idle
<1> QED
  BY <1>3, <1>8, <1>9, <1>10, Zenon DEF PipeInv

\* Calls of the processes other than p go on when only p's place changes and their tables do not.
LEMMA OthersOpen ==
    ASSUME PipeInv, NEW p \in Procs, call[p] = Idle, call' = call, SameBut(Procs, fd_table, fd_table', p),
           \A q \in Procs \ {p} : fd_table[q] \in Procs => slots'[fd_table[q]] = slots[fd_table[q]]
    PROVE  OpenInv'
<1>1. ASSUME NEW q \in Procs, call'[q] # Idle
      PROVE  /\ fd_table'[q] \in Procs /\ call'[q].fd \in Fds
             /\ slots'[fd_table'[q]][call'[q].fd] # NULL
  <2>1. q \in Procs \ {p} /\ call[q] # Idle
    BY <1>1, Zenon
  <2>2. /\ fd_table[q] \in Procs /\ call[q].fd \in Fds
        /\ slots[fd_table[q]][call[q].fd] # NULL
    BY <2>1, Zenon DEF PipeInv, OpenInv
  <2>3. fd_table'[q] = fd_table[q] /\ slots'[fd_table[q]] = slots[fd_table[q]]
    BY <2>1, <2>2, Zenon DEF SameBut
  <2> QED
    BY <2>2, <2>3, Zenon
<1> QED
  BY <1>1, Zenon DEF OpenInv, Idle

\* clone() with CLONE_FILES.
LEMMA ShareKeeps ==
    ASSUME PipeFits, PipeInv, NEW p \in Procs, NEW c \in Procs, vfs_share_fds(p, c)
    PROVE  PipeInv'
<1> DEFINE t == fd_table[p]
<1>1. /\ p \in UserProcs /\ c \notin Alive
      /\ fd_table' = [fd_table EXCEPT ![c] = t] /\ fd_rc' = [fd_rc EXCEPT ![t] = @ + 1]
      /\ slots' = slots /\ refcount' = refcount
      /\ UNCHANGED <<readers, writers, ring, rwait, wwait, cur, call, blocked, interrupted>>
  BY Zenon DEF vfs_share_fds
<1>2. /\ TablesInv /\ t \in Procs /\ fd_rc \in [Procs -> Nat] /\ fd_table \in [Procs -> Procs \cup {NULL}]
  BY <1>1, OwnTable, Zenon DEF PipeInv, TablesInv
<1>3. RingInv' /\ CallsInv' /\ SleepersHaveReason'
  BY <1>1, PipeAlone, Zenon
<1>4. OwnersKept
  BY <1>1, <1>2, OwnerComes, Zenon
<1>5. \A u \in Procs : fd_rc'[u] = 0 => fd_rc[u] = 0
  BY <1>1, <1>2
<1>6. TablesInv'
  BY <1>1, <1>2, <1>4, <1>5, Zenon DEF TablesInv, OwnersKept
<1>7. EndsInv'
  BY <1>1, Zenon DEF PipeInv, EndsInv
<1>8. OpenInv'
  <2>1. SameBut(Procs, fd_table, fd_table', c)
    BY <1>1, <1>2, Zenon DEF SameBut
  <2>2. call[c] = Idle /\ call' = call
    BY <1>1, Unborn, Zenon
  <2> QED
    BY <1>1, <2>1, <2>2, OthersOpen, Zenon
<1> QED
  BY <1>3, <1>6, <1>7, <1>8, Zenon DEF PipeInv

\* exit(): the table goes with the last process that uses it.
LEMMA CloseAllKeeps ==
    ASSUME PipeFits, PipeInv, NEW p \in Procs, vfs_close_all(p)
    PROVE  PipeInv'
<1> DEFINE t == fd_table[p]
           none == [fd \in Fds |-> NULL]
           new == [e \in Ends |-> refcount[e] - InSlots(slots[t], e)]
<1>1. /\ p \in UserProcs
      /\ fd_table' = [fd_table EXCEPT ![p] = NULL] /\ fd_rc' = [fd_rc EXCEPT ![t] = @ - 1]
      /\ IF fd_rc[t] > 1
         THEN UNCHANGED <<slots, refcount, readers, writers, ring, rwait, wwait, blocked>>
         ELSE slots' = [slots EXCEPT ![t] = none] /\ file_put(new)
      /\ UNCHANGED <<cur, call, interrupted>>
  BY Zenon DEF vfs_close_all
<1>2. /\ TablesInv /\ t \in Procs /\ fd_rc[t] > 0 /\ fd_rc \in [Procs -> Nat] /\ call[p] = Idle
      /\ fd_table \in [Procs -> Procs \cup {NULL}] /\ slots \in [Procs -> [Fds -> Ends \cup {NULL}]]
      /\ refcount \in [Ends -> Nat]
  BY <1>1, OwnTable, Zenon DEF PipeInv, TablesInv
<1>3. OwnersKept
  BY <1>1, <1>2, OwnerLeaves, Zenon
<1>4. SameBut(Procs, fd_table, fd_table', p) /\ call' = call
  BY <1>1, <1>2 DEF SameBut
<1>5. CASE fd_rc[t] > 1
  <2>1. UNCHANGED <<slots, refcount, readers, writers, ring, rwait, wwait, cur, call, blocked, interrupted>>
    BY <1>1, <1>5, Zenon
  <2>2. RingInv' /\ CallsInv' /\ SleepersHaveReason'
    BY <2>1, PipeAlone, Zenon
  <2>3. \A u \in Procs : fd_rc'[u] = 0 => fd_rc[u] = 0
    BY <1>1, <1>2, <1>5
  <2>4. TablesInv'
    BY <1>2, <1>3, <2>1, <2>3, Zenon DEF TablesInv, OwnersKept
  <2>5. EndsInv'
    BY <2>1, Zenon DEF PipeInv, EndsInv
  <2>6. OpenInv'
    BY <1>2, <1>4, <2>1, OthersOpen, Zenon
  <2> QED
    BY <2>2, <2>4, <2>5, <2>6, Zenon DEF PipeInv
<1>6. CASE ~(fd_rc[t] > 1)
  <2>1. slots' = [slots EXCEPT ![t] = none] /\ file_put(new) /\ UNCHANGED <<call, cur, interrupted>>
    BY <1>1, <1>6, Zenon
  <2>2. fd_rc[t] = 1 /\ fd_rc'[t] = 0 /\ \A u \in Procs \ {t} : fd_rc'[u] = fd_rc[u]
    BY <1>1, <1>2, <1>6
  <2>3. /\ slots' \in [Procs -> [Fds -> Ends \cup {NULL}]] /\ SameBut(Procs, slots, slots', t)
        /\ \A fd \in Fds : slots'[t][fd] = NULL
    BY <1>2, <2>1, Zenon DEF SameBut
  <2>4. \A e \in Ends : InSlots(slots'[t], e) = 0 /\ InSlots(slots[t], e) \in Nat
    <3>1. \A e \in Ends : \A fd \in Fds : slots'[t][fd] # e
      BY <2>3, Zenon DEF PipeFits
    <3> QED
      BY <3>1, SlotCounts, Zenon
  <2>5. /\ new \in [Ends -> Int]
        /\ \A e \in Ends : new[e] = refcount[e] - InSlots(slots[t], e) + InSlots(slots'[t], e)
        /\ \A e \in Ends : new[e] > 0 => refcount[e] > 0
    BY <1>2, <2>4
  <2> HIDE DEF new
  <2>6. new \in [Ends -> Nat] /\ \A e \in Ends : new[e] = Cardinality(Held(slots', e))
    BY <1>2, <2>3, <2>5, RefsMove, Zenon
  <2>7. refcount' = new /\ EndsInv' /\ RingInv' /\ CallsInv' /\ SleepersHaveReason'
    BY <2>1, <2>5, <2>6, PutKeeps, Zenon
  <2>8. \A u \in Procs : fd_rc'[u] = 0 => \A fd \in Fds : slots'[u][fd] = NULL
    <3>1. \A u \in Procs \ {t} : slots'[u] = slots[u]
      BY <2>3, Zenon DEF SameBut
    <3> QED
      BY <1>2, <2>2, <2>3, <3>1 DEF TablesInv
  <2>9. TablesInv'
    BY <1>3, <2>3, <2>6, <2>7, <2>8, Zenon DEF TablesInv, OwnersKept
  <2>10. \A q \in Procs \ {p} : fd_table[q] \in Procs => slots'[fd_table[q]] = slots[fd_table[q]]
    <3>1. Cardinality(Where(Procs, fd_table', t)) = 0 /\ IsFiniteSet(Procs)
      BY <1>2, <1>3, <2>2, Zenon DEF OwnersKept, PipeFits
    <3>2. \A q \in Procs : fd_table'[q] # t
      BY <3>1, WhereCount, Zenon
    <3>3. \A q \in Procs \ {p} : fd_table[q] # t
      BY <1>4, <3>2, Zenon DEF SameBut
    <3> QED
      BY <2>3, <3>3, Zenon DEF SameBut
  <2>11. OpenInv'
    BY <1>2, <1>4, <2>10, OthersOpen, Zenon
  <2> QED
    BY <2>7, <2>9, <2>11, Zenon DEF PipeInv
<1> QED
  BY <1>5, <1>6, Zenon

\* A process moves in its call: the call ends or stays on its slot, and no other call changes.
Advances(p) ==
    /\ call' \in [Procs -> CallRecs] /\ \A q \in Procs : call'[q].part <= call'[q].n
    /\ cur' \in Procs \cup {NULL}
    /\ \A q \in Procs \ {p} : call'[q] = call[q]
    /\ call'[p] = Idle \/ (call'[p].fd = call[p].fd /\ call[p] # Idle)

\* Idle is a call.
LEMMA IdleCall ==
    ASSUME PipeFits
    PROVE  Idle \in CallRecs /\ Idle.part <= Idle.n
  BY DEF PipeFits, Idle, CallRecs

\* A call returns.
LEMMA Returns ==
    ASSUME PipeFits, CallsInv, NEW p \in Procs, Return(p)
    PROVE  Advances(p)
<1>1. call \in [Procs -> CallRecs] /\ \A q \in Procs : call[q].part <= call[q].n
  BY Zenon DEF CallsInv
<1>2. call' = [call EXCEPT ![p] = Idle] /\ cur' = NULL
  BY Zenon DEF Return
<1>3. Idle \in CallRecs /\ Idle.part <= Idle.n
  BY IdleCall, Zenon
<1>4. call' \in [Procs -> CallRecs] /\ call'[p] = Idle /\ \A q \in Procs \ {p} : call'[q] = call[q]
  BY <1>1, <1>2, <1>3, Zenon
<1>5. \A q \in Procs : call'[q].part <= call'[q].n
  BY <1>1, <1>3, <1>4, Zenon
<1> QED
  BY <1>2, <1>4, <1>5, Zenon DEF Advances

\* A call that goes on has the rest to move, or a part of its piece gone.
LEMMA GoesOn ==
    ASSUME PipeFits, CallsInv, NEW p \in Procs, call[p] # Idle, call' \in [Procs -> CallRecs],
           SameBut(Procs, call, call', p), call'[p].fd = call[p].fd, call'[p].part <= call'[p].n,
           cur' \in Procs \cup {NULL}
    PROVE  Advances(p)
<1>1. \A q \in Procs : call[q].part <= call[q].n
  BY Zenon DEF CallsInv
<1>2. \A q \in Procs \ {p} : call'[q] = call[q]
  BY Zenon DEF SameBut
<1>3. \A q \in Procs : call'[q].part <= call'[q].n
  BY <1>1, <1>2, Zenon
<1> QED
  BY <1>2, <1>3, Zenon DEF Advances

\* The loops of do_read and do_write go around or end.
LEMMA Continues ==
    ASSUME PipeFits, CallsInv, NEW p \in Procs, call[p] # Idle, NEW n \in Nat, Continue(p, n)
    PROVE  Advances(p)
<1>1. CASE n = 0
  <2>1. Return(p)
    BY <1>1, Zenon DEF Continue
  <2> QED
    BY <2>1, Returns, Zenon
<1>2. CASE n # 0
  <2> DEFINE d == [call EXCEPT ![p].n = n]
  <2>1. call' = [d EXCEPT ![p].part = 0] /\ cur' = p
    BY <1>2, Zenon DEF Continue
  <2>2. call \in [Procs -> CallRecs]
    BY Zenon DEF CallsInv
  <2>3. /\ d \in [Procs -> CallRecs] /\ SameBut(Procs, call, d, p)
        /\ d[p].fd = call[p].fd /\ d[p].n = n
    BY <2>2, Zenon DEF CallRecs, SameBut
  <2> HIDE DEF d
  <2>4. /\ call' \in [Procs -> CallRecs] /\ SameBut(Procs, d, call', p)
        /\ call'[p].fd = d[p].fd /\ call'[p].n = d[p].n /\ call'[p].part = 0
    BY <2>1, <2>3 DEF CallRecs, SameBut, PipeFits
  <2>5. SameBut(Procs, call, call', p)
    BY <2>3, <2>4, Zenon DEF SameBut
  <2>6. call'[p].part <= call'[p].n /\ call'[p].fd = call[p].fd /\ cur' \in Procs \cup {NULL}
    BY <2>1, <2>3, <2>4
  <2> QED
    BY <2>4, <2>5, <2>6, GoesOn, Zenon
<1> QED
  BY <1>1, <1>2, Zenon

\* Moves in calls leave the tables alone.
LEMMA CallKeeps ==
    ASSUME PipeInv, NEW p \in Procs, Advances(p), UNCHANGED <<tables, refcount, readers, writers>>,
           rwait' \subseteq Procs, wwait' \subseteq Procs, blocked' \subseteq Procs, interrupted' \subseteq Procs,
           RingInv', SleepersHaveReason'
    PROVE  PipeInv'
<1>1. UNCHANGED <<fd_table, slots, fd_rc, refcount, readers, writers>>
  BY Zenon DEF tables
<1>2. TablesInv' /\ EndsInv'
  BY <1>1, Zenon DEF PipeInv, TablesInv, EndsInv
<1>3. CallsInv'
  BY Zenon DEF CallsInv, Advances
<1>4. ASSUME NEW q \in Procs, call'[q] # Idle
      PROVE  /\ fd_table'[q] \in Procs /\ call'[q].fd \in Fds
             /\ slots'[fd_table'[q]][call'[q].fd] # NULL
  <2>1. call[q] # Idle /\ call'[q].fd = call[q].fd
    <3>1. CASE q = p
      BY <1>4, <3>1, Zenon DEF Advances
    <3>2. CASE q # p
      BY <1>4, <3>2, Zenon DEF Advances
    <3> QED
      BY <3>1, <3>2, Zenon
  <2> QED
    BY <1>1, <2>1, Zenon DEF PipeInv, OpenInv
<1>5. OpenInv'
  BY <1>4, Zenon DEF OpenInv, Idle
<1> QED
  BY <1>2, <1>3, <1>5, Zenon DEF PipeInv

\* A process enters read() or write() on one of its slots.
LEMMA EnterKeeps ==
    ASSUME PipeFits, PipeInv, NEW p \in Procs, NEW op \in {"read", "write"}, NEW fd \in Fds, NEW n \in Counts,
           Enter(p, op, fd, n)
    PROVE  PipeInv'
<1> DEFINE c == [op |-> op, n |-> n, part |-> 0, fd |-> fd]
<1>1. /\ p \in UserProcs /\ Slot(p, fd) = (IF op = "read" THEN "r" ELSE "w")
      /\ call' = [call EXCEPT ![p] = c] /\ cur' = p
      /\ UNCHANGED <<tables, refcount, readers, writers, ring, rwait, wwait, blocked, interrupted>>
  BY Zenon DEF Enter
<1>2. call \in [Procs -> CallRecs] /\ \A q \in Procs : call[q].part <= call[q].n
  BY Zenon DEF PipeInv, CallsInv
<1>3. c \in CallRecs /\ c.part <= c.n /\ c.fd = fd
  BY DEF CallRecs, PipeFits
<1> HIDE DEF c
<1>4. call' \in [Procs -> CallRecs] /\ call'[p] = c /\ \A q \in Procs \ {p} : call'[q] = call[q]
  BY <1>1, <1>2, <1>3, Zenon
<1>5. \A q \in Procs : call'[q].part <= call'[q].n
  BY <1>2, <1>3, <1>4, Zenon
<1>6. UNCHANGED <<fd_table, slots, fd_rc, refcount, readers, writers, rwait, wwait, blocked, interrupted>>
      /\ UNCHANGED ring
  BY <1>1, Zenon DEF tables
<1>7. TablesInv' /\ EndsInv' /\ RingInv'
  BY <1>6, Zenon DEF PipeInv, TablesInv, EndsInv, RingInv, Fifo, ring
<1>8. CallsInv'
  BY <1>1, <1>4, <1>5, <1>6, Zenon DEF CallsInv, PipeInv
<1>9. OpenInv'
  <2>1. fd_table[p] \in Procs /\ slots[fd_table[p]][fd] # NULL
    BY <1>1, OwnTable, Zenon DEF Slot, PipeFits, Ends
  <2>2. \A q \in Procs \ {p} : call[q] # Idle => /\ fd_table[q] \in Procs /\ call[q].fd \in Fds
                                                /\ slots[fd_table[q]][call[q].fd] # NULL
    BY Zenon DEF PipeInv, OpenInv
  <2>3. \A q \in Procs : call'[q] # Idle => /\ fd_table[q] \in Procs /\ call'[q].fd \in Fds
                                            /\ slots[fd_table[q]][call'[q].fd] # NULL
    BY <1>3, <1>4, <2>1, <2>2, Zenon
  <2> QED
    BY <1>6, <2>3, Zenon DEF OpenInv, Idle
<1>10. SleepersHaveReason'
  <2>1. p \notin blocked
    <3>1. call[p].op = "idle"
      BY <1>1 DEF UserProcs, Idle
    <3> QED
      BY <3>1, Zenon DEF PipeInv, SleepersHaveReason
  <2>2. blocked \subseteq Procs
    BY Zenon DEF PipeInv, CallsInv
  <2>3. \A q \in blocked : call'[q] = call[q]
    BY <1>4, <2>1, <2>2, Zenon
  <2> QED
    BY <1>6, <2>3, Zenon DEF PipeInv, SleepersHaveReason, ring
<1> QED
  BY <1>7, <1>8, <1>9, <1>10, Zenon DEF PipeInv

\* What is left of a piece, and of the ring, is no less than nothing.
LEMMA Pieces ==
    ASSUME PipeFits, PipeInv, NEW p \in Procs
    PROVE  LET chunk == Smaller(call[p].n, Chunk)
               left == chunk - call[p].part
               j == Smaller(chunk, count)
               k == Smaller(PIPE_CAP - count, left)
           IN  /\ call[p].n \in Nat /\ call[p].part \in Nat /\ chunk \in Nat /\ chunk <= Chunk
               /\ chunk <= call[p].n /\ call[p].part <= chunk /\ left \in Nat
               /\ j \in 0..count /\ j <= chunk
               /\ k \in Nat /\ k <= PIPE_CAP - count /\ k <= left
               /\ k # left => k = PIPE_CAP - count
<1>1. /\ call[p] \in CallRecs /\ call[p].part <= call[p].n /\ count \in 0..PIPE_CAP
      /\ PIPE_CAP \in Nat /\ Chunk \in Nat \ {0}
  BY Zenon DEF PipeInv, CallsInv, RingInv, PipeFits
<1>2. call[p].n \in Nat /\ call[p].part \in 0..Chunk
  BY <1>1, Zenon DEF CallRecs
<1> QED
  BY <1>1, <1>2 DEF Smaller

\* One piece of a read.
LEMMA ReadKeeps ==
    ASSUME PipeFits, PipeInv, NEW p \in Procs, pipe_read(p)
    PROVE  PipeInv'
<1> DEFINE chunk == Smaller(call[p].n, Chunk)
           k == Smaller(chunk, count)
<1>1. /\ call[p].op = "read" /\ p \notin blocked /\ interrupted' = interrupted \ {p}
      /\ UNCHANGED <<tables, refcount, readers, writers>>
  BY Zenon DEF pipe_read, Runs
<1>2. call[p] # Idle
  BY <1>1 DEF Idle
<1>3. /\ CallsInv /\ RingInv /\ SleepersHaveReason /\ interrupted' \subseteq Procs
      /\ rwait \subseteq Procs /\ wwait \subseteq Procs /\ blocked \subseteq Procs
  BY <1>1, Zenon DEF PipeInv, CallsInv
<1>4. CASE /\ p \in interrupted \/ (count = 0 /\ writers = 0)
           /\ Return(p) /\ rwait' = rwait \ {p}
           /\ UNCHANGED <<ring, wwait, blocked>>
  <2>1. Advances(p)
    BY <1>3, <1>4, Returns, Zenon
  <2>2. UNCHANGED ring /\ wwait' = wwait /\ blocked' = blocked /\ rwait' \subseteq Procs
    BY <1>3, <1>4, Zenon
  <2>3. RingInv'
    BY <1>3, <2>2, Zenon DEF RingInv, Fifo, ring
  <2>4. SleepersHaveReason'
    <3>1. \A q \in blocked : q \in Procs \ {p}
      BY <1>1, <1>3, Zenon
    <3>2. \A q \in blocked' : call'[q] = call[q] /\ (q \in rwait => q \in rwait') /\ (q \in wwait => q \in wwait')
      BY <1>4, <2>1, <2>2, <3>1, Zenon DEF Advances
    <3> QED
      BY <1>1, <1>3, <2>2, <3>2, SleepKept, Zenon DEF ring
  <2> QED
    BY <1>1, <1>3, <2>1, <2>2, <2>3, <2>4, CallKeeps, Zenon
<1>5. CASE /\ p \notin interrupted /\ count = 0 /\ writers > 0
           /\ rwait' = rwait \cup {p} /\ blocked' = blocked \cup {p} /\ cur' = NULL
           /\ UNCHANGED <<ring, wwait, call>>
  <2>1. Advances(p)
    BY <1>2, <1>3, <1>5, Zenon DEF Advances, CallsInv
  <2>2. UNCHANGED ring /\ wwait' = wwait /\ rwait' \subseteq Procs /\ blocked' \subseteq Procs
    BY <1>3, <1>5, Zenon
  <2>3. RingInv'
    BY <1>3, <2>2, Zenon DEF RingInv, Fifo, ring
  <2>4. SleepersHaveReason'
    <3>1. /\ count' = count /\ readers' = readers /\ writers' = writers /\ call' = call
          /\ \A q \in blocked' : q \in blocked \/ q = p
      BY <1>1, <1>5, Zenon DEF ring
    <3> QED
      BY <1>1, <1>3, <1>5, <2>2, <3>1, Zenon DEF SleepersHaveReason
  <2> QED
    BY <1>1, <1>3, <2>1, <2>2, <2>3, <2>4, CallKeeps, Zenon
<1>6. CASE /\ p \notin interrupted /\ count > 0
           /\ tail' = (tail + k) % PIPE_CAP /\ count' = count - k /\ first' = (first + k) % Mod
           /\ rwait' = rwait \ {p} /\ wwait' = {} /\ blocked' = blocked \ wwait
           /\ IF k < chunk THEN Return(p) ELSE Continue(p, call[p].n - k)
           /\ UNCHANGED <<buf, head>>
  <2>1. /\ k \in 0..count /\ k <= chunk /\ chunk <= call[p].n
        /\ chunk \in Nat /\ call[p].n \in Nat /\ count \in Nat
    <3>1. count \in Nat
      BY <1>3 DEF RingInv, PipeFits
    <3> QED
      BY <3>1, Pieces, Zenon
  <2> HIDE DEF k, chunk
  <2>2. call[p].n - k \in Nat
    BY <2>1
  <2>3. Advances(p)
    BY <1>2, <1>3, <1>6, <2>2, Returns, Continues, Zenon
  <2>4. rwait' \subseteq Procs /\ wwait' \subseteq Procs /\ blocked' \subseteq Procs
    BY <1>3, <1>6, Zenon
  <2>5. RingInv'
    BY <1>3, <1>6, <2>1, TakeRing, Zenon
  <2>6. SleepersHaveReason'
    <3>1. count # 0
      BY <1>6, <2>1
    <3>2. blocked' = {}
      BY <1>3, <1>6, <3>1, Zenon DEF SleepersHaveReason
    <3> QED
      BY <3>2, Zenon DEF SleepersHaveReason
  <2> QED
    BY <1>1, <1>3, <2>3, <2>4, <2>5, <2>6, CallKeeps, Zenon
<1> QED
  BY <1>4, <1>5, <1>6, Zenon DEF pipe_read

\* One piece of a write, or what fits of it.
LEMMA WriteKeeps ==
    ASSUME PipeFits, PipeInv, NEW p \in Procs, pipe_write(p)
    PROVE  PipeInv'
<1> DEFINE chunk == Smaller(call[p].n, Chunk)
           left == chunk - call[p].part
           k == Smaller(PIPE_CAP - count, left)
<1>1. /\ call[p].op = "write" /\ p \notin blocked /\ interrupted' = interrupted \ {p}
      /\ UNCHANGED <<tables, refcount, readers, writers>>
  BY Zenon DEF pipe_write, Runs
<1>2. call[p] # Idle
  BY <1>1 DEF Idle
<1>3. /\ CallsInv /\ RingInv /\ SleepersHaveReason /\ interrupted' \subseteq Procs
      /\ rwait \subseteq Procs /\ wwait \subseteq Procs /\ blocked \subseteq Procs
      /\ call \in [Procs -> CallRecs]
  BY <1>1, Zenon DEF PipeInv, CallsInv
<1>4. /\ call[p].n \in Nat /\ call[p].part \in Nat /\ chunk \in Nat /\ chunk <= Chunk
      /\ chunk <= call[p].n /\ call[p].part <= chunk /\ left \in Nat
      /\ k \in Nat /\ k <= PIPE_CAP - count /\ k <= left /\ (k # left => k = PIPE_CAP - count)
      /\ left = chunk - call[p].part
  BY Pieces, Zenon
<1>5. \A q \in blocked : q \in Procs \ {p}
  BY <1>1, <1>3, Zenon
<1> HIDE DEF chunk, left, k
<1>6. CASE /\ p \in interrupted \/ readers = 0
           /\ IF call[p].part = 0 THEN Return(p) ELSE Continue(p, call[p].n - call[p].part)
           /\ wwait' = wwait \ {p}
           /\ UNCHANGED <<ring, rwait, blocked>>
  <2>1. call[p].n - call[p].part \in Nat
    BY <1>4
  <2>2. Advances(p)
    BY <1>2, <1>3, <1>6, <2>1, Returns, Continues, Zenon
  <2>3. UNCHANGED ring /\ rwait' = rwait /\ blocked' = blocked /\ wwait' \subseteq Procs
    BY <1>3, <1>6, Zenon
  <2>4. RingInv'
    BY <1>3, <2>3, Zenon DEF RingInv, Fifo, ring
  <2>5. SleepersHaveReason'
    <3>1. \A q \in blocked' : call'[q] = call[q] /\ (q \in rwait => q \in rwait') /\ (q \in wwait => q \in wwait')
      BY <1>5, <1>6, <2>2, <2>3, Zenon DEF Advances
    <3> QED
      BY <1>1, <1>3, <2>3, <3>1, SleepKept, Zenon DEF ring
  <2> QED
    BY <1>1, <1>3, <2>2, <2>3, <2>4, <2>5, CallKeeps, Zenon
<1>7. CASE /\ p \notin interrupted /\ readers > 0 /\ count = PIPE_CAP
           /\ wwait' = wwait \cup {p} /\ blocked' = blocked \cup {p} /\ cur' = NULL
           /\ UNCHANGED <<ring, rwait, call>>
  <2>1. Advances(p)
    BY <1>2, <1>3, <1>7, Zenon DEF Advances, CallsInv
  <2>2. UNCHANGED ring /\ rwait' = rwait /\ wwait' \subseteq Procs /\ blocked' \subseteq Procs
    BY <1>3, <1>7, Zenon
  <2>3. RingInv'
    BY <1>3, <2>2, Zenon DEF RingInv, Fifo, ring
  <2>4. SleepersHaveReason'
    <3>1. /\ count' = count /\ readers' = readers /\ writers' = writers /\ call' = call
          /\ \A q \in blocked' : q \in blocked \/ q = p
      BY <1>1, <1>7, Zenon DEF ring
    <3> QED
      BY <1>1, <1>3, <1>7, <2>2, <3>1, Zenon DEF SleepersHaveReason
  <2> QED
    BY <1>1, <1>3, <2>1, <2>2, <2>3, <2>4, CallKeeps, Zenon
<1>8. CASE /\ p \notin interrupted /\ readers > 0 /\ count < PIPE_CAP
           /\ Put(k) /\ rwait' = {}
           /\ IF k = left
              THEN /\ Continue(p, call[p].n - chunk)
                   /\ wwait' = wwait \ {p} /\ blocked' = blocked \ rwait
              ELSE /\ call' = [call EXCEPT ![p].part = @ + k] /\ cur' = NULL
                   /\ wwait' = wwait \cup {p} /\ blocked' = (blocked \ rwait) \cup {p}
  <2>1. RingInv' /\ count' = count + k
    BY <1>3, <1>4, <1>8, PutRing, Zenon
  <2>2. blocked \ rwait = {}
    <3>1. count # PIPE_CAP
      BY <1>3, <1>8 DEF RingInv, PipeFits
    <3> QED
      BY <1>3, <3>1, Zenon DEF SleepersHaveReason
  <2>3. rwait' \subseteq Procs /\ wwait' \subseteq Procs /\ blocked' \subseteq Procs
    BY <1>3, <1>8, Zenon
  <2>4. CASE k = left
    <3>1. call[p].n - chunk \in Nat
      BY <1>4
    <3>2. Advances(p)
      BY <1>2, <1>3, <1>8, <2>4, <3>1, Continues, Zenon
    <3>3. SleepersHaveReason'
      BY <1>8, <2>2, <2>4, Zenon DEF SleepersHaveReason
    <3> QED
      BY <1>1, <1>3, <2>1, <2>3, <3>2, <3>3, CallKeeps, Zenon
  <2>5. CASE k # left
    <3>1. call' = [call EXCEPT ![p].part = call[p].part + k] /\ cur' = NULL
      BY <1>3, <1>8, <2>5, Zenon
    <3>2. call[p].part + k \in 0..Chunk /\ call[p].part + k <= call[p].n
      BY <1>4, <2>5 DEF PipeFits
    <3>3. /\ call' \in [Procs -> CallRecs] /\ SameBut(Procs, call, call', p)
          /\ call'[p].fd = call[p].fd /\ call'[p].part <= call'[p].n /\ call'[p].op = "write"
      BY <1>1, <1>3, <3>1, <3>2 DEF CallRecs, SameBut
    <3>4. Advances(p)
      <4>1. cur' \in Procs \cup {NULL}
        BY <3>1, Zenon
      <4> QED
        BY <1>2, <1>3, <3>3, <4>1, GoesOn, Zenon
    <3>5. count' = PIPE_CAP /\ readers' > 0
      BY <1>1, <1>3, <1>4, <1>8, <2>1, <2>5 DEF RingInv, PipeFits
    <3>6. p \in wwait' /\ blocked' = {p}
      BY <1>8, <2>2, <2>5, Zenon
    <3>7. SleepersHaveReason'
      BY <3>3, <3>5, <3>6, Zenon DEF SleepersHaveReason
    <3> QED
      BY <1>1, <1>3, <2>1, <2>3, <3>4, <3>7, CallKeeps, Zenon
  <2> QED
    BY <2>4, <2>5, Zenon
<1> QED
  BY <1>6, <1>7, <1>8, Zenon DEF pipe_write, chunk, left, k

\* A signal takes a process out of its sleep.
LEMMA InterruptKeeps ==
    ASSUME PipeFits, PipeInv, NEW p \in Procs, Interrupt(p)
    PROVE  PipeInv'
<1>1. /\ blocked' = blocked \ {p} /\ interrupted' = interrupted \cup {p}
      /\ UNCHANGED <<fd_table, slots, fd_rc, refcount, readers, writers, rwait, wwait, cur, call>>
      /\ UNCHANGED ring
  BY Zenon DEF Interrupt, tables
<1>2. TablesInv' /\ EndsInv' /\ RingInv' /\ OpenInv'
  BY <1>1, Zenon DEF PipeInv, TablesInv, EndsInv, RingInv, Fifo, OpenInv, ring, Idle
<1>3. CallsInv'
  BY <1>1, Zenon DEF PipeInv, CallsInv
<1>4. SleepersHaveReason'
  BY <1>1, Zenon DEF PipeInv, SleepersHaveReason, ring
<1> QED
  BY <1>2, <1>3, <1>4, Zenon DEF PipeInv

\* One process with an empty table, and no pipe.
LEMMA PipeInitInv ==
    ASSUME PipeFits, PipeInit
    PROVE  PipeInv
<1>1. PICK p \in Procs :
        /\ fd_table = [q \in Procs |-> IF q = p THEN p ELSE NULL]
        /\ slots = [t \in Tables |-> [fd \in Fds |-> NULL]]
        /\ fd_rc = [t \in Tables |-> IF t = p THEN 1 ELSE 0]
        /\ refcount = [e \in Ends |-> 0] /\ readers = 0 /\ writers = 0
        /\ buf = [i \in 0..(PIPE_CAP - 1) |-> 0] /\ head = 0 /\ tail = 0 /\ count = 0 /\ first = 0
        /\ rwait = {} /\ wwait = {} /\ cur = NULL
        /\ call = [q \in Procs |-> Idle] /\ blocked = {} /\ interrupted = {}
  BY Zenon DEF PipeInit
<1>2. /\ fd_table \in [Procs -> Procs \cup {NULL}] /\ slots \in [Procs -> [Fds -> Ends \cup {NULL}]]
      /\ fd_rc \in [Procs -> Nat] /\ refcount \in [Ends -> Nat]
      /\ \A t \in Procs : fd_rc[t] = 0 => \A fd \in Fds : slots[t][fd] = NULL
  BY <1>1, Zenon DEF Tables
<1>3. ASSUME NEW e \in Ends
      PROVE  refcount[e] = Cardinality(Held(slots, e))
  <2>1. Held(slots, e) = {}
    BY <1>1, Zenon DEF Held, Tables, PipeFits
  <2> QED
    BY <1>1, <2>1, FS_EmptySet, Zenon
<1>4. ASSUME NEW t \in Procs
      PROVE  fd_rc[t] = Cardinality(Where(Procs, fd_table, t))
  <2>1. Where(Procs, fd_table, t) = IF t = p THEN {p} ELSE {}
    BY <1>1, Zenon DEF Where, PipeFits
  <2>2. fd_rc[t] = IF t = p THEN 1 ELSE 0
    BY <1>1, Zenon DEF Tables
  <2> QED
    BY <2>1, <2>2, FS_Singleton, FS_EmptySet, Zenon
<1>5. TablesInv
  BY <1>2, <1>3, <1>4, Zenon DEF TablesInv
<1>6. EndsInv
  BY <1>1 DEF EndsInv, Ends
<1>7. RingInv
  <2>1. 0 \in 0..(PIPE_CAP - 1) /\ 0 \in 0..(Mod - 1) /\ 0 \in 0..PIPE_CAP
    BY DEF PipeFits
  <2>2. (tail + count) % PIPE_CAP = 0 /\ 0..(count - 1) = {}
    BY <1>1 DEF PipeFits
  <2> QED
    BY <1>1, <2>1, <2>2, Zenon DEF RingInv, Fifo
<1>8. CallsInv
  <2>1. Idle \in CallRecs /\ Idle.part <= Idle.n
    BY IdleCall, Zenon
  <2> QED
    BY <1>1, <2>1, Zenon DEF CallsInv
<1>9. OpenInv /\ SleepersHaveReason
  BY <1>1, Zenon DEF OpenInv, SleepersHaveReason
<1> QED
  BY <1>5, <1>6, <1>7, <1>8, <1>9, Zenon DEF PipeInv

\* Every step keeps the invariant.
LEMMA PipeNextInv ==
    ASSUME PipeFits, PipeInv, [PipeNext]_pipeVars
    PROVE  PipeInv'
<1>1. CASE PipeNext
  BY <1>1, PipeKeeps, CloseAllKeeps, ReadKeeps, WriteKeeps, InterruptKeeps, CloseKeeps, Dup2Keeps,
     ForkKeeps, ShareKeeps, EnterKeeps, Zenon DEF PipeNext
<1>2. CASE UNCHANGED pipeVars
  BY <1>2, Zenon DEF pipeVars, PipeInv, TablesInv, EndsInv, RingInv, Fifo, CallsInv, OpenInv,
     SleepersHaveReason, Idle
<1> QED
  BY <1>1, <1>2, Zenon

\* The invariant says what the pipe promises.
LEMMA PipeEnough ==
    ASSUME PipeFits, PipeInv
    PROVE  PipeTypeOK /\ EndsExact /\ Fifo /\ SleepersHaveReason /\ CallsOnOpenPipe
<1>1. Fifo /\ SleepersHaveReason
  BY Zenon DEF PipeInv, RingInv
<1>2. CallsOnOpenPipe
  BY Zenon DEF PipeInv, OpenInv, CallsOnOpenPipe, Alive, Slot, PipeFits
<1>3. EndsExact
  <2>1. \A e \in Ends : refcount[e] = Cardinality({s \in Tables \X Fds : slots[s[1]][s[2]] = e})
    BY Zenon DEF PipeInv, TablesInv, Held
  <2>2. \A t \in Tables : {p \in Alive : fd_table[p] = t} = Where(Procs, fd_table, t)
    BY Zenon DEF Alive, Where, PipeFits, Tables
  <2>3. \A t \in Tables : fd_rc[t] = Cardinality({p \in Alive : fd_table[p] = t})
    BY <2>2, Zenon DEF PipeInv, TablesInv, Tables
  <2> QED
    BY <2>1, <2>3, Zenon DEF PipeInv, TablesInv, EndsInv, EndsExact, Tables
<1>4. fd_rc \in [Tables -> 0..Cardinality(Procs)]
  <2>1. ASSUME NEW t \in Procs
        PROVE  fd_rc[t] \in 0..Cardinality(Procs)
    <3>1. /\ IsFiniteSet(Procs) /\ fd_rc[t] \in Nat
          /\ fd_rc[t] = Cardinality(Where(Procs, fd_table, t)) /\ Where(Procs, fd_table, t) \subseteq Procs
      BY Zenon DEF PipeInv, TablesInv, PipeFits, Where
    <3>2. Cardinality(Where(Procs, fd_table, t)) <= Cardinality(Procs)
      BY <3>1, FS_Subset, Zenon
    <3>3. Cardinality(Procs) \in Nat
      BY <3>1, FS_CardinalityType, Zenon
    <3> QED
      BY <3>1, <3>2, <3>3
  <2> QED
    BY <2>1, Zenon DEF PipeInv, TablesInv, Tables
<1>5. refcount \in [Ends -> 0..(Cardinality(Procs) * Cardinality(Fds))]
  <2> DEFINE m == Cardinality(Procs) * Cardinality(Fds)
  <2>1. IsFiniteSet(Procs \X Fds) /\ Cardinality(Procs \X Fds) = m
    BY FS_Product, Zenon DEF PipeFits
  <2>2. m \in Nat
    BY <2>1, FS_CardinalityType, Zenon
  <2>3. ASSUME NEW e \in Ends
        PROVE  refcount[e] \in Nat /\ refcount[e] <= m
    <3>1. /\ refcount[e] = Cardinality(Held(slots, e)) /\ refcount[e] \in Nat
          /\ Held(slots, e) \subseteq Procs \X Fds
      BY Zenon DEF PipeInv, TablesInv, Held, Tables
    <3> QED
      BY <2>1, <3>1, FS_Subset, Zenon
  <2> HIDE DEF m
  <2>4. \A e \in Ends : refcount[e] \in 0..m
    BY <2>2, <2>3
  <2> QED
    BY <2>4, Zenon DEF PipeInv, TablesInv, m
<1>6. readers \in 0..1 /\ writers \in 0..1
  BY DEF PipeInv, EndsInv
<1> QED
  BY <1>1, <1>2, <1>3, <1>4, <1>5, <1>6, Zenon DEF PipeTypeOK, PipeInv, TablesInv, RingInv, CallsInv,
     CallRecs, Tables

\* A pipe loses, doubles and reorders no byte; its ends and the tables are counted exactly; nobody
\* sleeps who has something to read, room to write, or nobody left at the other end; and no call is
\* left on a closed end (vfs_pipe, vfs_dup2, vfs_close, vfs_fork_fds, vfs_share_fds, vfs_close_all,
\* pipe_read, pipe_write): for any number of processes and descriptors, any capacity of the ring and
\* any size of calls and pieces.
THEOREM PipeSound ==
    ASSUME PipeFits
    PROVE  PipeSpec => [](EndsExact /\ Fifo /\ SleepersHaveReason /\ CallsOnOpenPipe)
<1>1. PipeInit => PipeInv
  BY PipeInitInv, Zenon
<1>2. PipeInv /\ [PipeNext]_pipeVars => PipeInv'
  BY PipeNextInv, Zenon
<1>3. PipeInv => EndsExact /\ Fifo /\ SleepersHaveReason /\ CallsOnOpenPipe
  BY PipeEnough, Zenon
<1> QED
  BY <1>1, <1>2, <1>3, PTL DEF PipeSpec

-----------------------------------------------------------------------------
(* The network daemon *)

Posting == \E s \in Senders : sender[s] = "post"
Notifying == \E s \in Senders : sender[s] = "notify"

\* Whoever is past its lock holds it.
LockHeld ==
    /\ \A s \in Senders : sender[s] # "idle" => net_lock = s
    /\ netd \in {"lo", "nic", "unlock"} => net_lock = "netd"

\* netd leaves the rings empty, and what comes afterwards is announced: by a sender on its way
\* to net_rx_notify, by the interrupt line or by rx_pending.
Announced ==
    /\ netd \in {"nic", "unlock"} => lo = <<>>
    /\ netd = "wait" => lo = <<>> \/ Notifying \/ rx_pending
    /\ netd \in {"wait", "unlock"} /\ rx > 0 => icr \/ rx_pending

\* A notification that is pending has its post made or to come, except while netd, awake, has
\* yet to clear it; no post is to come for one that was cleared before netd sleeps again.
PostDue ==
    /\ rx_pending /\ netd # "clear" => rx_sem > 0 \/ Posting
    /\ Posting /\ netd \in {"wait", "clear"} => rx_pending

\* The units made and to come: two at the most, one without a notification pending, and one
\* less of each once netd has taken its own.
Units ==
    /\ rx_sem <= 2 /\ (Posting => rx_sem <= 1)
    /\ ~rx_pending \/ netd = "clear" => rx_sem <= 1 /\ (Posting => rx_sem = 0)
    /\ ~rx_pending /\ netd = "clear" => rx_sem = 0

NdInv == NdTypeOK /\ LockHeld /\ Announced /\ PostDue /\ Units

\* netd's start establishes the invariant.
LEMMA NdInvInit == NdInit => NdInv
<1> SUFFICES ASSUME NdInit PROVE NdInv
    BY Zenon
<1>1. NdTypeOK
  <2>1. icr \in BOOLEAN /\ rx_pending \in BOOLEAN
    BY Zenon DEF NdInit
  <2>2. lo \in Seq({"ask", "plain"}) /\ Len(lo) <= LO_QUEUE
    BY NetdAssumption DEF NdInit
  <2>3. rx \in 0..NUM_RX /\ rx_sem \in Nat
    BY NetdAssumption DEF NdInit
  <2>4. /\ net_lock \in Senders \cup {"netd", "nobody"}
        /\ netd \in {"wait", "clear", "lock", "lo", "nic", "unlock"}
        /\ sender \in [Senders -> {"idle", "send", "notify", "post", "unlock"}]
    BY Zenon DEF NdInit
  <2> QED BY <2>1, <2>2, <2>3, <2>4 DEF NdTypeOK
<1>2. LockHeld /\ Announced /\ PostDue /\ Units
  BY DEF NdInit, LockHeld, Announced, PostDue, Units, Posting, Notifying
<1> QED BY <1>1, <1>2, Zenon DEF NdInv

\* Every step of the card, of a sender and of netd keeps it.
LEMMA NdInvNext == NdInv /\ [NdNext]_ndVars => NdInv'
<1> SUFFICES ASSUME NdInv, [NdNext]_ndVars PROVE NdInv'
    BY Zenon
<1> USE NetdAssumption DEF NdInv
<1>1. CASE Receive
  <2>1. NdTypeOK'
    BY <1>1 DEF NdTypeOK, Receive
  <2>2. LockHeld'
    BY <1>1, Zenon DEF NdTypeOK, LockHeld, Posting, Notifying, Receive
  <2>3. Announced'
    BY <1>1, Zenon DEF NdTypeOK, LockHeld, Announced, Posting, Notifying, Receive
  <2>4. PostDue'
    BY <1>1, Zenon DEF NdTypeOK, LockHeld, PostDue, Posting, Notifying, Receive
  <2>5. Units'
    BY <1>1, Zenon DEF NdTypeOK, LockHeld, Units, Posting, Notifying, Receive
  <2> QED BY <2>1, <2>2, <2>3, <2>4, <2>5
<1>2. CASE e1000_irq
  <2>1. NdTypeOK'
    <3>1. CASE rx_pending
      BY <1>2, <3>1, Zenon DEF NdTypeOK, e1000_irq, Post
    <3>2. CASE ~rx_pending
      <4>1. rx_sem' = rx_sem + 1
        BY <1>2, <3>2, Zenon DEF e1000_irq, Post
      <4>2. rx_sem' \in Nat
        BY <4>1 DEF NdTypeOK
      <4> QED BY <1>2, <4>2, Zenon DEF NdTypeOK, e1000_irq
    <3> QED BY <3>1, <3>2, Zenon
  <2>2. LockHeld'
    BY <1>2, Zenon DEF NdTypeOK, LockHeld, Posting, Notifying, e1000_irq, Post
  <2>3. Announced'
    BY <1>2, Zenon DEF NdTypeOK, LockHeld, Announced, Posting, Notifying, e1000_irq, Post
  <2>4. PostDue'
    BY <1>2 DEF NdTypeOK, LockHeld, PostDue, Posting, Notifying, e1000_irq, Post
  <2>5. Units'
    <3>1. Posting' = Posting /\ netd' = netd /\ rx_pending'
      BY <1>2, Zenon DEF Posting, e1000_irq
    <3>2. CASE rx_pending
      <4>1. rx_sem' = rx_sem
        BY <1>2, <3>2, Zenon DEF e1000_irq, Post
      <4> QED BY <3>1, <3>2, <4>1, Zenon DEF Units, NdTypeOK
    <3>3. CASE ~rx_pending
      <4>1. rx_sem' = rx_sem + 1
        BY <1>2, <3>3, Zenon DEF e1000_irq, Post
      <4>2. netd = "clear" => ~Posting
        BY <3>3, Zenon DEF PostDue
      <4> QED BY <3>1, <3>3, <4>1, <4>2 DEF Units, NdTypeOK
    <3> QED BY <3>2, <3>3
  <2> QED BY <2>1, <2>2, <2>3, <2>4, <2>5
<1>3. ASSUME NEW s \in Senders, Lock(s) PROVE NdInv'
  <2>1. NdTypeOK'
    BY <1>3, Zenon DEF NdTypeOK, Lock
  <2>2. LockHeld'
    BY <1>3 DEF NdTypeOK, LockHeld, Posting, Notifying, Lock
  <2>3. Announced'
    BY <1>3, Zenon DEF NdTypeOK, LockHeld, Announced, Posting, Notifying, Lock
  <2>4. PostDue'
    BY <1>3 DEF NdTypeOK, LockHeld, PostDue, Posting, Notifying, Lock
  <2>5. Units'
    BY <1>3 DEF NdTypeOK, LockHeld, Units, Posting, Notifying, Lock
  <2> QED BY <2>1, <2>2, <2>3, <2>4, <2>5, Zenon
<1>4. ASSUME NEW s \in Senders, net_rx_notify(s) PROVE NdInv'
  <2>1. NdTypeOK'
    BY <1>4, Zenon DEF NdTypeOK, net_rx_notify, Post
  <2>2. LockHeld'
    BY <1>4, Zenon DEF NdTypeOK, LockHeld, Posting, Notifying, net_rx_notify, Post
  <2>3. Announced'
    BY <1>4, Zenon DEF NdTypeOK, LockHeld, Announced, Posting, Notifying, net_rx_notify, Post
  <2>4. PostDue'
    BY <1>4, Zenon DEF NdTypeOK, LockHeld, PostDue, Posting, Notifying, net_rx_notify, Post
  <2>5. Units'
    BY <1>4, Zenon DEF NdTypeOK, LockHeld, Units, Posting, Notifying, net_rx_notify, Post
  <2> QED BY <2>1, <2>2, <2>3, <2>4, <2>5, Zenon
<1>5. ASSUME NEW s \in Senders, sem_post(s) PROVE NdInv'
  <2>1. NdTypeOK'
    BY <1>5 DEF NdTypeOK, sem_post
  <2>2. LockHeld'
    BY <1>5, Zenon DEF NdTypeOK, LockHeld, Posting, Notifying, sem_post
  <2>3. Announced'
    BY <1>5, Zenon DEF NdTypeOK, LockHeld, Announced, Posting, Notifying, sem_post
  <2>4. PostDue'
    BY <1>5 DEF NdTypeOK, LockHeld, PostDue, Posting, Notifying, sem_post
  <2>5. Units'
    <3>1. Posting /\ ~Posting'
      BY <1>5, Zenon DEF NdTypeOK, LockHeld, Posting, sem_post
    <3>2. rx_sem' = rx_sem + 1 /\ UNCHANGED <<netd, rx_pending>>
      BY <1>5, Zenon DEF sem_post
    <3>3. netd = "clear" => rx_pending
      BY <3>1, Zenon DEF PostDue
    <3> QED BY <3>1, <3>2, <3>3 DEF Units, NdTypeOK
  <2> QED BY <2>1, <2>2, <2>3, <2>4, <2>5
<1>6. ASSUME NEW s \in Senders, Unlock(s) PROVE NdInv'
  <2>1. NdTypeOK'
    BY <1>6, Zenon DEF NdTypeOK, Unlock
  <2>2. LockHeld'
    BY <1>6, Zenon DEF NdTypeOK, LockHeld, Posting, Notifying, Unlock
  <2>3. Announced'
    BY <1>6, Zenon DEF NdTypeOK, LockHeld, Announced, Posting, Notifying, Unlock
  <2>4. PostDue'
    BY <1>6, Zenon DEF NdTypeOK, LockHeld, PostDue, Posting, Notifying, Unlock
  <2>5. Units'
    BY <1>6, Zenon DEF NdTypeOK, LockHeld, Units, Posting, Notifying, Unlock
  <2> QED BY <2>1, <2>2, <2>3, <2>4, <2>5, Zenon
<1>7. ASSUME NEW s \in Senders, NEW f \in {"ask", "plain"}, lo_send(s, f) PROVE NdInv'
  <2>1. NdTypeOK'
    BY <1>7 DEF NdTypeOK, lo_send
  <2>2. LockHeld'
    BY <1>7, Zenon DEF NdTypeOK, LockHeld, Posting, Notifying, lo_send
  <2>3. Announced'
    BY <1>7, Zenon DEF NdTypeOK, LockHeld, Announced, Posting, Notifying, lo_send
  <2>4. PostDue'
    BY <1>7, Zenon DEF NdTypeOK, LockHeld, PostDue, Posting, Notifying, lo_send
  <2>5. Units'
    BY <1>7, Zenon DEF NdTypeOK, LockHeld, Units, Posting, Notifying, lo_send
  <2> QED BY <2>1, <2>2, <2>3, <2>4, <2>5
<1>8. CASE NetdWake
  <2>1. NdTypeOK'
    BY <1>8 DEF NdTypeOK, NetdWake
  <2>2. LockHeld'
    BY <1>8, Zenon DEF NdTypeOK, LockHeld, Posting, Notifying, NetdWake
  <2>3. Announced'
    BY <1>8, Zenon DEF NdTypeOK, LockHeld, Announced, Posting, Notifying, NetdWake
  <2>4. PostDue'
    BY <1>8, Zenon DEF NdTypeOK, LockHeld, PostDue, Posting, Notifying, NetdWake
  <2>5. Units'
    BY <1>8 DEF NdTypeOK, LockHeld, Units, Posting, Notifying, NetdWake
  <2> QED BY <2>1, <2>2, <2>3, <2>4, <2>5, Zenon
<1>9. CASE Clear
  <2>1. NdTypeOK'
    BY <1>9, Zenon DEF NdTypeOK, Clear
  <2>2. LockHeld'
    BY <1>9, Zenon DEF NdTypeOK, LockHeld, Posting, Notifying, Clear
  <2>3. Announced'
    BY <1>9, Zenon DEF NdTypeOK, LockHeld, Announced, Posting, Notifying, Clear
  <2>4. PostDue'
    BY <1>9, Zenon DEF NdTypeOK, LockHeld, PostDue, Posting, Notifying, Clear
  <2>5. Units'
    BY <1>9, Zenon DEF NdTypeOK, LockHeld, Units, Posting, Notifying, Clear
  <2> QED BY <2>1, <2>2, <2>3, <2>4, <2>5, Zenon
<1>10. CASE NetdLock
  <2>1. NdTypeOK'
    BY <1>10, Zenon DEF NdTypeOK, NetdLock
  <2>2. LockHeld'
    BY <1>10 DEF NdTypeOK, LockHeld, Posting, Notifying, NetdLock
  <2>3. Announced'
    BY <1>10, Zenon DEF NdTypeOK, LockHeld, Announced, Posting, Notifying, NetdLock
  <2>4. PostDue'
    BY <1>10, Zenon DEF NdTypeOK, LockHeld, PostDue, Posting, Notifying, NetdLock
  <2>5. Units'
    BY <1>10, Zenon DEF NdTypeOK, LockHeld, Units, Posting, Notifying, NetdLock
  <2> QED BY <2>1, <2>2, <2>3, <2>4, <2>5
<1>11. CASE lo_poll
  <2>1. NdTypeOK'
    <3>1. CASE lo = <<>>
      BY <1>11, <3>1, Zenon DEF NdTypeOK, lo_poll
    <3>2. CASE lo # <<>>
      <4>1. /\ Head(lo) \in {"ask", "plain"} /\ Tail(lo) \in Seq({"ask", "plain"})
            /\ Len(Tail(lo)) < LO_QUEUE
        BY <3>2 DEF NdTypeOK
      <4>2. Append(Tail(lo), "plain") \in Seq({"ask", "plain"})
        BY <4>1
      <4>3. Len(Append(Tail(lo), "plain")) <= LO_QUEUE
        BY <4>1
      <4>4. lo' \in Seq({"ask", "plain"}) /\ Len(lo') <= LO_QUEUE
        BY <1>11, <3>2, <4>1, <4>2, <4>3 DEF lo_poll
      <4>5. rx_sem' \in Nat
        BY <1>11, <3>2 DEF NdTypeOK, lo_poll
      <4>6. rx_pending' \in BOOLEAN
        BY <1>11, <3>2, Zenon DEF lo_poll
      <4> QED BY <1>11, <3>2, <4>4, <4>5, <4>6 DEF NdTypeOK, lo_poll
    <3> QED BY <3>1, <3>2, Zenon
  <2>2. LockHeld'
    BY <1>11, Zenon DEF NdTypeOK, LockHeld, Posting, Notifying, lo_poll, Post
  <2>3. Announced'
    BY <1>11, Zenon DEF NdTypeOK, LockHeld, Announced, Posting, Notifying, lo_poll, Post
  <2>4. PostDue'
    BY <1>11 DEF NdTypeOK, LockHeld, PostDue, Posting, Notifying, lo_poll, Post
  <2>5. Units'
    <3>1. ~Posting /\ ~Posting' /\ netd # "clear" /\ netd' # "clear"
      BY <1>11, Zenon DEF LockHeld, Posting, lo_poll
    <3>2. CASE rx_pending
      <4>1. rx_sem' = rx_sem /\ rx_pending'
        BY <1>11, <3>2, Zenon DEF lo_poll, Post
      <4> QED BY <3>1, <3>2, <4>1, Zenon DEF Units, NdTypeOK
    <3>3. CASE ~rx_pending
      <4>1. \/ rx_sem' = rx_sem
            \/ rx_sem' = rx_sem + 1 /\ rx_pending'
        BY <1>11, <3>3, Zenon DEF lo_poll, Post
      <4> QED BY <3>1, <3>3, <4>1 DEF Units, NdTypeOK
    <3> QED BY <3>2, <3>3, Zenon
  <2> QED BY <2>1, <2>2, <2>3, <2>4, <2>5, Zenon
<1>12. CASE e1000_poll
  <2>1. NdTypeOK'
    BY <1>12 DEF NdTypeOK, e1000_poll
  <2>2. LockHeld'
    BY <1>12, Zenon DEF NdTypeOK, LockHeld, Posting, Notifying, e1000_poll
  <2>3. Announced'
    BY <1>12 DEF NdTypeOK, LockHeld, Announced, Posting, Notifying, e1000_poll
  <2>4. PostDue'
    BY <1>12, Zenon DEF NdTypeOK, LockHeld, PostDue, Posting, Notifying, e1000_poll
  <2>5. Units'
    BY <1>12, Zenon DEF NdTypeOK, LockHeld, Units, Posting, Notifying, e1000_poll
  <2> QED BY <2>1, <2>2, <2>3, <2>4, <2>5, Zenon
<1>13. CASE NetdUnlock
  <2>1. NdTypeOK'
    BY <1>13, Zenon DEF NdTypeOK, NetdUnlock
  <2>2. LockHeld'
    BY <1>13, Zenon DEF NdTypeOK, LockHeld, Posting, Notifying, NetdUnlock
  <2>3. Announced'
    BY <1>13, Zenon DEF NdTypeOK, LockHeld, Announced, Posting, Notifying, NetdUnlock
  <2>4. PostDue'
    BY <1>13, Zenon DEF NdTypeOK, LockHeld, PostDue, Posting, Notifying, NetdUnlock
  <2>5. Units'
    BY <1>13, Zenon DEF NdTypeOK, LockHeld, Units, Posting, Notifying, NetdUnlock
  <2> QED BY <2>1, <2>2, <2>3, <2>4, <2>5, Zenon
<1>14. CASE UNCHANGED ndVars
  BY <1>14 DEF ndVars, NdTypeOK, LockHeld, Announced, PostDue, Units, Posting, Notifying
<1> QED
  BY <1>1, <1>2, <1>3, <1>4, <1>5, <1>6, <1>7, <1>8, <1>9, <1>10, <1>11, <1>12, <1>13, <1>14
     DEF NdNext

\* It implies that netd does not sleep over a frame.
LEMMA NdInvEnough == NdInv => NetdWakes
BY DEF NdInv, NetdWakes, NdTypeOK, NoFrameForgotten, SemBounded, LockHeld, Announced, PostDue,
       Units, Posting, Notifying

\* netd_main never sleeps over a frame, and net_rx_notify never lets the semaphore count above
\* two, for any number of senders and any length of the two rings.
THEOREM NetdAlwaysWakes == NdSpec => []NetdWakes
BY NdInvInit, NdInvNext, NdInvEnough, PTL DEF NdSpec

-----------------------------------------------------------------------------
(* Signals: the mask, the frames on the stack and the pending set stay consistent. *)

\* A set of signals that is not empty has a least one.
LEMMA LeastSignal ==
    ASSUME NEW S, S \subseteq Nat, S # {}
    PROVE  \E x \in S : \A y \in S : x <= y
<1> DEFINE R == OpToRel(<, Nat)
<1>1. IsWellFoundedOn(R, Nat)
  BY NatLessThanWellFounded, Zenon
<1>2. \A x, y \in Nat : y < x => <<y, x>> \in R
  BY Zenon DEF OpToRel
<1> HIDE DEF R
<1>3. PICK x \in S : \A y \in S : ~ (<<y, x>> \in R)
  BY <1>1, WFMin, Zenon
<1>4. ASSUME NEW y \in S
      PROVE  x <= y
  <2>1. x \in Nat /\ y \in Nat
    BY Zenon
  <2>2. ~(y < x)
    BY <1>2, <1>3, <2>1, Zenon
  <2> QED
    BY <2>1, <2>2
<1> QED
  BY <1>4, Zenon

Frame == [sig : Signals, saved : SUBSET Signals]

\* What a mask B and a stack of frames F owe each other.
Nested(B, F) ==
    /\ \A i \in DOMAIN F : F[i].sig \in B
    /\ \A i \in DOMAIN F : F[i].sig \notin F[i].saved /\ F[i].saved \cap Uncatchable = {}
    /\ \A i, j \in DOMAIN F : i < j => F[i].sig \in F[j].saved

SigInv ==
    /\ TypeOK
    /\ sig_blocked \cap Uncatchable = {}
    /\ Nested(sig_blocked, frames)
    /\ IgnoredNeverPending

\* What a call hands to signal_deliver.
Consistent(P, B, H, F) ==
    /\ P \subseteq Signals /\ B \subseteq Signals /\ H \subseteq Signals \ Uncatchable
    /\ F \in Seq(Frame)
    /\ B \cap Uncatchable = {} /\ Nested(B, F)

\* Entering a handler keeps mask and frames consistent.
LEMMA PushNested ==
    ASSUME NEW B \in SUBSET Signals, NEW F \in Seq(Frame), Nested(B, F),
           B \cap Uncatchable = {},
           NEW sig \in Signals, sig \notin B
    PROVE  LET G == Append(F, [sig |-> sig, saved |-> B])
           IN  G \in Seq(Frame) /\ Nested(B \cup {sig}, G)
<1> DEFINE G == Append(F, [sig |-> sig, saved |-> B])
<1>1. [sig |-> sig, saved |-> B] \in Frame
  BY Zenon DEF Frame
<1>2. G \in Seq(Frame) /\ Len(G) = Len(F) + 1
  BY <1>1
<1>3. \A i \in 1..Len(F) : G[i] = F[i]
  OBVIOUS
<1>4. G[Len(F) + 1].sig = sig /\ G[Len(F) + 1].saved = B
  OBVIOUS
<1>5. DOMAIN G = 1..(Len(F) + 1) /\ DOMAIN F = 1..Len(F) /\ Len(F) \in Nat
  BY <1>2
<1> HIDE DEF G
<1>6. \A i \in DOMAIN G : i \in DOMAIN F \/ i = Len(F) + 1
  BY <1>5
<1>7. \A i \in DOMAIN G : G[i].sig \in B \cup {sig}
  BY <1>3, <1>4, <1>5, <1>6, Zenon DEF Nested
<1>8. \A i \in DOMAIN G : G[i].sig \notin G[i].saved /\ G[i].saved \cap Uncatchable = {}
  BY <1>3, <1>4, <1>5, <1>6 DEF Nested
<1>9. \A i, j \in DOMAIN G : i < j => G[i].sig \in G[j].saved
  <2> TAKE i, j \in DOMAIN G
  <2> HAVE i < j
  <2>1. i \in DOMAIN F
    BY <1>5, <1>6
  <2>2. CASE j \in DOMAIN F
    BY <1>3, <1>5, <2>1, <2>2 DEF Nested
  <2>3. CASE j = Len(F) + 1
    BY <1>3, <1>4, <1>5, <2>1, <2>3, Zenon DEF Nested
  <2> QED
    BY <1>6, <2>2, <2>3
<1> QED
  BY <1>2, <1>7, <1>8, <1>9 DEF Nested, G

\* Returning from a handler keeps them consistent.
LEMMA PopNested ==
    ASSUME NEW F \in Seq(Frame), F # <<>>, NEW B, Nested(B, F)
    PROVE  LET G == SubSeq(F, 1, Len(F) - 1)
               S == F[Len(F)].saved
           IN  /\ G \in Seq(Frame) /\ S \subseteq Signals
               /\ S \cap Uncatchable = {} /\ Nested(S, G)
<1> DEFINE G == SubSeq(F, 1, Len(F) - 1)
           S == F[Len(F)].saved
<1>1. Len(F) \in Nat \ {0} /\ DOMAIN F = 1..Len(F)
  OBVIOUS
<1>2. G \in Seq(Frame) /\ DOMAIN G = 1..(Len(F) - 1) /\ \A i \in DOMAIN G : G[i] = F[i]
  BY <1>1
<1>3. S \subseteq Signals
  <2>1. F[Len(F)] \in Frame
    BY <1>1
  <2> QED
    BY <2>1, Zenon DEF Frame
<1> HIDE DEF G
<1>4. S \cap Uncatchable = {}
  BY <1>1 DEF Nested
<1>5. \A i \in DOMAIN G : i \in DOMAIN F /\ i < Len(F) /\ Len(F) \in DOMAIN F
  BY <1>1, <1>2
<1>6. \A i \in DOMAIN G : G[i].sig \in S
  BY <1>2, <1>5, Zenon DEF Nested
<1>7. \A i \in DOMAIN G : G[i].sig \notin G[i].saved /\ G[i].saved \cap Uncatchable = {}
  BY <1>2, <1>5, Zenon DEF Nested
<1>8. \A i, j \in DOMAIN G : i < j => G[i].sig \in G[j].saved
  BY <1>2, <1>5, Zenon DEF Nested
<1> QED
  BY <1>2, <1>3, <1>4, <1>6, <1>7, <1>8, Zenon DEF Nested, G

\* signal_deliver preserves the invariant, whatever the call before it has changed.
LEMMA DeliverKeeps ==
    ASSUME NEW P, NEW B, NEW H, NEW F, Consistent(P, B, H, F),
           signal_deliver(P, B, H, F),
           sig_ignore' \subseteq Signals \ Uncatchable, sig_ignore' \cap (P \cup H) = {}
    PROVE  SigInv'
<1> DEFINE D == Deliverable(P, B)
           stops == {s \in D : s \in H \/ s \in Fatal}
           sig == Min(stops)
<1>1. /\ sig_pending' \subseteq P /\ sig_interrupt' = FALSE /\ sig_handlers' = H
  BY Zenon DEF signal_deliver
<1>2. mode' \in {"user", "dead"} /\ on_cpu' \in BOOLEAN
  BY Zenon DEF signal_deliver
<1>3. IgnoredNeverPending'
  BY <1>1, Zenon DEF IgnoredNeverPending
<1>4. frames' \in Seq(Frame) /\ sig_blocked' \subseteq Signals
      /\ sig_blocked' \cap Uncatchable = {} /\ Nested(sig_blocked', frames')
  <2> DEFINE Entered == /\ stops # {} /\ sig \in H
                        /\ frames' = Append(F, [sig |-> sig, saved |-> B])
                        /\ sig_blocked' = B \cup {sig}
  <2>1. CASE Entered
    <3>1. stops \subseteq Nat /\ stops \subseteq Signals
      BY SignalAssumption, Zenon DEF Deliverable, Consistent
    <3>2. sig \in stops
      <4>1. \E x \in stops : \A y \in stops : x <= y
        BY <2>1, <3>1, LeastSignal, Zenon
      <4> QED
        BY <4>1, Zenon DEF Min
    <3> HIDE DEF sig
    <3>3. sig \in Signals /\ sig \notin B /\ sig \notin Uncatchable
      BY <2>1, <3>1, <3>2, Zenon DEF Deliverable, Consistent
    <3>4. frames' = Append(F, [sig |-> sig, saved |-> B]) /\ sig_blocked' = B \cup {sig}
      BY <2>1, Zenon
    <3> HIDE DEF stops
    <3> QED
      BY <3>3, <3>4, PushNested DEF Consistent
  <2>2. CASE frames' = F /\ sig_blocked' = B
    BY <2>2, Zenon DEF Consistent
  <2> QED
    BY <2>1, <2>2 DEF signal_deliver
<1>5. TypeOK'
  BY <1>1, <1>2, <1>4, Zenon DEF TypeOK, Consistent, Frame
<1> QED
  BY <1>3, <1>4, <1>5 DEF SigInv

\* The invariant gives what the lemmas about one process's signals assume.
LEMMA SigInvConsistent ==
    SigInv => Consistent(sig_pending, sig_blocked, sig_handlers, frames)
BY Zenon DEF SigInv, TypeOK, Consistent, Frame

\* The invariant is inductive.
LEMMA SigInvStep == SigInv /\ [Next]_sigVars => SigInv'
<1> SUFFICES ASSUME SigInv, [Next]_sigVars
             PROVE  SigInv'
  BY Zenon
<1> USE SignalAssumption
<1>0. Consistent(sig_pending, sig_blocked, sig_handlers, frames)
  BY SigInvConsistent, Zenon
<1>1. ASSUME NEW sig \in Signals, signal_send(sig)
      PROVE  SigInv'
  <2>1. sig_pending' = sig_pending \cup {sig} /\ ~effectively_ignored(sig)
        /\ UNCHANGED <<on_cpu, sig_blocked, sig_ignore, sig_handlers, frames>>
    BY <1>1, Zenon DEF signal_send
  <2>2. mode' \in {"user", "blocked", "ready", "dead"} /\ sig_interrupt' \in BOOLEAN
    BY <1>1, Zenon DEF signal_send, SigInv, TypeOK
  <2>3. sig \notin sig_ignore
    BY <2>1, Zenon DEF effectively_ignored, SigInv, TypeOK, IgnoredNeverPending
  <2>4. TypeOK'
    BY <2>1, <2>2, Zenon DEF SigInv, TypeOK
  <2> QED
    BY <2>1, <2>3, <2>4 DEF SigInv, IgnoredNeverPending, Nested
<1>2. ASSUME NEW sig \in Signals, raise(sig)
      PROVE  SigInv'
  <2>1. sig \notin sig_ignore
    BY <1>2, Zenon DEF raise, effectively_ignored, SigInv, TypeOK, IgnoredNeverPending
  <2>2. Consistent(sig_pending \cup {sig}, sig_blocked, sig_handlers, frames)
    BY <1>0, Zenon DEF Consistent
  <2> QED
    BY <1>2, <2>1, <2>2, DeliverKeeps, Zenon DEF raise, SigInv, TypeOK, IgnoredNeverPending
<1>3. ASSUME NEW sigs \in SUBSET Signals, NEW preempt \in BOOLEAN, irq_handler(sigs, preempt)
      PROVE  SigInv'
  <2> DEFINE new == {s \in sigs : ~effectively_ignored(s)}
  <2>1. sig_pending' \subseteq sig_pending \cup new
        /\ UNCHANGED <<sig_blocked, sig_ignore, sig_handlers, frames>>
    BY <1>3, Zenon DEF irq_handler
  <2>2. mode' \in {"user", "dead"} /\ sig_interrupt' \in BOOLEAN /\ on_cpu' \in BOOLEAN
    BY <1>3, Zenon DEF irq_handler
  <2>3. \A s \in new : s \in Signals /\ s \notin sig_ignore
    BY Zenon DEF effectively_ignored, SigInv, TypeOK, IgnoredNeverPending
  <2>4. TypeOK'
    BY <2>1, <2>2, <2>3 DEF SigInv, TypeOK
  <2> QED
    BY <2>1, <2>3, <2>4, Zenon DEF SigInv, IgnoredNeverPending, Nested
<1>4. ASSUME NEW mask \in SUBSET Signals, signal_procmask(mask)
      PROVE  SigInv'
  <2>1. \A i \in DOMAIN frames : frames[i].sig \in mask /\ frames[i].sig \in sig_blocked
    BY <1>4, Zenon DEF signal_procmask, Handling, SigInv, Nested
  <2>2. Nested(mask \ Uncatchable, frames)
    BY <2>1, Zenon DEF SigInv, Nested
  <2>3. Consistent(sig_pending, mask \ Uncatchable, sig_handlers, frames)
    BY <1>0, <2>2, Zenon DEF Consistent
  <2> QED
    BY <1>4, <2>3, DeliverKeeps, Zenon DEF signal_procmask, SigInv, TypeOK, IgnoredNeverPending
<1>5. ASSUME NEW sig \in Signals, NEW act, signal_sigaction(sig, act)
      PROVE  SigInv'
  <2> DEFINE P == IF act = "IGN" THEN sig_pending \ {sig} ELSE sig_pending
             H == IF act = "HANDLER" THEN sig_handlers \cup {sig} ELSE sig_handlers \ {sig}
  <2>1. signal_deliver(P, sig_blocked, H, frames) /\ sig \notin Uncatchable
    BY <1>5, Zenon DEF signal_sigaction
  <2>2. sig_ignore' = IF act = "IGN" THEN sig_ignore \cup {sig} ELSE sig_ignore \ {sig}
    BY <1>5, Zenon DEF signal_sigaction
  <2>3. Consistent(P, sig_blocked, H, frames)
    BY <1>0, <2>1, Zenon DEF Consistent
  <2>4. sig_ignore' \subseteq Signals \ Uncatchable /\ sig_ignore' \cap (P \cup H) = {}
    BY <2>1, <2>2, Zenon DEF SigInv, TypeOK, IgnoredNeverPending
  <2> HIDE DEF P, H
  <2> QED
    BY <2>1, <2>3, <2>4, DeliverKeeps
<1>6. ASSUME signal_sigreturn
      PROVE  SigInv'
  <2> DEFINE S == frames[Len(frames)].saved
             G == SubSeq(frames, 1, Len(frames) - 1)
  <2>1. frames # <<>> /\ frames \in Seq(Frame)
    BY <1>0, <1>6, Zenon DEF signal_sigreturn, Consistent
  <2>2. G \in Seq(Frame) /\ S \subseteq Signals /\ S \cap Uncatchable = {} /\ Nested(S, G)
    BY <2>1, PopNested, Zenon DEF SigInv
  <2>3. signal_deliver(sig_pending, S \ Uncatchable, sig_handlers, G) /\ UNCHANGED sig_ignore
    BY <1>6, Zenon DEF signal_sigreturn
  <2> HIDE DEF S, G
  <2>4. S \ Uncatchable = S
    BY <2>2, Zenon
  <2>5. Consistent(sig_pending, S, sig_handlers, G)
    BY <1>0, <2>2, Zenon DEF Consistent
  <2> QED
    BY <2>3, <2>4, <2>5, DeliverKeeps, Zenon DEF SigInv, TypeOK, IgnoredNeverPending
<1>7. ASSUME signal_reset_handlers
      PROVE  SigInv'
  <2>1. Consistent(sig_pending, sig_blocked, {}, <<>>)
    BY <1>0 DEF Consistent, Nested
  <2> QED
    BY <1>7, <2>1, DeliverKeeps, Zenon DEF signal_reset_handlers, SigInv, TypeOK, IgnoredNeverPending
<1>8. CASE sched_wait_event
  BY <1>8, Zenon DEF sched_wait_event, SigInv, TypeOK, IgnoredNeverPending, Nested
<1>9. CASE wq_wake_all
  BY <1>9, Zenon DEF wq_wake_all, SigInv, TypeOK, IgnoredNeverPending, Nested
<1>10. CASE Resume
  <2>1. CASE signal_deliver(sig_pending, sig_blocked, sig_handlers, frames) /\ UNCHANGED sig_ignore
    BY <1>0, <2>1, DeliverKeeps, Zenon DEF SigInv, TypeOK, IgnoredNeverPending
  <2>2. CASE mode' = "blocked" /\ UNCHANGED <<on_cpu, sig_pending, sig_blocked, sig_ignore,
                                              sig_handlers, sig_interrupt, frames>>
    BY <2>2, Zenon DEF SigInv, TypeOK, IgnoredNeverPending, Nested
  <2> QED
    BY <1>10, <2>1, <2>2, Zenon DEF Resume
<1>11. CASE Dispatch
  BY <1>11, Zenon DEF Dispatch, SigInv, TypeOK, IgnoredNeverPending, Nested
<1>12. CASE UNCHANGED sigVars
  BY <1>12, Zenon DEF sigVars, SigInv, TypeOK, IgnoredNeverPending, Nested
<1> QED
  BY <1>1, <1>2, <1>3, <1>4, <1>5, <1>6, <1>7, <1>8, <1>9, <1>10, <1>11, <1>12 DEF Next

\* The invariant always holds.
THEOREM SigInvariant == Spec => []SigInv
<1>1. Init => SigInv
  <2> SUFFICES ASSUME Init
               PROVE  SigInv
    BY Zenon
  <2>1. TypeOK
    <3>1. frames \in Seq([sig : Signals, saved : SUBSET Signals])
      BY DEF Init
    <3>2. on_cpu \in BOOLEAN /\ sig_interrupt \in BOOLEAN
          /\ mode \in {"user", "blocked", "ready", "dead"}
      BY Zenon DEF Init
    <3> QED
      BY <3>1, <3>2, Zenon DEF Init, TypeOK
  <2>2. Nested(sig_blocked, frames)
    BY DEF Init, Nested
  <2> QED
    BY <2>1, <2>2, Zenon DEF Init, SigInv, IgnoredNeverPending
<1> QED
  BY <1>1, SigInvStep, PTL DEF Spec

\* However handlers nest and whatever masks are set, no handler is entered again for a
\* signal it is still handling.
THEOREM NoReentry == Spec => []HandlersNotReentered
<1>1. SigInv => HandlersNotReentered
  <2> SUFFICES ASSUME SigInv, NEW i \in DOMAIN frames, NEW j \in DOMAIN frames,
                      frames[i].sig = frames[j].sig
               PROVE  i = j
    BY Zenon DEF HandlersNotReentered
  <2>1. ~(i < j) /\ ~(j < i)
    BY Zenon DEF SigInv, Nested
  <2>2. i \in Int /\ j \in Int
    BY DEF SigInv, TypeOK
  <2> QED
    BY <2>1, <2>2
<1> QED
  BY <1>1, SigInvariant, PTL

\* SIGKILL and SIGSTOP are in no mask, and an ignored signal is never pending, so that
\* delivery need not look at dispositions.
THEOREM MasksKept == Spec => []MasksExact
<1>1. SigInv => KillNeverMasked
  BY Zenon DEF SigInv, Nested, KillNeverMasked
<1>2. SigInv => TypeOK /\ IgnoredNeverPending
  BY Zenon DEF SigInv
<1> QED
  BY <1>1, <1>2, SigInvariant, PTL DEF MasksExact

=============================================================================
