----------------------------- MODULE WaitQueue -----------------------------
(***************************************************************************)
(* The wait queues of kernel/proc/sched/sched.c as the primitives built on *)
(* them see them.  A queue is the sequence of its nodes, head first; B is  *)
(* the set of threads in state BLOCKED.  Every other thread can run: the   *)
(* scheduler (module Sched) may give it the CPU at any moment, so the      *)
(* modules that use these operators let any thread outside B take a step.  *)
(*                                                                         *)
(* A node whose thread is not BLOCKED is stale: a timeout or a signal woke *)
(* the thread, which has not yet run and unlinked itself.                  *)
(***************************************************************************)
EXTENDS Integers, Sequences, FiniteSets

Nodes(s) == {s[i] : i \in DOMAIN s}

\* No thread has two nodes on s.
Distinct(s) == \A i, j \in DOMAIN s : s[i] = s[j] => i = j

AtMost(I, i) == {j \in I : j <= i}

\* The nodes of s whose threads are in S, in their order.
Those(s, S) ==
    LET I == {i \in DOMAIN s : s[i] \in S}
        Nth(k) == CHOOSE i \in I : Cardinality(AtMost(I, i)) = k
    IN  [k \in 1..Cardinality(I) |-> s[Nth(k)]]

\* The position of the first BLOCKED thread on s, if any (a set of at most one).
FirstLive(s, B) ==
    {i \in DOMAIN s : s[i] \in B /\ \A j \in 1..(i - 1) : s[j] \notin B}

\* wq_wake_one: the threads it makes READY, and the queue it leaves (stale
\* nodes before the first BLOCKED one are popped with it).
WakeOne(s, B) == {s[i] : i \in FirstLive(s, B)}
AfterWakeOne(s, B) ==
    IF FirstLive(s, B) = {} THEN <<>>
    ELSE SubSeq(s, (CHOOSE i \in FirstLive(s, B) : TRUE) + 1, Len(s))

\* wq_wake_all: the threads it makes READY; it leaves the queue empty.
WakeAll(s, B) == Nodes(s) \cap B

\* wq_remove: t unlinked from s, if it is there.
Unlinked(s, t) ==
    IF t \notin Nodes(s) THEN s
    ELSE LET i == CHOOSE k \in DOMAIN s : s[k] = t
         IN  [j \in 1..(Len(s) - 1) |-> IF j < i THEN s[j] ELSE s[j + 1]]
=============================================================================
