------------------------------ MODULE SchedAbs ------------------------------
(***************************************************************************)
(* What the scheduler promises, without its queues: the CPU goes to a      *)
(* thread that nothing READY outranks, and whenever a thread is woken a    *)
(* switch is owed until one happens.  Sched implements this specification. *)
(***************************************************************************)
EXTENDS SchedParams

VARIABLES state, current_process, need_resched

vars == <<state, current_process, need_resched>>

TypeOK ==
    /\ state \in [AllThreads -> {"READY", "RUNNING", "BLOCKED"}]
    /\ current_process \in AllThreads
    /\ need_resched \in BOOLEAN

\* The threads that may be given the CPU when the thread states are st.
Ready(st) == {t \in Threads : st[t] = "READY"}

Init ==
    /\ current_process \in Threads
    /\ state = [t \in AllThreads |-> IF t = current_process THEN "RUNNING" ELSE "READY"]
    /\ need_resched = (Threads # {current_process})

Blocked == {t \in Threads : state[t] = "BLOCKED"}

Wakened(W) == [t \in AllThreads |-> IF t \in W THEN "READY" ELSE state[t]]

\* Some blocked threads become READY; the current thread keeps the CPU.
Wake(W) ==
    /\ W # {}
    /\ state' = Wakened(W)
    /\ need_resched' = TRUE
    /\ UNCHANGED current_process

\* The quantum of the current thread ends.
QuantumEnds ==
    /\ need_resched' = TRUE
    /\ UNCHANGED <<state, current_process>>

\* The thread states once the current thread has left the CPU, to "READY" or "BLOCKED".
Left(W, how) ==
    [t \in AllThreads |-> IF t = current_process THEN how ELSE Wakened(W)[t]]

\* A switch, after the threads in W were made READY by the same interrupt.
Switch(W, how) ==
    LET st == Left(W, how)
    IN  /\ current_process = Idle => how = "READY"
        /\ \E next \in Ready(st) \cup {Idle} :
             /\ \A t \in Ready(st) : rank[next] <= rank[t]
             /\ state' = [st EXCEPT ![next] = "RUNNING"]
             /\ current_process' = next
        /\ need_resched' \in {need_resched, FALSE}

Next ==
    \/ \E W \in SUBSET Blocked : Wake(W)
    \/ QuantumEnds
    \/ \E W \in SUBSET Blocked : \E how \in {"READY", "BLOCKED"} : Switch(W, how)

Spec == Init /\ [][Next]_vars

\* Exactly one thread is RUNNING, and it is current_process (schedule).
OneRunning == \A t \in AllThreads : state[t] = "RUNNING" <=> t = current_process

\* Whenever a READY thread outranks the one on the CPU, need_resched is set
\* (sched_wake, wq_wake_*, wake_expired_sleepers against schedule and
\* sched_preempt_if_needed, the only place that clears the flag).
PreemptionOwed ==
    (\E t \in Threads : state[t] = "READY" /\ rank[t] < rank[current_process])
        => need_resched
=============================================================================
