------------------------------- MODULE Sched -------------------------------
(***************************************************************************)
(* The preemptive scheduler of kernel/proc/sched/sched.c: run queues, the  *)
(* sleep list, wait queues, the timer tick, deferred preemption and the    *)
(* wake-up of a blocked thread by a signal.                                *)
(*                                                                         *)
(* The kernel runs on one CPU and protects this state by masking           *)
(* interrupts, so every action below is one section of code that runs with *)
(* interrupts off.  Blocking calls are split where the thread leaves the   *)
(* CPU: sched_wait_event enqueues the thread and switches away; the code   *)
(* after schedule() is a second action, wait_event_woken, that runs when   *)
(* the thread has the CPU again.  A timer interrupt may come before it,    *)
(* since context_switch resumes every thread with interrupts enabled.      *)
(*                                                                         *)
(* Thread creation and exit are modelled in ProcLife.                      *)
(***************************************************************************)
EXTENDS SchedParams, WaitQueue, FiniteSets

CONSTANTS
    Queues,         \* wait queues
    Quantum,        \* SCHED_QUANTUM
    Timeouts,       \* the timeouts, in ticks, callers pass (0: no timeout)
    MaxPreempt,     \* bound on the nesting of preempt_disable
    Sleepers,       \* threads that call sched_sleep_ticks
    Signalled       \* threads that signal_send may target

ASSUME SchedAssumption ==
    /\ Quantum \in Nat \ {0}
    /\ Timeouts \subseteq Nat
    /\ IsFiniteSet(Timeouts)
    /\ IsFiniteSet(Threads)
    /\ MaxPreempt \in Nat
    /\ Sleepers \subseteq Threads /\ Signalled \subseteq Threads
    \* sched_sleep_ticks is for kernel threads (kfuzz, the tests), which get no signals.
    /\ Sleepers \cap Signalled = {}

VARIABLES
    state,            \* process_t.state
    current_process,
    runq,             \* run queue of each level, head first
    sleep_list,       \* head first
    wq,               \* nodes of each wait queue, head first
    need_resched,
    preempt_count,
    ticks_left,       \* of current_process (schedule resets the incoming thread's)
    wake_in,          \* wake_tick - timer_get_ticks(), 0 once it has passed
    timed_out,
    sig_interrupt,
    pc,               \* where each thread stands in the calls modelled here
    wait_on           \* the queue of its sched_wait_event call

vars == <<state, current_process, runq, sleep_list, wq, need_resched,
          preempt_count, ticks_left, wake_in, timed_out,
          sig_interrupt, pc, wait_on>>

NoQueue == "none"

TypeOK ==
    /\ state \in [AllThreads -> {"READY", "RUNNING", "BLOCKED"}]
    /\ current_process \in AllThreads
    /\ runq \in [Levels -> Seq(Threads)]
    /\ sleep_list \in Seq(Threads)
    /\ wq \in [Queues -> Seq(Threads)]
    /\ need_resched \in BOOLEAN
    /\ preempt_count \in [AllThreads -> 0..MaxPreempt]
    /\ ticks_left \in 0..Quantum
    /\ wake_in \in [Threads -> {m \in Nat : \E n \in Timeouts \cup {0} : m <= n}]
    /\ timed_out \in [Threads -> BOOLEAN]
    /\ sig_interrupt \in [Threads -> BOOLEAN]
    /\ pc \in [Threads -> {"run", "yield", "wait", "sleep"}]
    /\ wait_on \in [Threads -> Queues \cup {NoQueue}]

-----------------------------------------------------------------------------
(* Run queues *)

\* Mutant: the thread goes to the head of its level.
runq_push_at_head(rq, t) == [rq EXCEPT ![priority[t]] = <<t>> \o @]

runq_push(rq, t) == [rq EXCEPT ![priority[t]] = Append(@, t)]

\* runq_push of each thread of the sequence ts in turn.
PushAll(rq, ts) ==
    [p \in Levels |-> rq[p] \o Those(ts, {t \in Threads : priority[t] = p})]

SomeQueued(rq) == \E p \in Levels : rq[p] # <<>>

\* Mutant: the scan runs from the lowest level up.
HighestLevel_scan_reversed(rq) ==
    CHOOSE p \in Levels : rq[p] # <<>> /\ \A k \in Levels : k > p => rq[k] = <<>>

HighestLevel(rq) ==
    CHOOSE p \in Levels : rq[p] # <<>> /\ \A k \in Levels : k < p => rq[k] = <<>>

(***************************************************************************)
(* schedule(), entered with the thread states st and the run queues   *)
(* rq.  A current thread that is still RUNNING goes to the tail of its own *)
(* level before the highest level is popped.                               *)
(***************************************************************************)
schedule(st, rq) ==
    LET prev == current_process
        requeued == prev # Idle /\ st[prev] = "RUNNING"
        rq1 == IF requeued THEN runq_push(rq, prev) ELSE rq
        level == HighestLevel(rq1)
        next == IF SomeQueued(rq1) THEN Head(rq1[level]) ELSE Idle
        st1 == IF requeued \/ (prev = Idle /\ next # Idle)
               THEN [st EXCEPT ![prev] = "READY"] ELSE st
    IN  /\ runq' = IF next = Idle THEN rq1 ELSE [rq1 EXCEPT ![level] = Tail(@)]
        /\ state' = [st1 EXCEPT ![next] = "RUNNING"]
        /\ ticks_left' = Quantum
        /\ current_process' = next

NoSwitch(st, rq, tl) ==
    /\ state' = st /\ runq' = rq /\ ticks_left' = tl
    /\ UNCHANGED current_process

\* Mutant: the flag is cleared although preemption is disabled.
sched_preempt_if_needed_flag_lost(st, rq, tl, resched) ==
    /\ need_resched' = FALSE
    /\ IF resched /\ preempt_count[current_process] = 0
       THEN schedule(st, rq) ELSE NoSwitch(st, rq, tl)

\* sched_preempt_if_needed(), the tail of every interrupt.
sched_preempt_if_needed(st, rq, tl, resched) ==
    IF resched /\ preempt_count[current_process] = 0
    THEN schedule(st, rq) /\ need_resched' = FALSE
    ELSE NoSwitch(st, rq, tl) /\ need_resched' = resched

\* The thread states after every thread of the sequence ts was made READY.
ReadyAll(st, ts) == [t \in AllThreads |-> IF t \in Nodes(ts) THEN "READY" ELSE st[t]]

-----------------------------------------------------------------------------
Init ==
    \E c \in Threads, others \in [1..(Cardinality(Threads) - 1) -> Threads] :
        /\ Distinct(others) /\ Nodes(others) = Threads \ {c}
        /\ state = [t \in AllThreads |-> IF t = c THEN "RUNNING" ELSE "READY"]
        /\ current_process = c
        /\ runq = PushAll([p \in Levels |-> <<>>], others)
        /\ sleep_list = <<>>
        /\ wq = [q \in Queues |-> <<>>]
        /\ need_resched = (others # <<>>)
        /\ preempt_count = [t \in AllThreads |-> 0]
        /\ ticks_left = Quantum
        /\ wake_in = [t \in Threads |-> 0]
        /\ timed_out = [t \in Threads |-> FALSE]
        /\ sig_interrupt = [t \in Threads |-> FALSE]
        /\ pc = [t \in Threads |-> "run"]
        /\ wait_on = [t \in Threads |-> NoQueue]

\* c is the thread on the CPU, in ordinary code between two kernel calls.
Running(c) == c \in Threads /\ current_process = c /\ pc[c] = "run"

-----------------------------------------------------------------------------
(* Preemption control and voluntary switches *)

preempt_disable(c) ==
    /\ Running(c)
    /\ preempt_count[c] < MaxPreempt
    /\ preempt_count' = [preempt_count EXCEPT ![c] = @ + 1]
    /\ UNCHANGED <<state, current_process, runq, sleep_list, wq, need_resched,
                   ticks_left, wake_in, timed_out, sig_interrupt, pc, wait_on>>

\* The interrupts are on between the decrement and thread_yield: pc = "yield".
preempt_enable(c) ==
    /\ Running(c)
    /\ preempt_count[c] > 0
    /\ preempt_count' = [preempt_count EXCEPT ![c] = @ - 1]
    /\ pc' = [pc EXCEPT ![c] = IF preempt_count[c] = 1 /\ need_resched THEN "yield" ELSE "run"]
    /\ UNCHANGED <<state, current_process, runq, sleep_list, wq, need_resched,
                   ticks_left, wake_in, timed_out, sig_interrupt, wait_on>>

\* thread_yield(), called by a thread or by preempt_enable; need_resched stays as it is.
thread_yield(c) ==
    /\ c \in Threads /\ current_process = c /\ pc[c] \in {"run", "yield"}
    /\ schedule(state, runq)
    /\ pc' = [pc EXCEPT ![c] = "run"]
    /\ UNCHANGED <<sleep_list, wq, need_resched, preempt_count, wake_in,
                   timed_out, sig_interrupt, wait_on>>

-----------------------------------------------------------------------------
(* Blocking *)

\* sched_wait_event up to the switch; n = 0 means no timeout.
sched_wait_event(c, q, n) ==
    /\ Running(c)
    /\ wq' = [wq EXCEPT ![q] = Append(@, c)]
    /\ IF n = 0
       THEN UNCHANGED <<wake_in, sleep_list>>
       ELSE /\ wake_in' = [wake_in EXCEPT ![c] = n]
            /\ sleep_list' = <<c>> \o sleep_list
    /\ timed_out' = [timed_out EXCEPT ![c] = FALSE]
    /\ pc' = [pc EXCEPT ![c] = "wait"]
    /\ wait_on' = [wait_on EXCEPT ![c] = q]
    /\ schedule([state EXCEPT ![c] = "BLOCKED"], runq)
    /\ UNCHANGED <<need_resched, preempt_count, sig_interrupt>>

\* Mutant: the node stays on the list the waker did not clear.
wait_event_woken_no_unlink(c) ==
    /\ c \in Threads /\ current_process = c /\ pc[c] = "wait"
    /\ sig_interrupt' = [sig_interrupt EXCEPT ![c] = FALSE]
    /\ pc' = [pc EXCEPT ![c] = "run"]
    /\ wait_on' = [wait_on EXCEPT ![c] = NoQueue]
    /\ UNCHANGED <<state, current_process, runq, need_resched, preempt_count, sleep_list,
                   wq, ticks_left, wake_in, timed_out>>

\* sched_wait_event after the switch: off both lists; the result is read here.
wait_event_woken(c) ==
    /\ c \in Threads /\ current_process = c /\ pc[c] = "wait"
    /\ wq' = [wq EXCEPT ![wait_on[c]] = Unlinked(@, c)]
    /\ sleep_list' = Unlinked(sleep_list, c)
    /\ sig_interrupt' = [sig_interrupt EXCEPT ![c] = FALSE]
    /\ pc' = [pc EXCEPT ![c] = "run"]
    /\ wait_on' = [wait_on EXCEPT ![c] = NoQueue]
    /\ UNCHANGED <<state, current_process, runq, need_resched, preempt_count,
                   ticks_left, wake_in, timed_out>>

\* sched_sleep_ticks(n) for n > 0 (sched_sleep_ticks(0) is thread_yield).
sched_sleep_ticks(c, n) ==
    /\ Running(c)
    /\ n > 0
    /\ wake_in' = [wake_in EXCEPT ![c] = n]
    /\ sleep_list' = <<c>> \o sleep_list
    /\ pc' = [pc EXCEPT ![c] = "sleep"]
    /\ schedule([state EXCEPT ![c] = "BLOCKED"], runq)
    /\ UNCHANGED <<wq, need_resched, preempt_count, timed_out, sig_interrupt, wait_on>>

\* sched_sleep_ticks returns: nothing is unlinked and no flag is cleared.
sleep_ticks_woken(c) ==
    /\ c \in Threads /\ current_process = c /\ pc[c] = "sleep"
    /\ pc' = [pc EXCEPT ![c] = "run"]
    /\ UNCHANGED <<state, current_process, runq, sleep_list, wq, need_resched,
                   preempt_count, ticks_left, wake_in, timed_out,
                   sig_interrupt, wait_on>>

-----------------------------------------------------------------------------
(***************************************************************************)
(* Waking.  A wake-up is called by the running thread, or by a device      *)
(* interrupt handler, which ends in sched_preempt_if_needed.               *)
(***************************************************************************)
Woken(st, ts, byIrq) ==
    LET st1 == ReadyAll(st, ts)
        rq1 == PushAll(runq, ts)
        nr1 == need_resched \/ ts # <<>>
    IN  IF byIrq
        THEN sched_preempt_if_needed(st1, rq1, ticks_left, nr1)
        ELSE NoSwitch(st1, rq1, ticks_left) /\ need_resched' = nr1

CallerMayWake(byIrq) ==
    byIrq \/ (current_process # Idle /\ pc[current_process] = "run")

Blocked == {t \in Threads : state[t] = "BLOCKED"}

\* Stale nodes before the first BLOCKED one are popped with it.
wq_wake_one(q, byIrq) ==
    LET live == FirstLive(wq[q], Blocked)
        ts == IF live = {} THEN <<>> ELSE <<wq[q][CHOOSE i \in live : TRUE]>>
    IN  /\ CallerMayWake(byIrq)
        /\ wq' = [wq EXCEPT ![q] = AfterWakeOne(@, Blocked)]
        /\ timed_out' = [t \in Threads |-> IF t \in Nodes(ts) THEN FALSE ELSE timed_out[t]]
        /\ Woken(state, ts, byIrq)
        /\ UNCHANGED <<sleep_list, preempt_count, wake_in, sig_interrupt, pc, wait_on>>

wq_wake_all(q, byIrq) ==
    LET ts == Those(wq[q], Blocked)
    IN  /\ CallerMayWake(byIrq)
        /\ wq' = [wq EXCEPT ![q] = <<>>]
        /\ timed_out' = [t \in Threads |-> IF t \in Nodes(ts) THEN FALSE ELSE timed_out[t]]
        /\ Woken(state, ts, byIrq)
        /\ UNCHANGED <<sleep_list, preempt_count, wake_in, sig_interrupt, pc, wait_on>>

\* signal_send of a deliverable signal to a BLOCKED thread, and its sched_wake.
signal_send(t, byIrq) ==
    /\ CallerMayWake(byIrq)
    /\ state[t] = "BLOCKED"
    /\ sig_interrupt' = [sig_interrupt EXCEPT ![t] = TRUE]
    /\ Woken(state, <<t>>, byIrq)
    /\ UNCHANGED <<sleep_list, wq, preempt_count, wake_in, timed_out, pc, wait_on>>

-----------------------------------------------------------------------------
(* The timer interrupt *)

\* (int64_t)(now - t->wake_tick) >= 0, now being the tick that comes.
Expired(t) == wake_in[t] <= 1

\* Mutant: the deadline is tested before the state, so a stale node is woken again.
wake_expired_sleepers_stale ==
    [woken |-> Those(sleep_list, {t \in Threads : Expired(t)}),
     kept  |-> Those(sleep_list, {t \in Blocked : ~Expired(t)})]

\* The nodes made READY, in list order, and the nodes that stay; a node whose
\* thread is no longer BLOCKED is unlinked.
wake_expired_sleepers ==
    [woken |-> Those(sleep_list, {t \in Blocked : Expired(t)}),
     kept  |-> Those(sleep_list, {t \in Blocked : ~Expired(t)})]

\* timer_handler, sched_tick and the interrupt tail.
sched_tick ==
    LET c == current_process
        expired == wake_expired_sleepers.woken
        st1 == ReadyAll(state, expired)
        rq1 == PushAll(runq, expired)
        tl1 == IF c = Idle \/ ticks_left = 0 THEN ticks_left ELSE ticks_left - 1
        nr1 == \/ need_resched \/ expired # <<>>
               \/ c # Idle /\ tl1 = 0
               \/ c = Idle /\ \E p \in Levels \ {LowestLevel} : rq1[p] # <<>>
    IN  /\ wake_in' = [t \in Threads |-> IF Expired(t) THEN 0 ELSE wake_in[t] - 1]
        /\ sleep_list' = wake_expired_sleepers.kept
        /\ timed_out' = [t \in Threads |-> t \in Nodes(expired) \/ timed_out[t]]
        /\ sched_preempt_if_needed(st1, rq1, tl1, nr1)
        /\ UNCHANGED <<wq, preempt_count, sig_interrupt, pc, wait_on>>

-----------------------------------------------------------------------------
ThreadStep(c) ==
    \/ preempt_disable(c) \/ preempt_enable(c) \/ thread_yield(c)
    \/ \E q \in Queues, n \in Timeouts : sched_wait_event(c, q, n)
    \/ wait_event_woken(c)
    \/ c \in Sleepers /\ \E n \in Timeouts : sched_sleep_ticks(c, n)
    \/ sleep_ticks_woken(c)

WakeStep(byIrq) ==
    \/ \E q \in Queues : wq_wake_one(q, byIrq) \/ wq_wake_all(q, byIrq)
    \/ \E t \in Signalled : signal_send(t, byIrq)

Next ==
    \/ \E c \in Threads : ThreadStep(c)
    \/ \E byIrq \in BOOLEAN : WakeStep(byIrq)
    \/ sched_tick

Spec == Init /\ [][Next]_vars

(***************************************************************************)
(* Fairness: the timer interrupt keeps coming; a thread that gets the CPU  *)
(* again and again executes: it finishes the call it was woken from, and   *)
(* leaves its preempt_disable sections, which are finite code.  A tick     *)
(* interval is far longer than any of these, so the fairness is strong.    *)
(***************************************************************************)
Fairness ==
    /\ WF_vars(sched_tick)
    /\ \A c \in Threads :
         /\ SF_vars(preempt_enable(c))
         /\ SF_vars(wait_event_woken(c))
         /\ SF_vars(sleep_ticks_woken(c))

FairSpec == Spec /\ Fairness

-----------------------------------------------------------------------------
(* Properties *)

\* The run queues hold exactly the READY threads, each once and at its own
\* level (runq_push and runq_pop_highest against every place that sets state):
\* a thread queued twice would run after it blocked, one queued nowhere never.
RunqExact ==
    \A p \in Levels :
        /\ Distinct(runq[p])
        /\ \A t \in Threads : t \in Nodes(runq[p]) <=> state[t] = "READY" /\ priority[t] = p

\* Whenever a READY thread outranks the one on the CPU, a switch is owed:
\* need_resched is set, so the next interrupt tail or preempt_enable switches.
\* schedule() never clears the flag and sched_preempt_if_needed clears it only
\* together with a switch; a lost flag would leave a woken thread waiting
\* until the quantum of a lower-priority thread, or idle, ends.
PreemptionOwed ==
    (\E t \in Threads : state[t] = "READY" /\ rank[t] < rank[current_process])
        => need_resched

\* The scheduler keeps the promises of SchedAbs: the thread that gets the CPU is
\* one that no READY thread outranks (runq_pop_highest after the re-queueing of
\* the outgoing thread), and each wake-up leaves a switch owed.
Abs == INSTANCE SchedAbs
ImplementsSchedAbs == Abs!Spec

\* A node is on a wait queue or on the sleep list only while its thread is
\* inside the call that linked it, at most once on each, and a BLOCKED thread
\* is on every list its waker will search (sched_wait_event, sched_sleep_ticks
\* and the unlinking in wait_event_woken, wq_wake_* and wake_expired_sleepers).
ListsExact ==
    /\ Distinct(sleep_list) /\ \A q \in Queues : Distinct(wq[q])
    /\ \A t \in Threads :
         /\ \A q \in Queues : t \in Nodes(wq[q]) => pc[t] = "wait" /\ wait_on[t] = q
         /\ t \in Nodes(sleep_list) => pc[t] \in {"wait", "sleep"}
         /\ state[t] = "BLOCKED" /\ pc[t] = "wait" => t \in Nodes(wq[wait_on[t]])
         /\ state[t] = "BLOCKED" /\ pc[t] = "sleep" => t \in Nodes(sleep_list)

\* The queues of ready threads and the lists of waiting ones are exact, together: what a
\* waker finds on a list is what schedule() may be given.
QueuesExact == TypeOK /\ RunqExact /\ ListsExact

\* Once a waiter has been woken, by whichever waker came first, its result does
\* not change before it reads it: a wake-up delivered by wq_wake_one is never
\* turned into a timeout by a later tick (sched_wait_event returns timed_out).
WakeResultStable ==
    [][\A t \in Threads :
         pc[t] = "wait" /\ state[t] # "BLOCKED" /\ pc'[t] = "wait"
            => timed_out'[t] = timed_out[t] /\ sig_interrupt'[t] = sig_interrupt[t]]_vars

\* A READY thread that no thread outranks gets the CPU: equal-priority threads
\* share it by rotation, whatever the others do with yields, wake-ups and
\* preempt_disable sections.
TopLevelRuns ==
    \A t \in Threads :
        priority[t] = 0 /\ state[t] = "READY" ~> state[t] = "RUNNING"

\* A thread that waits with a timeout, or sleeps, runs again (priority 0).
TimedWaitReturns ==
    \A t \in Threads :
        priority[t] = 0 /\ t \in Nodes(sleep_list) ~> pc[t] = "run"

\* Both: neither rotation nor the sleep list forgets a thread of the top level.
FairShare == TopLevelRuns /\ TimedWaitReturns

=============================================================================
