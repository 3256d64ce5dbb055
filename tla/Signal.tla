------------------------------- MODULE Signal -------------------------------
(***************************************************************************)
(* The signals of one user process (kernel/signal/signal.c): generation,    *)
(* masks, dispositions, handlers with their frames on the user stack,       *)
(* sigreturn, and the two places where signals are acted on: the return     *)
(* from a system call and the tail of an interrupt taken in ring 3.         *)
(*                                                                         *)
(* The rest of the system appears as the sender of signals, the source of   *)
(* the events the process waits for, and the scheduler.  A system call runs *)
(* with interrupts off: it is one step unless it sleeps.                    *)
(***************************************************************************)
EXTENDS Integers, Sequences, FiniteSetsExt

CONSTANTS
    Signals,        \* signal numbers in use
    Uncatchable,    \* SIGKILL and SIGSTOP
    Fatal           \* is_terminate(): the default action ends the process

ASSUME SignalAssumption ==
    /\ Signals \subseteq Nat \ {0}
    /\ Uncatchable \subseteq Signals /\ Fatal \subseteq Signals

VARIABLES
    mode,           \* "user": ring 3; "blocked": asleep in a call; "ready": woken in one; "dead"
    on_cpu,         \* the process is the current one
    sig_pending, sig_blocked, sig_ignore,
    sig_handlers,   \* the signals that have a handler
    sig_interrupt,
    frames          \* the signal frames on the user stack: the signal and the mask saved

sigVars == <<mode, on_cpu, sig_pending, sig_blocked, sig_ignore, sig_handlers, sig_interrupt, frames>>

TypeOK ==
    /\ mode \in {"user", "blocked", "ready", "dead"} /\ on_cpu \in BOOLEAN
    /\ sig_pending \subseteq Signals /\ sig_blocked \subseteq Signals
    /\ sig_ignore \subseteq Signals \ Uncatchable
    /\ sig_handlers \subseteq Signals \ Uncatchable
    /\ sig_interrupt \in BOOLEAN
    /\ frames \in Seq([sig : Signals, saved : SUBSET Signals])

Init ==
    /\ mode = "user" /\ on_cpu = FALSE
    /\ sig_pending = {} /\ sig_blocked = {} /\ sig_ignore = {} /\ sig_handlers = {}
    /\ sig_interrupt = FALSE /\ frames = <<>>

-----------------------------------------------------------------------------
(* Generation.                                                              *)

effectively_ignored(sig) ==
    /\ sig \notin Uncatchable /\ sig \notin sig_handlers
    /\ sig \in sig_ignore \/ sig \notin Fatal

\* signal_send() or signal_send_pgrp() by another process or, for ^C, the keyboard
\* interrupt; a process on the CPU cannot be sent a signal by another one.
signal_send(sig) ==
    /\ mode # "dead" /\ ~on_cpu /\ ~effectively_ignored(sig)
    /\ sig_pending' = sig_pending \cup {sig}
    /\ IF mode = "blocked" /\ (sig \in Uncatchable \/ sig \notin sig_blocked)
       THEN sig_interrupt' = TRUE /\ mode' = "ready"
       ELSE UNCHANGED <<sig_interrupt, mode>>
    /\ UNCHANGED <<on_cpu, sig_blocked, sig_ignore, sig_handlers, frames>>

-----------------------------------------------------------------------------
(* Delivery.                                                                *)

Deliverable(P, B) == P \cap ((Signals \ B) \cup Uncatchable)

\* The signals of D up to and with the lowest one in S.
UpTo(D, S) == {d \in D : \A s \in S : d <= s}

\* Mutant: the signal is not masked in its handler.
signal_deliver_no_mask(P, B, H, F) ==
    LET D == Deliverable(P, B)
        stops == {s \in D : s \in H \/ s \in Fatal}
        sig == Min(stops)
    IN  /\ sig_pending' = P \ UpTo(D, stops) /\ sig_interrupt' = FALSE /\ sig_handlers' = H
        /\ IF stops # {} /\ sig \in H
           THEN /\ mode' = "user" /\ on_cpu' = TRUE
                /\ frames' = Append(F, [sig |-> sig, saved |-> B])
                /\ sig_blocked' = B
           ELSE /\ mode' = IF stops = {} THEN "user" ELSE "dead"
                /\ on_cpu' = (stops = {})
                /\ frames' = F /\ sig_blocked' = B

\* signal_deliver(), on the way out of every call, with pending signals P, mask B,
\* handlers H and frames F: enter one handler, or die, of the signal or of a stack the
\* frame cannot be written to, or clear what is ignored.
signal_deliver(P, B, H, F) ==
    LET D == Deliverable(P, B)
        stops == {s \in D : s \in H \/ s \in Fatal}
        sig == Min(stops)
    IN  /\ sig_pending' = P \ UpTo(D, stops) /\ sig_interrupt' = FALSE /\ sig_handlers' = H
        /\ \/ /\ stops # {} /\ sig \in H
              /\ mode' = "user" /\ on_cpu' = TRUE
              /\ frames' = Append(F, [sig |-> sig, saved |-> B])
              /\ sig_blocked' = B \cup {sig}
           \/ /\ mode' = IF stops = {} THEN "user" ELSE "dead"
              /\ on_cpu' = (stops = {})
              /\ frames' = F /\ sig_blocked' = B

\* irq_handler() in ring 3: the interrupt (the timer's, or the keyboard's, which sends
\* sig to the foreground group) is served; a fatal signal is taken; then the process may
\* be preempted.  A signal with a handler is left for the next system call.
irq_handler(sigs, preempt) ==
    LET P == sig_pending \cup {s \in sigs : ~effectively_ignored(s)}
        D == Deliverable(P, sig_blocked) \ sig_handlers
        stops == D \cap Fatal
    IN  /\ mode = "user" /\ on_cpu
        /\ sig_pending' = P \ UpTo(D, stops) /\ sig_interrupt' = FALSE
        /\ mode' = IF stops = {} THEN "user" ELSE "dead"
        /\ on_cpu' = (stops = {} /\ ~preempt)
        /\ UNCHANGED <<sig_blocked, sig_ignore, sig_handlers, frames>>

-----------------------------------------------------------------------------
(* System calls of the process.                                             *)

InUser == mode = "user" /\ on_cpu

\* A program does not unblock a signal while it handles it.
Handling == {frames[i].sig : i \in DOMAIN frames}

signal_procmask(mask) ==
    /\ InUser /\ Handling \subseteq mask
    /\ signal_deliver(sig_pending, mask \ Uncatchable, sig_handlers, frames)
    /\ UNCHANGED sig_ignore

\* Mutant: a pending signal is kept when it becomes ignored.
signal_sigaction_keeps_pending(sig, act) ==
    /\ InUser /\ sig \notin Uncatchable
    /\ sig_ignore' = IF act = "IGN" THEN sig_ignore \cup {sig} ELSE sig_ignore \ {sig}
    /\ signal_deliver(sig_pending, sig_blocked,
                      IF act = "HANDLER" THEN sig_handlers \cup {sig} ELSE sig_handlers \ {sig},
                      frames)

\* signal_sigaction() with SIG_DFL, SIG_IGN or a handler.
signal_sigaction(sig, act) ==
    /\ InUser /\ sig \notin Uncatchable
    /\ sig_ignore' = IF act = "IGN" THEN sig_ignore \cup {sig} ELSE sig_ignore \ {sig}
    /\ signal_deliver(IF act = "IGN" THEN sig_pending \ {sig} ELSE sig_pending, sig_blocked,
                      IF act = "HANDLER" THEN sig_handlers \cup {sig} ELSE sig_handlers \ {sig},
                      frames)

\* The handler has returned: the frame's mask comes back.
signal_sigreturn ==
    /\ InUser /\ frames # <<>>
    /\ signal_deliver(sig_pending, frames[Len(frames)].saved \ Uncatchable, sig_handlers,
                      SubSeq(frames, 1, Len(frames) - 1))
    /\ UNCHANGED sig_ignore

\* execve: handlers go with the old image (signal_reset_handlers), and so do the frames.
signal_reset_handlers ==
    /\ InUser
    /\ signal_deliver(sig_pending, sig_blocked, {}, <<>>)
    /\ UNCHANGED sig_ignore

\* kill() of itself, or SIGPIPE.
raise(sig) ==
    /\ InUser /\ ~effectively_ignored(sig)
    /\ signal_deliver(sig_pending \cup {sig}, sig_blocked, sig_handlers, frames)
    /\ UNCHANGED sig_ignore

-----------------------------------------------------------------------------
(* Sleeping in a call, and the scheduler.                                   *)

\* sched_wait_event(): the process sleeps; pending signals are not looked at.
sched_wait_event ==
    /\ InUser
    /\ mode' = "blocked" /\ on_cpu' = FALSE
    /\ UNCHANGED <<sig_pending, sig_blocked, sig_ignore, sig_handlers, sig_interrupt, frames>>

\* The event the process waits for, or one of another waiter's.
wq_wake_all ==
    /\ mode = "blocked" /\ mode' = "ready"
    /\ UNCHANGED <<on_cpu, sig_pending, sig_blocked, sig_ignore, sig_handlers, sig_interrupt, frames>>

\* The call goes on: interrupted, it returns -EINTR; otherwise it has what it waited
\* for and returns, or it has not and sleeps again.
Resume ==
    /\ mode = "ready" /\ ~on_cpu
    /\ \/ /\ signal_deliver(sig_pending, sig_blocked, sig_handlers, frames)
          /\ UNCHANGED sig_ignore
       \/ /\ ~sig_interrupt /\ mode' = "blocked"
          /\ UNCHANGED <<on_cpu, sig_pending, sig_blocked, sig_ignore, sig_handlers, sig_interrupt, frames>>

\* A preempted process gets the CPU back, in ring 3: the switch unwinds into the end of
\* irq_handler, after its look at the signals.
Dispatch ==
    /\ mode = "user" /\ ~on_cpu /\ on_cpu' = TRUE
    /\ UNCHANGED <<mode, sig_pending, sig_blocked, sig_ignore, sig_handlers, sig_interrupt, frames>>

Next ==
    \/ \E sig \in Signals : signal_send(sig) \/ raise(sig)
    \/ \E sigs \in SUBSET Signals, preempt \in BOOLEAN :
          Cardinality(sigs) <= 1 /\ irq_handler(sigs, preempt)
    \/ \E mask \in SUBSET Signals : signal_procmask(mask)
    \/ \E sig \in Signals, act \in {"DFL", "IGN", "HANDLER"} : signal_sigaction(sig, act)
    \/ signal_sigreturn \/ signal_reset_handlers
    \/ sched_wait_event \/ wq_wake_all \/ Resume \/ Dispatch

Spec == Init /\ [][Next]_sigVars

-----------------------------------------------------------------------------
(* Properties.                                                              *)

\* A handler is never entered again for a signal it is still handling, through any
\* nesting of handlers for other signals (deliver_to_handler masks it, sigreturn
\* restores the mask of the frame below), so frames on the stack are at most as many
\* as signals that can be caught.
HandlersNotReentered == \A i, j \in DOMAIN frames : frames[i].sig = frames[j].sig => i = j

\* SIGKILL and SIGSTOP are in no mask, current or saved in a frame.
KillNeverMasked ==
    /\ sig_blocked \cap Uncatchable = {}
    /\ \A i \in DOMAIN frames : frames[i].saved \cap Uncatchable = {}

\* An ignored signal is never pending.  signal_deliver and signal_take_terminate rely on
\* it: they look at handlers and default actions only, so an ignored signal that was
\* pending would end the process.
IgnoredNeverPending == sig_ignore \cap (sig_pending \cup sig_handlers) = {}

\* What signal_deliver and signal_take_terminate take for granted of the masks: both of
\* the above, whatever calls and interrupts came before.
MasksExact == TypeOK /\ KillNeverMasked /\ IgnoredNeverPending
=============================================================================
