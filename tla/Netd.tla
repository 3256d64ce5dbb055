-------------------------------- MODULE Netd --------------------------------
(***************************************************************************)
(* The network daemon of kernel/net/netdev.c: how it learns that there is   *)
(* something to do.  Frames wait in the ring of the loopback device and in  *)
(* that of the NIC; netd is woken through rx_sem, whose posts               *)
(* net_rx_notify coalesces with rx_pending.                                 *)
(*                                                                         *)
(* The interrupt handler runs to its end; a thread in lo_send holds         *)
(* net_lock but can be preempted between the test of rx_pending and         *)
(* sem_post, so those are two steps.                                        *)
(***************************************************************************)
EXTENDS Integers, Sequences

CONSTANTS
    Senders,            \* threads that send over the loopback device
    LO_QUEUE,
    NUM_RX              \* frames that wait in the ring of the NIC at most

ASSUME NetdAssumption ==
    /\ LO_QUEUE \in Nat \ {0} /\ NUM_RX \in Nat
    /\ "netd" \notin Senders /\ "nobody" \notin Senders

VARIABLES
    lo,                 \* the frames in the loopback ring: "ask" wants an answer, "plain" none
    rx,                 \* the number of frames in the ring of the NIC
    icr,                \* the NIC asserts its interrupt
    rx_pending, rx_sem,
    net_lock,           \* its holder
    netd,               \* where netd is
    sender              \* where a sender is

ndVars == <<lo, rx, icr, rx_pending, rx_sem, net_lock, netd, sender>>

\* net_rx_notify posts only if no notification is pending.
Post == ~rx_pending

NdInit ==
    /\ lo = <<>> /\ rx = 0 /\ icr = FALSE /\ rx_pending = FALSE /\ rx_sem = 0
    /\ net_lock = "nobody" /\ netd = "wait" /\ sender = [s \in Senders |-> "idle"]

-----------------------------------------------------------------------------
(* The NIC and its interrupt *)

Receive ==
    /\ rx < NUM_RX /\ rx' = rx + 1 /\ icr' = TRUE
    /\ UNCHANGED <<lo, rx_pending, rx_sem, net_lock, netd, sender>>

\* Reading ICR acknowledges the causes.
e1000_irq ==
    /\ icr /\ icr' = FALSE
    /\ rx_sem' = IF Post THEN rx_sem + 1 ELSE rx_sem
    /\ rx_pending' = TRUE
    /\ UNCHANGED <<lo, rx, net_lock, netd, sender>>

-----------------------------------------------------------------------------
(* A thread that sends *)

Lock(s) == /\ sender[s] = "idle" /\ net_lock = "nobody" /\ net_lock' = s
           /\ sender' = [sender EXCEPT ![s] = "send"]
           /\ UNCHANGED <<lo, rx, icr, rx_pending, rx_sem, netd>>

\* lo_send; a full ring drops the frame and notifies nobody.
lo_send(s, f) ==
    /\ sender[s] = "send"
    /\ IF Len(lo) = LO_QUEUE THEN lo' = lo /\ sender' = [sender EXCEPT ![s] = "unlock"]
       ELSE lo' = Append(lo, f) /\ sender' = [sender EXCEPT ![s] = "notify"]
    /\ UNCHANGED <<rx, icr, rx_pending, rx_sem, net_lock, netd>>

net_rx_notify(s) ==
    /\ sender[s] = "notify"
    /\ sender' = [sender EXCEPT ![s] = IF Post THEN "post" ELSE "unlock"]
    /\ rx_pending' = TRUE
    /\ UNCHANGED <<lo, rx, icr, rx_sem, net_lock, netd>>

sem_post(s) == /\ sender[s] = "post" /\ rx_sem' = rx_sem + 1
               /\ sender' = [sender EXCEPT ![s] = "unlock"]
               /\ UNCHANGED <<lo, rx, icr, rx_pending, net_lock, netd>>

\* The thread may send again before it lets go of the lock.
Unlock(s) == /\ sender[s] = "unlock"
             /\ \/ sender' = [sender EXCEPT ![s] = "idle"] /\ net_lock' = "nobody"
                \/ sender' = [sender EXCEPT ![s] = "send"] /\ UNCHANGED net_lock
             /\ UNCHANGED <<lo, rx, icr, rx_pending, rx_sem, netd>>

-----------------------------------------------------------------------------
(* netd *)

\* sem_timedwait returns with a unit, or empty-handed when the tick is due.
NetdWake ==
    /\ netd = "wait" /\ netd' = "clear"
    /\ rx_sem' = IF rx_sem > 0 THEN rx_sem - 1 ELSE 0
    /\ UNCHANGED <<lo, rx, icr, rx_pending, net_lock, sender>>

\* Mutant: rx_pending is left set.
KeepPending == /\ netd = "clear" /\ netd' = "lock"
               /\ UNCHANGED <<lo, rx, icr, rx_pending, rx_sem, net_lock, sender>>

Clear == /\ netd = "clear" /\ netd' = "lock" /\ rx_pending' = FALSE
         /\ UNCHANGED <<lo, rx, icr, rx_sem, net_lock, sender>>

NetdLock == /\ netd = "lock" /\ net_lock = "nobody" /\ net_lock' = "netd" /\ netd' = "lo"
            /\ UNCHANGED <<lo, rx, icr, rx_pending, rx_sem, sender>>

\* lo_poll: a frame at a time, until there is none.  net_input may answer over the same ring.
lo_poll ==
    /\ netd = "lo"
    /\ IF lo = <<>> THEN netd' = "nic" /\ UNCHANGED <<lo, rx_pending, rx_sem>>
       ELSE /\ lo' = IF Head(lo) = "ask" THEN Append(Tail(lo), "plain") ELSE Tail(lo)
            /\ rx_sem' = IF Head(lo) = "ask" /\ Post THEN rx_sem + 1 ELSE rx_sem
            /\ rx_pending' = (rx_pending \/ Head(lo) = "ask")
            /\ UNCHANGED netd
    /\ UNCHANGED <<rx, icr, net_lock, sender>>

\* e1000_poll, in the same way; here the answers go out through the NIC.
e1000_poll ==
    /\ netd = "nic"
    /\ IF rx = 0 THEN netd' = "unlock" /\ UNCHANGED rx ELSE rx' = rx - 1 /\ UNCHANGED netd
    /\ UNCHANGED <<lo, icr, rx_pending, rx_sem, net_lock, sender>>

\* The timers run here when the tick is due (Tcp, Arp).
NetdUnlock == /\ netd = "unlock" /\ netd' = "wait" /\ net_lock' = "nobody"
              /\ UNCHANGED <<lo, rx, icr, rx_pending, rx_sem, sender>>

NdNext ==
    \/ Receive \/ e1000_irq
    \/ \E s \in Senders : \/ Lock(s) \/ net_rx_notify(s) \/ sem_post(s) \/ Unlock(s)
                          \/ \E f \in {"ask", "plain"} : lo_send(s, f)
    \/ NetdWake \/ Clear \/ NetdLock \/ lo_poll \/ e1000_poll \/ NetdUnlock

NdSpec == NdInit /\ [][NdNext]_ndVars

-----------------------------------------------------------------------------

NdTypeOK ==
    /\ lo \in Seq({"ask", "plain"}) /\ Len(lo) <= LO_QUEUE /\ rx \in 0..NUM_RX
    /\ icr \in BOOLEAN /\ rx_pending \in BOOLEAN /\ rx_sem \in Nat
    /\ net_lock \in Senders \cup {"netd", "nobody"}
    /\ netd \in {"wait", "clear", "lock", "lo", "nic", "unlock"}
    /\ sender \in [Senders -> {"idle", "send", "notify", "post", "unlock"}]

\* netd does not wait for the next tick while a frame waits for it, unless the interrupt or
\* the post that will wake it is still to come (net_rx_notify against netd_main).
NoFrameForgotten ==
    netd = "wait" /\ rx_sem = 0 =>
        \/ \E s \in Senders : sender[s] \in {"notify", "post"}
        \/ lo = <<>> /\ (rx > 0 => icr)

\* "Coalesce notifications so a burst of IRQs doesn't grow the semaphore without bound"
\* (net_rx_notify): whatever the burst, two units are the most there ever are.
SemBounded == rx_sem <= 2

\* What netd_main relies on: no frame waits for a thread that sleeps, and the semaphore counts
\* no more than one wake-up that is due and one that is spare.
NetdWakes == NdTypeOK /\ NoFrameForgotten /\ SemBounded
=============================================================================
