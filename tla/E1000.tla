------------------------------- MODULE E1000 --------------------------------
(***************************************************************************)
(* The descriptor rings of kernel/drivers/e1000.c.  The NIC owns the        *)
(* receive descriptors from RDH up to, not including, RDT; it fills them    *)
(* and sets DD.  The driver takes them in order and hands each back by      *)
(* moving RDT.  It transmits the descriptors from TDH up to TDT and sets    *)
(* their DD; the driver reuses one only if DD is set.                       *)
(*                                                                         *)
(* Frames are numbered in the order in which they come, modulo Mod; one     *)
(* with an error is counted and dropped by the driver like any other taken. *)
(* e1000_poll runs under net_lock, a frame at a time; net_input reads the   *)
(* buffer before the descriptor is handed back.  e1000_send disables        *)
(* interrupts.  The device is modelled from how the driver uses it.         *)
(***************************************************************************)
EXTENDS Integers, FiniteSets

CONSTANTS NUM_RX, NUM_TX, Mod

RxRing == 0..(NUM_RX - 1)
TxRing == 0..(NUM_TX - 1)

VARIABLES
    rx,         \* the receive descriptors: DD, and the frame in the buffer
    rx_cur, rdh, rdt,
    polling,    \* e1000_poll is at work on rx_cur
    arrived, taken,     \* the numbers of the next frame to arrive and to reach the driver
    tx, tx_cur, tdh, tdt,
    accepted, wire      \* the numbers of the next frame to be sent and to leave

rxVars == <<rx, rx_cur, rdh, rdt, polling, arrived, taken>>
txVars == <<tx, tx_cur, tdh, tdt, accepted, wire>>
e1000Vars == <<rxVars, txVars>>

Slot == [dd : BOOLEAN, frame : 0..(Mod - 1)]

\* e1000_init: all receive descriptors but one are the NIC's, all transmit descriptors are done.
Init ==
    /\ rx = [i \in RxRing |-> [dd |-> FALSE, frame |-> 0]]
    /\ rx_cur = 0 /\ rdh = 0 /\ rdt = NUM_RX - 1 /\ polling = FALSE
    /\ arrived = 0 /\ taken = 0
    /\ tx = [i \in TxRing |-> [dd |-> TRUE, frame |-> 0]]
    /\ tx_cur = 0 /\ tdh = 0 /\ tdt = 0 /\ accepted = 0 /\ wire = 0

-----------------------------------------------------------------------------
(* Receiving *)

\* The NIC stores a frame; without a descriptor it loses it.
NicReceive ==
    /\ rdh # rdt
    /\ rx' = [rx EXCEPT ![rdh] = [dd |-> TRUE, frame |-> arrived]]
    /\ rdh' = (rdh + 1) % NUM_RX /\ arrived' = (arrived + 1) % Mod
    /\ UNCHANGED <<rx_cur, rdt, polling, taken, txVars>>

\* e1000_poll up to net_input, which reads the buffer of a frame that is whole.
PollInput ==
    /\ ~polling /\ rx[rx_cur].dd /\ polling' = TRUE
    /\ UNCHANGED <<rx, rx_cur, rdh, rdt, arrived, taken, txVars>>

\* Mutant: RDT is written after rx_cur has moved on.
ReturnNext ==
    /\ polling /\ polling' = FALSE
    /\ rx' = [rx EXCEPT ![rx_cur].dd = FALSE]
    /\ rx_cur' = (rx_cur + 1) % NUM_RX /\ rdt' = (rx_cur + 1) % NUM_RX
    /\ taken' = (taken + 1) % Mod
    /\ UNCHANGED <<rdh, arrived, txVars>>

\* The descriptor is handed back; DD is cleared first.
PollReturn ==
    /\ polling /\ polling' = FALSE
    /\ rx' = [rx EXCEPT ![rx_cur].dd = FALSE]
    /\ rx_cur' = (rx_cur + 1) % NUM_RX /\ rdt' = rx_cur
    /\ taken' = (taken + 1) % Mod
    /\ UNCHANGED <<rdh, arrived, txVars>>

-----------------------------------------------------------------------------
(* Sending *)

\* e1000_send; the frame is dropped when the descriptor has not been transmitted yet.
e1000_send ==
    /\ tx[tx_cur].dd
    /\ tx' = [tx EXCEPT ![tx_cur] = [@ EXCEPT !.dd = FALSE, !.frame = accepted]]
    /\ tx_cur' = (tx_cur + 1) % NUM_TX /\ tdt' = (tx_cur + 1) % NUM_TX
    /\ accepted' = (accepted + 1) % Mod
    /\ UNCHANGED <<tdh, wire, rxVars>>

NicTransmit ==
    /\ tdh # tdt
    /\ tx' = [tx EXCEPT ![tdh].dd = TRUE] /\ tdh' = (tdh + 1) % NUM_TX
    /\ wire' = (wire + 1) % Mod
    /\ UNCHANGED <<tx_cur, tdt, accepted, rxVars>>

Next == \/ NicReceive
        \/ PollInput \/ PollReturn \/ e1000_send \/ NicTransmit

Spec == Init /\ [][Next]_e1000Vars

-----------------------------------------------------------------------------

TypeOK ==
    /\ rx \in [RxRing -> Slot] /\ {rx_cur, rdh, rdt} \subseteq RxRing
    /\ tx \in [TxRing -> Slot] /\ {tx_cur, tdh, tdt} \subseteq TxRing
    /\ polling \in BOOLEAN
    /\ {arrived, taken, accepted, wire} \subseteq 0..(Mod - 1)

\* The frames in the ring, from the oldest, at the descriptors from rx_cur on.
Waiting == (rdh - rx_cur) % NUM_RX

\* The driver meets the frames in the order in which they came and misses none: exactly the
\* descriptors between rx_cur and RDH hold frames the driver has not had, in order, and the
\* one it is reading is not the NIC's (e1000_poll, the RDT convention of e1000_init).
RxInOrder ==
    /\ \A i \in RxRing : rx[i].dd <=> ((i - rx_cur) % NUM_RX) < Waiting
    /\ \A k \in 0..(Waiting - 1) : rx[(rx_cur + k) % NUM_RX].frame = (taken + k) % Mod
    /\ arrived = (taken + Waiting) % Mod
    /\ rdt = (rx_cur - 1) % NUM_RX

\* No frame is overwritten before the NIC has sent it: what leaves next is the oldest frame
\* accepted, "the descriptor we'd reuse hasn't been transmitted yet" (e1000_send).
TxNotOverwritten ==
    /\ tdh # tdt => tx[tdh].frame = wire /\ ~tx[tdh].dd
    /\ (\E i \in TxRing : ~tx[i].dd) => ~tx[tdh].dd
=============================================================================
