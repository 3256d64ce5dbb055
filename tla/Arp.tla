-------------------------------- MODULE Arp ---------------------------------
(***************************************************************************)
(* Sending an IP packet: ipv4_send of kernel/net/ipv4.c with the address    *)
(* resolution of kernel/net/arp.c.  It resolves the next hop, which may     *)
(* drop net_lock to wait for a reply, then builds the packet in ip_tx_buf,  *)
(* which all senders share, and hands it to the device.  netd sends too,    *)
(* but never waits.                                                         *)
(*                                                                         *)
(* The cache is the sequence of its valid entries, the one closest to       *)
(* expiry first; all live equally long, so that is the order of their       *)
(* updates.  A packet is named after its sender.                            *)
(***************************************************************************)
EXTENDS Integers, Sequences, Functions, FiniteSets

CONSTANTS
    Threads, Hosts,
    ARP_CACHE_SIZE, NULL

Tasks == Threads \cup {"netd"}

VARIABLES
    cache,
    net_lock,       \* its holder
    sender,         \* where a sender is, and the next hop of its packet
    ip_tx_buf,
    frame           \* the last frame handed to the device: its sender and the packet in it

arpVars == <<cache, net_lock, sender, ip_tx_buf, frame>>

Idle == [pc |-> "idle", hop |-> NULL]

Init ==
    /\ cache = <<>> /\ net_lock = NULL /\ sender = [t \in Tasks |-> Idle]
    /\ ip_tx_buf = NULL /\ frame = [by |-> NULL, packet |-> NULL]

Known(ip) == ip \in Range(cache)
Goto(t, pc) == sender' = [sender EXCEPT ![t].pc = pc]

\* The order of the stages of ipv4_send.
Stage == [start |-> "resolve", resolve |-> "build", build |-> "send"]

-----------------------------------------------------------------------------
(* ipv4_send, under net_lock *)

Lock(t) ==
    /\ net_lock = NULL /\ net_lock' = t
    /\ \/ /\ sender[t].pc = "idle"
          /\ \E ip \in Hosts : sender' = [sender EXCEPT ![t] = [pc |-> Stage.start, hop |-> ip]]
       \/ sender[t].pc = "woken" /\ Goto(t, "again")
    /\ UNCHANGED <<cache, ip_tx_buf, frame>>

Unlock(t) == sender' = [sender EXCEPT ![t] = Idle] /\ net_lock' = NULL

\* arp_resolve: a request is broadcast for an unknown hop.  netd gives up (-EAGAIN), another
\* thread waits for arp_cond.
arp_resolve(t) ==
    /\ sender[t].pc = "resolve"
    /\ IF Known(sender[t].hop) THEN Goto(t, Stage.resolve) /\ UNCHANGED net_lock
       ELSE IF t = "netd" THEN Unlock(t)
       ELSE Goto(t, "asleep") /\ net_lock' = NULL
    /\ UNCHANGED <<cache, ip_tx_buf, frame>>

\* Back from net_wait: found, or the deadline has passed (-EHOSTUNREACH), or wait again.
Again(t) ==
    /\ sender[t].pc = "again"
    /\ \/ Known(sender[t].hop) /\ Goto(t, Stage.resolve) /\ UNCHANGED net_lock
       \/ ~Known(sender[t].hop) /\ Unlock(t)
       \/ ~Known(sender[t].hop) /\ Goto(t, "asleep") /\ net_lock' = NULL
    /\ UNCHANGED <<cache, ip_tx_buf, frame>>

\* The time slice of the wait is over: time for another request, or the deadline.
SliceOver(t) ==
    /\ sender[t].pc = "asleep" /\ Goto(t, "woken")
    /\ UNCHANGED <<cache, net_lock, ip_tx_buf, frame>>

Build(t) ==
    /\ sender[t].pc = "build" /\ ip_tx_buf' = t /\ Goto(t, Stage.build)
    /\ UNCHANGED <<cache, net_lock, frame>>

eth_send(t) ==
    /\ sender[t].pc = "send" /\ frame' = [by |-> t, packet |-> ip_tx_buf] /\ Unlock(t)
    /\ UNCHANGED <<cache, ip_tx_buf>>

-----------------------------------------------------------------------------
(* The cache, in netd under net_lock *)

\* arp_update: the entry of ip, else a free one, else the one closest to expiry.
Without(c, i) == SubSeq(c, 1, i - 1) \o SubSeq(c, i + 1, Len(c))
Updated(c, ip) ==
    LET rest == IF \E i \in DOMAIN c : c[i] = ip THEN Without(c, CHOOSE i \in DOMAIN c : c[i] = ip)
                ELSE IF Len(c) = ARP_CACHE_SIZE THEN Without(c, 1)
                ELSE c
    IN  Append(rest, ip)

\* arp_input from a known sender or for us, and the gleaning of ipv4_input; all waiters wake.
arp_update(ip) ==
    /\ net_lock = NULL
    /\ cache' = Updated(cache, ip)
    /\ sender' = [t \in Tasks |-> IF sender[t].pc = "asleep" THEN [sender[t] EXCEPT !.pc = "woken"]
                                    ELSE sender[t]]
    /\ UNCHANGED <<net_lock, ip_tx_buf, frame>>

\* arp_timer: the entries whose time has come, the oldest ones.
arp_timer ==
    /\ net_lock = NULL
    /\ \E k \in 1..Len(cache) : cache' = SubSeq(cache, k + 1, Len(cache))
    /\ UNCHANGED <<net_lock, sender, ip_tx_buf, frame>>

Send(t) == Lock(t) \/ arp_resolve(t) \/ Again(t) \/ SliceOver(t) \/ Build(t) \/ eth_send(t)

Next == \/ \E t \in Tasks : Send(t)
        \/ (\E ip \in Hosts : arp_update(ip)) \/ arp_timer

Spec == Init /\ [][Next]_arpVars

-----------------------------------------------------------------------------

TypeOK ==
    /\ cache \in Seq(Hosts) /\ net_lock \in Tasks \cup {NULL}
    /\ sender \in [Tasks -> [pc : {"idle", "resolve", "asleep", "woken", "again", "build", "send"},
                               hop : Hosts \cup {NULL}]]
    /\ ip_tx_buf \in Tasks \cup {NULL}

\* A frame carries the packet of its sender: "nothing can clobber it before eth_send"
\* (ipv4_send), although senders wait in the middle of sending.
FramesIntact == frame.by = frame.packet

\* Nobody waits for an address that is in the cache (arp_resolve against arp_update), and
\* netd waits for none.
ArpWaiters ==
    \A t \in Tasks : sender[t].pc = "asleep" => ~Known(sender[t].hop) /\ t # "netd"

\* The cache has one entry for an address at most (arp_update).
CacheExact == IsInjective(cache) /\ Len(cache) <= ARP_CACHE_SIZE
=============================================================================
