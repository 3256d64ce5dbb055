------------------------------ MODULE MCNet ---------------------------------
(***************************************************************************)
(* The network stack, a part at a time: netd and its wake-ups, the rings of *)
(* the NIC, address resolution, pings, the socket table, and TCP.  All run  *)
(* under net_lock and share nothing but frames, which each part takes from  *)
(* its environment in any order, so one behaviour is of one part.           *)
(***************************************************************************)
EXTENDS Tcp, Netd

CONSTANTS
    Parts,
    NUM_TX, Mod,
    Threads, OnLink, ARP_CACHE_SIZE,
    Seqs, PING_SLOTS,
    Ips, SOCK_MAX, UDP_RXQ_MAX, PORTS, EPHEMERAL, ANY

VARIABLES
    part,
    rx_ring, rx_cur, rdh, rdt, polling, arrived, taken, tx, tx_cur, tdh, tdt, accepted, wire,
    cache, arp_lock, ip_sender, ip_tx_buf, frame,
    pings, pinger, asked,
    socks, next_ephemeral, receiver

nic_vars == <<rx_ring, rx_cur, rdh, rdt, polling, arrived, taken, tx, tx_cur, tdh, tdt, accepted, wire>>
arp_vars == <<cache, arp_lock, ip_sender, ip_tx_buf, frame>>
icmp_vars == <<pings, pinger, asked>>
sock_vars == <<socks, next_ephemeral, receiver>>
netVars == <<part, ndVars, nic_vars, arp_vars, icmp_vars, sock_vars, tcpVars>>

Nic == INSTANCE E1000 WITH rx <- rx_ring, NUM_RX <- NUM_TX
Ip == INSTANCE Arp WITH net_lock <- arp_lock, sender <- ip_sender, Hosts <- OnLink
Ping == INSTANCE Icmp WITH Pingers <- Threads \cup {"shell"}, Dsts <- {"gateway"}
Udp == INSTANCE Socket WITH Threads <- {"app"}

NetInit == part \in Parts /\ NdInit /\ Nic!Init /\ Ip!Init /\ Ping!Init /\ Udp!Init
           /\ Init /\ (part # "tcp" => plan = CHOOSE p \in Plans : TRUE)

NetNext ==
    \/ part = "netd" /\ NdNext /\ UNCHANGED <<part, nic_vars, arp_vars, icmp_vars, sock_vars, tcpVars>>
    \/ part = "nic" /\ Nic!Next /\ UNCHANGED <<part, ndVars, arp_vars, icmp_vars, sock_vars, tcpVars>>
    \/ part = "ip" /\ Ip!Next /\ UNCHANGED <<part, ndVars, nic_vars, icmp_vars, sock_vars, tcpVars>>
    \/ part = "ping" /\ Ping!Next /\ UNCHANGED <<part, ndVars, nic_vars, arp_vars, sock_vars, tcpVars>>
    \/ part = "udp" /\ Udp!Next /\ UNCHANGED <<part, ndVars, nic_vars, arp_vars, icmp_vars, tcpVars>>
    \/ part = "tcp" /\ Next /\ UNCHANGED <<part, ndVars, nic_vars, arp_vars, icmp_vars, sock_vars>>

NetSpec == NetInit /\ [][NetNext]_netVars
TcpLiveSpec == NetSpec /\ TcpFairness

-----------------------------------------------------------------------------
(* The properties of the parts, besides those of Tcp and Netd; each has its comment in its module. *)

\* The rings of the NIC hold the frames in order and none is overwritten (e1000_poll,
\* e1000_send); a frame carries its sender's packet, though senders wait while they send
\* (ipv4_send).
FramesKept == /\ part = "nic" => Nic!TypeOK /\ Nic!RxInOrder /\ Nic!TxNotOverwritten
              /\ part = "ip" => Ip!TypeOK /\ Ip!FramesIntact
\* The tables are exact: one entry for an address, one thread for a ping slot, one socket for
\* a port, in a socket's queue only what was sent to it, and a listener counts its children
\* (arp_update, icmp_ping, bind, udp_input, handle_listen).
TablesExact ==
    CASE part = "ip" -> Ip!CacheExact
      [] part = "ping" -> Ping!TypeOK /\ Ping!SlotsExact
      [] part = "udp" -> Udp!TypeOK /\ Udp!PortsDistinct /\ Udp!QueueIsOwn
      [] part = "tcp" -> TypeOK /\ ListenerExact
      [] OTHER -> TRUE
\* Nobody sleeps in net_wait for what is already there: an address, a reply, a datagram, or what
\* a call on a stream socket waits for (arp_resolve, icmp_ping, recvfrom, tcp.c).
NetSleepersHaveReason ==
    CASE part = "ip" -> Ip!ArpWaiters
      [] part = "ping" -> Ping!PingersWait
      [] part = "udp" -> Udp!ReceiversWait
      [] part = "tcp" -> SleepersWaitForSomething
      [] OTHER -> TRUE

-----------------------------------------------------------------------------
(* The instances for TLC. *)
IssWrap == [t \in Tcbs |-> IF t = Client THEN M - 2 ELSE (5 * t) % M]
Patient(n, l) == [bytes |-> n, lens |-> {l}, patient |-> TRUE]
Hasty(n, l) == [bytes |-> n, lens |-> {l}, patient |-> FALSE]
Plan(c, s, k, f) == [c |-> c, s |-> s, kids |-> k, faults |-> f]
Programs == {Plan(Patient(2, 2), Patient(0, 2), 1, 1),      \* a transfer
             Plan(Patient(3, 3), Patient(0, 1), 1, 0),      \* a slow reader: the window closes
             Plan(Patient(1, 1), Patient(1, 1), 1, 0),      \* both write
             Plan(Hasty(1, 1), Hasty(0, 1), 1, 1),          \* anyone may close at any time
             Plan(Hasty(0, 1), Patient(0, 1), 2, 1)}        \* a client that gives up connecting
LivePrograms == {Plan(Patient(1, 1), Patient(0, 1), 1, 1),  \* a byte, on a network that loses
                 Plan(Patient(3, 3), Patient(0, 1), 1, 0),
                 Plan(Hasty(1, 1), Hasty(0, 1), 1, 0)}
AllParts == {"netd", "nic", "ip", "ping", "udp", "tcp"}
TcpPart == {"tcp"}
=============================================================================
