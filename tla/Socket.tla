------------------------------- MODULE Socket --------------------------------
(***************************************************************************)
(* The socket table of kernel/net/socket.c with the datagram sockets of     *)
(* udp.c: slots that are allocated, bound, connected, shut down, closed     *)
(* and reused while threads wait in recvfrom.  Every call holds net_lock    *)
(* except while it waits, so a call is one step, cut at net_wait.  What a   *)
(* stream socket does is in Tcp; here it takes a slot and a port.           *)
(*                                                                         *)
(* Ports are 0..PORTS-1, of which those from EPHEMERAL on are handed out in *)
(* turn; the counter has the width of a port and wraps.                     *)
(***************************************************************************)
EXTENDS Integers, Sequences, FiniteSets

CONSTANTS
    Threads, Ips,           \* Ips: the local addresses, but for ANY
    SOCK_MAX, UDP_RXQ_MAX,
    PORTS, EPHEMERAL,
    ANY, NULL

Fds == 0..(SOCK_MAX - 1)
Types == {"STREAM", "DGRAM"}
Ports == 0..(PORTS - 1)

VARIABLES
    socks,
    next_ephemeral,
    receiver        \* of a thread in recvfrom: the descriptor

sockVars == <<socks, next_ephemeral, receiver>>

Fresh(type) == [used |-> TRUE, type |-> type, bound |-> FALSE, lip |-> ANY, lport |-> 0,
                reuseaddr |-> FALSE, shares |-> FALSE, shut_rd |-> FALSE,
                dq |-> <<>>]

\* A slot that is not in use.  Nothing reads what a closed socket has left there.
Free == [Fresh("DGRAM") EXCEPT !.used = FALSE]

Out == [pc |-> "out", fd |-> NULL]

Init ==
    /\ socks = [fd \in Fds |-> Free]
    /\ next_ephemeral = EPHEMERAL
    /\ receiver = [t \in Threads |-> Out]

Used == {fd \in Fds : socks[fd].used}
Bound(type) == {fd \in Used : socks[fd].bound /\ socks[fd].type = type}
First(S) == CHOOSE i \in S : \A j \in S : i <= j

-----------------------------------------------------------------------------
(* Ports *)

sock_port_in_use(type, ip, port) ==
    \E fd \in Bound(type) : /\ socks[fd].lport = port
                            /\ socks[fd].lip = ANY \/ ip = ANY \/ socks[fd].lip = ip

After(p) == IF (p + 1) % PORTS = 0 THEN EPHEMERAL ELSE p + 1
Nth(k) == EPHEMERAL + ((next_ephemeral - EPHEMERAL + k) % (PORTS - EPHEMERAL))

\* The tries of the loop that find a free port; the counter goes round the ephemeral ports.
Tries(type) == {k \in 0..(PORTS - EPHEMERAL - 1) : ~sock_port_in_use(type, ANY, Nth(k))}

\* The port sock_ephemeral_port returns; there are more of them than sockets.
sock_ephemeral_port(type) == Nth(First(Tries(type)))

\* A socket that has no port yet gets one, as listen, connect and sendto do.
AutoBound(s, port) == [s EXCEPT !.lport = port, !.bound = TRUE]

Auto(fd) ==
    IF socks[fd].bound THEN socks' = socks /\ UNCHANGED next_ephemeral
    ELSE LET p == sock_ephemeral_port(socks[fd].type)
         IN  socks' = [socks EXCEPT ![fd] = AutoBound(@, p)] /\ next_ephemeral' = After(p)

-----------------------------------------------------------------------------
(* The calls *)

\* socket: the first free slot, cleared; EMFILE if there is none.
socket(type) ==
    /\ Used # Fds
    /\ LET fd == First(Fds \ Used) IN socks' = [socks EXCEPT ![fd] = Fresh(type)]
    /\ UNCHANGED <<next_ephemeral, receiver>>

\* bind; with SO_REUSEADDR a port that is in use will do.
bind(fd, ip, port) ==
    LET s == socks[fd]
        p == IF port = 0 THEN sock_ephemeral_port(s.type) ELSE port
    IN  /\ s.used /\ ~s.bound
        /\ next_ephemeral' = IF port = 0 THEN After(p) ELSE next_ephemeral
        /\ IF ~s.reuseaddr /\ sock_port_in_use(s.type, ip, p) THEN UNCHANGED socks
           ELSE socks' = [socks EXCEPT ![fd] = [s EXCEPT !.lip = ip, !.lport = p, !.bound = TRUE,
                                                         !.shares = s.reuseaddr]]
        /\ UNCHANGED receiver

\* listen, for the part of it that is not tcp_listen.
listen(fd) == socks[fd].used /\ socks[fd].type = "STREAM" /\ Auto(fd) /\ UNCHANGED receiver

\* connect and sendto of a datagram socket give it a port.  Where it is connected to only
\* decides where a datagram goes.
connect(fd) == socks[fd].used /\ socks[fd].type = "DGRAM" /\ Auto(fd) /\ UNCHANGED receiver

\* setsockopt of SO_REUSEADDR; a timeout only makes Timeout possible.
setsockopt(fd, on) ==
    /\ socks[fd].used
    /\ socks' = [socks EXCEPT ![fd].reuseaddr = on]
    /\ UNCHANGED <<next_ephemeral, receiver>>

\* pthread_cond_broadcast on the condition of a socket.
Woken(fd) == [t \in Threads |-> IF receiver[t].pc = "asleep" /\ receiver[t].fd = fd
                                THEN [receiver[t] EXCEPT !.pc = "woken"] ELSE receiver[t]]

\* shutdown of the receiving half.
shutdown(fd) ==
    /\ socks[fd].used
    /\ socks' = [socks EXCEPT ![fd].shut_rd = TRUE] /\ receiver' = Woken(fd)
    /\ UNCHANGED next_ephemeral

\* Mutant: nobody is woken.
CloseQuietly(fd) == receiver

WokenByClose(fd) == Woken(fd)

\* sock_close: the queue is freed and sleepers wake.
sock_close(fd) ==
    /\ socks[fd].used
    /\ socks' = [socks EXCEPT ![fd] = Free]
    /\ receiver' = WokenByClose(fd)
    /\ UNCHANGED next_ephemeral

-----------------------------------------------------------------------------
(* Receiving *)

\* Mutant: the address of a binding is not looked at.
AnyAddress(ip, port) == {fd \in Bound("DGRAM") : socks[fd].lport = port}

\* udp_lookup: the socket bound to the address, else the last one bound to any.
Exact(ip, port) == {fd \in Bound("DGRAM") : socks[fd].lport = port /\ socks[fd].lip = ip}
Wildcard(ip, port) == {fd \in Bound("DGRAM") : socks[fd].lport = port /\ socks[fd].lip = ANY}
udp_lookup(ip, port) ==
    IF Exact(ip, port) # {} THEN {First(Exact(ip, port))}
    ELSE {fd \in Wildcard(ip, port) : \A g \in Wildcard(ip, port) : g <= fd}

\* udp_input; a datagram without a socket, or with no room, is dropped.
udp_input(ip, port) ==
    /\ \E fd \in udp_lookup(ip, port) :
          /\ ~socks[fd].shut_rd /\ Len(socks[fd].dq) < UDP_RXQ_MAX
          /\ socks' = [socks EXCEPT ![fd].dq = Append(@, [ip |-> ip, port |-> port])]
          /\ receiver' = Woken(fd)
    /\ UNCHANGED next_ephemeral

\* The loop of recvfrom on what is now the socket of its slot.
RecvLoop(t, fd) ==
    LET s == socks[fd]
    IN  \/ /\ s.dq # <<>>
           /\ socks' = [socks EXCEPT ![fd].dq = Tail(@)] /\ receiver' = [receiver EXCEPT ![t] = Out]
        \/ /\ s.dq = <<>> /\ s.shut_rd
           /\ receiver' = [receiver EXCEPT ![t] = Out] /\ UNCHANGED socks
        \/ /\ s.dq = <<>> /\ ~s.shut_rd
           /\ receiver' = [receiver EXCEPT ![t].pc = "asleep", ![t].fd = fd] /\ UNCHANGED socks

recvfrom(t, fd) ==
    /\ receiver[t].pc = "out" /\ socks[fd].used /\ socks[fd].type = "DGRAM"
    /\ RecvLoop(t, fd) /\ UNCHANGED next_ephemeral

\* Back from net_wait: EBADF if the slot is free, else around again.
Resume(t) ==
    /\ receiver[t].pc = "woken"
    /\ IF socks[receiver[t].fd].used THEN RecvLoop(t, receiver[t].fd)
       ELSE receiver' = [receiver EXCEPT ![t] = Out] /\ UNCHANGED socks
    /\ UNCHANGED next_ephemeral

\* SO_RCVTIMEO has passed; a datagram that has come is still taken first.
Timeout(t) ==
    /\ receiver[t].pc = "asleep" /\ socks[receiver[t].fd].dq = <<>>
    /\ receiver' = [receiver EXCEPT ![t] = Out] /\ UNCHANGED <<socks, next_ephemeral>>

Next ==
    \/ \E type \in Types : socket(type)
    \/ \E fd \in Fds :
          \/ \E ip \in Ips \cup {ANY}, port \in 0..EPHEMERAL : bind(fd, ip, port)
          \/ listen(fd) \/ connect(fd) \/ shutdown(fd) \/ sock_close(fd)
          \/ \E b \in BOOLEAN : setsockopt(fd, b)
          \/ \E t \in Threads : recvfrom(t, fd)
    \/ \E ip \in Ips, port \in Ports \ {0} : udp_input(ip, port)
    \/ \E t \in Threads : Resume(t) \/ Timeout(t)

Spec == Init /\ [][Next]_sockVars

-----------------------------------------------------------------------------

Sock == [used : BOOLEAN, type : Types, bound : BOOLEAN, lip : Ips \cup {ANY}, lport : Ports,
         reuseaddr : BOOLEAN, shares : BOOLEAN, shut_rd : BOOLEAN,
         dq : Seq([ip : Ips, port : Ports])]

TypeOK ==
    /\ socks \in [Fds -> Sock] /\ next_ephemeral \in EPHEMERAL..(PORTS - 1)
    /\ receiver \in [Threads -> [pc : {"out", "asleep", "woken"}, fd : Fds \cup {NULL}]]

\* Two sockets of a type have one port only if their addresses differ or one asked to share
\* (bind, sock_ephemeral_port with its wrap).
PortsDistinct ==
    \A type \in Types : \A f, g \in Bound(type) :
        /\ f # g /\ socks[f].lport = socks[g].lport
        /\ socks[f].lip = socks[g].lip \/ ANY \in {socks[f].lip, socks[g].lip}
        => socks[f].shares \/ socks[g].shares

\* What waits in a socket was sent to it, not to the socket that had the slot before
\* (sock_alloc, sock_close, udp_lookup), and there is never more than the queue holds.
QueueIsOwn ==
    \A fd \in Used : /\ Len(socks[fd].dq) <= UDP_RXQ_MAX
                     /\ \A i \in 1..Len(socks[fd].dq) :
                           /\ socks[fd].bound /\ socks[fd].dq[i].port = socks[fd].lport
                           /\ socks[fd].lip \in {ANY, socks[fd].dq[i].ip}

\* Nobody sleeps in recvfrom on a socket that is closed, shut down or has a datagram.
ReceiversWait ==
    \A t \in Threads : receiver[t].pc = "asleep" =>
        LET s == socks[receiver[t].fd] IN s.used /\ ~s.shut_rd /\ s.dq = <<>>
=============================================================================
