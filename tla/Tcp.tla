-------------------------------- MODULE Tcp ---------------------------------
(***************************************************************************)
(* The TCP of kernel/net/tcp.c: a client connects to a listener over a      *)
(* network that loses and reorders segments.                                *)
(*                                                                         *)
(* Everything runs under net_lock, which only net_wait gives up, so a step  *)
(* is one handler: a segment received by netd, a pass of tcp_timer, or a    *)
(* socket call up to where it sleeps or returns.  An operator of the code   *)
(* that changes a control block takes and returns a work record: the block, *)
(* the segments sent, and the wake-ups, counts and queueing it causes.      *)
(* Sequence numbers are taken modulo M.  A deadline is the fact that it is  *)
(* set: whether it has passed is the environment's choice at each pass.     *)
(* A byte is its number in the writer's stream.                             *)
(***************************************************************************)
EXTENDS Integers, FiniteSets, Sequences, SequencesExt

CONSTANTS
    M,                  \* 2^32, the modulus of sequence numbers
    TCP_BUF_SIZE, TCP_MSS, TCP_MAX_RETRIES,
    Backlog,
    NKIDS,              \* the blocks for the listener's children
    Iss,                \* new_iss() for each control block
    Plans,              \* what the programs at the two hosts do with a connection (the bytes each
                        \* writes, the lengths of its calls, and whether it is patient: has no
                        \* timeouts, and writes and reads to the end before it closes), how many
                        \* children the listener may spawn, how often the network may misbehave
    FLIGHT,             \* segments in the ring of the loopback device at most
    REORDER,            \* how far a segment may overtake others
    NULL

ASSUME TcpAssumption ==
    /\ M \in Nat /\ (M % 2) = 0 /\ 2 * (TCP_BUF_SIZE + 2) < M
    /\ TCP_MSS \in 1..TCP_BUF_SIZE /\ Backlog \in Nat \ {0}

Client == 0
Kids == 1..NKIDS
Tcbs == 0..NKIDS        \* in the order of allocation
Hosts == {"c", "s"}
Host(t) == IF t = Client THEN "c" ELSE "s"
Far(h) == IF h = "c" THEN "s" ELSE "c"

VARIABLES
    tcb,        \* the control blocks; FREE for one not allocated
    listener,   \* the LISTEN block: up, half_open, aq
    net,        \* the ring of the loopback device: segments and the hosts they are for
    call,       \* the call of the thread at a host, and whether it sleeps in net_wait
    handle,     \* the block of the host's connected socket
    sent, got,          \* history: the bytes accepted by send and returned by recv
    plan, faults        \* the programs, and how often the environment has misbehaved

tcpVars == <<tcb, listener, net, call, handle, sent, got, plan, faults>>

FREE == [state |-> "FREE"]
Used == {t \in Tcbs : tcb[t].state # "FREE"}
Idle == [op |-> "idle", left |-> 0, asleep |-> FALSE]

-----------------------------------------------------------------------------
(* Sequence space *)

Sub(a, b) == (a - b) % M
Add(a, n) == (a + n) % M
SeqGt(a, b) == Sub(a, b) \in 1..((M \div 2) - 1)
SeqGe(a, b) == a = b \/ SeqGt(a, b)
SeqLt(a, b) == ~SeqGe(a, b)

-----------------------------------------------------------------------------
(* Output *)

RcvWindow(t) == IF t.bufs THEN TCP_BUF_SIZE - Len(t.rb) ELSE 0

Work(t) == [t |-> t, out |-> <<>>, signal |-> FALSE, signal_parent |-> FALSE,
            half_open |-> 0, queued |-> FALSE]

\* F(x), for x the value of w: the operators below are applied one after the other.
Then(w, F(_)) == CHOOSE r \in {F(x) : x \in {w}} : TRUE

Signal(w) == [w EXCEPT !.signal = TRUE]

\* tcp_xmit: the acknowledgement and the window are those of the moment it is called.
tcp_xmit(work, seq, flags, data) ==
    Then(work, LAMBDA w :
    [w EXCEPT !.out = Append(@, [flags |-> flags, seq |-> seq,
                                 ack |-> IF "ACK" \in flags THEN w.t.rcv_nxt ELSE 0,
                                 window |-> RcvWindow(w.t), data |-> data]),
              !.t.last_adv_wnd = RcvWindow(w.t)])

\* tcp_rst_raw: a reset that belongs to no block.
tcp_rst_raw(seq, ack, with_ack) ==
    [flags |-> IF with_ack THEN {"RST", "ACK"} ELSE {"RST"}, seq |-> seq,
     ack |-> IF with_ack THEN ack ELSE 0, window |-> 0, data |-> <<>>]

can_send_data(s) == s \in {"ESTABLISHED", "CLOSE_WAIT", "FIN_WAIT_1", "LAST_ACK", "CLOSING"}

InFlight(t) == Sub(t.snd_nxt, t.snd_una)

\* One round of the loop of tcp_output: a segment within the window, or a probe of a closed one.
PushSegment(w) ==
    LET t == w.t
        in_flight == InFlight(t)
        unsent == Sub(Len(t.sb), in_flight)
        wnd == IF t.snd_wnd = 0 /\ in_flight = 0 /\ unsent > 0 THEN 1 ELSE t.snd_wnd
        n == CHOOSE k \in {unsent, TCP_MSS, wnd - in_flight} :
                 \A j \in {unsent, TCP_MSS, wnd - in_flight} : k <= j
    IN  IF t.fin_sent \/ unsent = 0 \/ in_flight >= wnd THEN w
        ELSE tcp_xmit([w EXCEPT !.t.snd_nxt = Add(@, n), !.t.rtx = TRUE], t.snd_nxt, {"ACK"},
                      SubSeq(t.sb, in_flight + 1, in_flight + n))

RECURSIVE PushAll(_)
PushAll(w) == Then(PushSegment(w), LAMBDA p : IF p.t.snd_nxt = w.t.snd_nxt THEN w ELSE PushAll(p))

\* tcp_output: as much data as the window allows, then the FIN once all of it has been sent.
PushFin(w) ==
    IF w.t.fin_queued /\ ~w.t.fin_sent /\ InFlight(w.t) = Len(w.t.sb)
    THEN tcp_xmit([w EXCEPT !.t.fin_seq = w.t.snd_nxt, !.t.snd_nxt = Add(@, 1),
                            !.t.fin_sent = TRUE, !.t.rtx = TRUE],
                  w.t.snd_nxt, {"FIN", "ACK"}, <<>>)
    ELSE w

tcp_output(w) == Then(w, LAMBDA x : IF can_send_data(x.t.state) THEN Then(PushAll(x), PushFin) ELSE x)

send_ack(w) == tcp_xmit(w, w.t.snd_nxt, {"ACK"}, <<>>)

Rearm(w) == [w EXCEPT !.t.rtx = @ \/ w.t.snd_una # w.t.snd_nxt]

\* Go back N: everything from snd_una again.
go_back_n(w) ==
    Then(tcp_output([w EXCEPT !.t.snd_nxt = w.t.snd_una,
                              !.t.fin_sent = @ /\ ~SeqGe(w.t.fin_seq, w.t.snd_una),
                              !.t.rtx = FALSE]), Rearm)

tcp_abort(w, err) ==
    [w EXCEPT !.t.err = err, !.t.state = "CLOSED", !.t.rtx = FALSE,
              !.signal = TRUE, !.signal_parent = w.t.parent]

-----------------------------------------------------------------------------
(* Input *)

\* accept_data: what finds room; the excess is dropped.
accept_data(t, data) ==
    IF ~t.bufs THEN t
    ELSE LET space == TCP_BUF_SIZE - Len(t.rb)
             n == IF Len(data) < space THEN Len(data) ELSE space
         IN  [t EXCEPT !.rb = @ \o SubSeq(data, 1, n), !.rcv_nxt = Add(@, n)]

SPENT == -1     \* dup_acks = -1000: duplicates are ignored until new data is acknowledged

\* A new block: tcb_alloc, with the fields handle_listen and tcp_connect give it.
NewTcb(t, state) ==
    [state |-> state, iss |-> Iss[t], snd_una |-> Iss[t], snd_nxt |-> Add(Iss[t], 1), snd_wnd |-> 0,
     irs |-> 0, rcv_nxt |-> 0, sb |-> <<>>, rb |-> <<>>, bufs |-> TRUE, last_adv_wnd |-> 0,
     fin_rcvd |-> FALSE, fin_queued |-> FALSE, fin_sent |-> FALSE, fin_seq |-> 0,
     rtx |-> TRUE, rtx_count |-> 0, dup_acks |-> 0, tw |-> FALSE, err |-> "0",
     parent |-> FALSE, owned |-> FALSE]

\* handle_listen for a SYN within the backlog: the child c and its SYN-ACK.
SynReceived(c, seg) ==
    tcp_xmit([Work([NewTcb(c, "SYN_RCVD") EXCEPT !.irs = seg.seq, !.rcv_nxt = Add(seg.seq, 1),
                                                !.snd_wnd = seg.window, !.parent = TRUE])
              EXCEPT !.half_open = 1],
             Iss[c], {"SYN", "ACK"}, <<>>)

handle_syn_sent(t, seg) ==
    LET w == Work(t)
        open == [t EXCEPT !.irs = seg.seq, !.rcv_nxt = Add(seg.seq, 1), !.snd_wnd = seg.window]
    IN  CASE "ACK" \in seg.flags /\ seg.ack # Add(t.iss, 1) ->
                 IF "RST" \in seg.flags THEN w
                 ELSE [w EXCEPT !.out = <<tcp_rst_raw(seg.ack, 0, FALSE)>>]
          [] "ACK" \in seg.flags /\ seg.ack = Add(t.iss, 1) /\ "RST" \in seg.flags ->
                 tcp_abort(w, "ECONNREFUSED")
          [] "ACK" \in seg.flags /\ seg.ack = Add(t.iss, 1) /\ "RST" \notin seg.flags
             /\ "SYN" \in seg.flags ->
                 Signal(send_ack(Work([open EXCEPT !.snd_una = seg.ack, !.state = "ESTABLISHED",
                                                   !.rtx = FALSE, !.rtx_count = 0])))
          [] "ACK" \notin seg.flags /\ "RST" \notin seg.flags /\ "SYN" \in seg.flags -> Work(open)
          [] OTHER -> w

process_ack(w, ack, window, pure_ack) ==
    LET t == w.t
        fin_acked == t.fin_sent /\ SeqGt(ack, t.fin_seq)
        data_acked == Sub(ack, t.snd_una) - (IF fin_acked THEN 1 ELSE 0)
        n == IF data_acked > Len(t.sb) THEN Len(t.sb) ELSE data_acked
        to == CASE ~fin_acked -> t.state
                [] t.state = "FIN_WAIT_1" -> "FIN_WAIT_2"
                [] t.state = "CLOSING" -> "TIME_WAIT"
                [] t.state = "LAST_ACK" -> "CLOSED"
                [] OTHER -> t.state
    IN  CASE SeqGt(ack, t.snd_nxt) -> send_ack(w)
          [] ~SeqGt(ack, t.snd_nxt) /\ ack = t.snd_una /\ pure_ack /\ window = t.snd_wnd
             /\ t.snd_nxt # t.snd_una ->
                 CASE t.dup_acks = SPENT -> w
                   [] t.dup_acks = 2 -> go_back_n([w EXCEPT !.t.dup_acks = SPENT])
                   [] OTHER -> [w EXCEPT !.t.dup_acks = @ + 1]
          [] ~SeqGt(ack, t.snd_nxt) /\ SeqGt(ack, t.snd_una) ->
                 Signal([w EXCEPT !.t = [t EXCEPT
                     !.dup_acks = 0, !.sb = SubSeq(@, n + 1, Len(@)), !.snd_una = ack,
                     !.rtx_count = 0, !.rtx = ack # t.snd_nxt, !.state = to,
                     !.tw = @ \/ (t.state # "TIME_WAIT" /\ to = "TIME_WAIT"), !.snd_wnd = window]])
          [] OTHER -> [w EXCEPT !.t.snd_wnd = window]

\* The payload of a segment in order, and the FIN once all of the payload has been taken.
TakeData(t, seg) ==
    IF seg.data # <<>> /\ t.state \in {"ESTABLISHED", "FIN_WAIT_1", "FIN_WAIT_2"} /\ ~t.fin_rcvd
    THEN accept_data(t, seg.data) ELSE t

AfterFin(t) ==
    CASE t.state = "ESTABLISHED" -> "CLOSE_WAIT"
      [] t.state = "FIN_WAIT_1" /\ t.fin_sent /\ t.snd_una = t.snd_nxt -> "TIME_WAIT"
      [] t.state = "FIN_WAIT_1" /\ ~(t.fin_sent /\ t.snd_una = t.snd_nxt) -> "CLOSING"
      [] t.state = "FIN_WAIT_2" -> "TIME_WAIT"
      [] OTHER -> t.state

TakeFin(t) == [t EXCEPT !.rcv_nxt = Add(@, 1), !.fin_rcvd = TRUE, !.state = AfterFin(t),
                        !.tw = @ \/ AfterFin(t) = "TIME_WAIT"]

TakePayload(w, seg) ==
    Then(TakeData(w.t, seg), LAMBDA t :
        LET all_data_taken == Len(t.rb) - Len(w.t.rb) = Len(seg.data)
        IN  Signal(send_ack([w EXCEPT !.t = IF "FIN" \in seg.flags /\ all_data_taken /\ ~t.fin_rcvd
                                            THEN TakeFin(t) ELSE t])))

\* Mutant: a segment is taken wherever it stands in the stream.
TakeOutOfOrder(w, seg) ==
    IF seg.data = <<>> /\ "FIN" \notin seg.flags THEN tcp_output(w) ELSE tcp_output(TakePayload(w, seg))

\* What follows the acknowledgement: payload, FIN, and data the window now allows.
AfterAck(w, seg) ==
    IF seg.data = <<>> /\ "FIN" \notin seg.flags THEN tcp_output(w)
    ELSE IF seg.seq # w.t.rcv_nxt THEN send_ack(w)
    ELSE tcp_output(TakePayload(w, seg))

Acked(w, seg) == IF w.t.state = "CLOSED" THEN Signal(w) ELSE AfterAck(w, seg)

handle_synchronized(t, seg) ==
    LET w == Work(t)
        wnd == IF RcvWindow(t) = 0 THEN 1 ELSE RcvWindow(t)
        est == Work([t EXCEPT !.snd_una = seg.ack, !.snd_wnd = seg.window, !.rtx = FALSE,
                              !.rtx_count = 0, !.state = "ESTABLISHED"])
        pure == seg.data = <<>> /\ "FIN" \notin seg.flags
    IN  CASE "RST" \in seg.flags ->
                 IF ~(SeqGe(seg.seq, t.rcv_nxt) /\ SeqLt(seg.seq, Add(t.rcv_nxt, wnd))) THEN w
                 ELSE IF t.state = "SYN_RCVD" /\ t.parent
                 THEN [w EXCEPT !.half_open = -1, !.t.parent = FALSE, !.t.state = "CLOSED"]
                 ELSE tcp_abort(w, "ECONNRESET")
          [] "RST" \notin seg.flags /\ "SYN" \in seg.flags ->
                 IF t.state = "SYN_RCVD" /\ seg.seq = t.irs
                 THEN tcp_xmit(w, t.iss, {"SYN", "ACK"}, <<>>)
                 ELSE send_ack(w)
          [] seg.flags \cap {"RST", "SYN", "ACK"} = {} -> w
          [] seg.flags \cap {"RST", "SYN", "ACK"} = {"ACK"} /\ t.state = "SYN_RCVD" ->
                 IF seg.ack # Add(t.iss, 1)
                 THEN [w EXCEPT !.out = <<tcp_rst_raw(seg.ack, 0, FALSE)>>]
                 ELSE AfterAck(IF t.parent THEN [est EXCEPT !.half_open = -1, !.queued = TRUE,
                                                            !.signal_parent = TRUE]
                               ELSE est, seg)
          [] OTHER -> Then(process_ack(w, seg.ack, seg.window, pure), LAMBDA x : Acked(x, seg))

-----------------------------------------------------------------------------
(* Steps *)

\* The environment's freedom is bounded: plan.faults times it may lose a segment, let one overtake
\* others, let a deadline pass while segments are in flight, or be out of sockets.
InTransit == net # <<>>
Fault(b) == /\ faults' = faults + (IF b THEN 1 ELSE 0) /\ faults' <= plan.faults
            /\ UNCHANGED plan

\* lo_send of the segments of host h; a full ring drops them.
Put(q, h, out) ==
    LET all == q \o [i \in 1..Len(out) |-> [to |-> Far(h), seg |-> out[i]]]
    IN  SubSeq(all, 1, IF Len(all) < FLIGHT THEN Len(all) ELSE FLIGHT)

\* The threads that the work on block t wakes from net_wait.
Woken(t, w) ==
    {h \in Hosts : \/ w.signal /\ w.t.owned /\ handle[h] = t /\ call[h].op \in {"connect", "send", "recv"}
                   \/ w.signal_parent /\ h = "s" /\ call[h].op = "accept"}

Wake(c, hs) == [h \in Hosts |-> IF h \in hs THEN [c[h] EXCEPT !.asleep = FALSE] ELSE c[h]]

\* netd hands segment i of those in flight to tcp_input.
Deliver(i) ==
    LET h == net[i].to
        seg == net[i].seg
        ends == {t \in Used : Host(t) = h /\ tcb[t].state # "CLOSED"}
        kid == listener.born + 1
        reset == IF "RST" \in seg.flags THEN <<>>
                 ELSE IF "ACK" \in seg.flags THEN <<tcp_rst_raw(seg.ack, 0, FALSE)>>
                 ELSE <<tcp_rst_raw(0, Add(seg.seq, Len(seg.data) + Cardinality(seg.flags \cap {"SYN", "FIN"})), TRUE)>>
        Reply(out) == net' = Put(RemoveAt(net, i), h, out)
        Finish(t, w) == /\ tcb' = [tcb EXCEPT ![t] = w.t]
                        /\ listener' = [listener EXCEPT !.half_open = @ + w.half_open,
                                                        !.aq = IF w.queued THEN Append(@, t) ELSE @,
                                                        !.born = IF t \in Used THEN @ ELSE t]
                        /\ Reply(w.out)
                        /\ call' = Wake(call, Woken(t, w))
    IN  /\ UNCHANGED <<handle, sent, got>>
        /\ \/ \E t \in ends :
                  \E w \in {IF tcb[t].state = "SYN_SENT" THEN handle_syn_sent(tcb[t], seg)
                            ELSE handle_synchronized(tcb[t], seg)} : Finish(t, w)
           \/ /\ ends = {} /\ h = "s" /\ listener.up /\ seg.flags = {"SYN"}
              /\ Len(listener.aq) + listener.half_open < Backlog /\ kid <= plan.kids
              /\ \E w \in {SynReceived(kid, seg)} : Finish(kid, w)
           \/ /\ ends = {} /\ h = "s" /\ listener.up
              /\ ~(seg.flags = {"SYN"} /\ Len(listener.aq) + listener.half_open < Backlog /\ kid <= plan.kids)
              /\ Reply(IF "ACK" \in seg.flags THEN reset ELSE <<>>)
              /\ UNCHANGED <<tcb, listener, call>>
           \/ /\ ends = {} /\ ~(h = "s" /\ listener.up)
              /\ Reply(reset) /\ UNCHANGED <<tcb, listener, call>>

Lose(i) == /\ net' = RemoveAt(net, i)
           /\ UNCHANGED <<tcb, listener, call, handle, sent, got>>

Orphan(t) == ~t.owned /\ ~t.parent

\* The retries are exhausted; a half-open child leaves its listener.
GiveUp(w) ==
    IF w.t.state = "SYN_RCVD" /\ w.t.parent
    THEN [tcp_abort(w, "ETIMEDOUT") EXCEPT !.half_open = -1, !.t.parent = FALSE]
    ELSE tcp_abort(w, "ETIMEDOUT")

\* The stages of a pass of tcp_timer over a block.
Retransmit(w) ==
    CASE w.t.rtx_count > TCP_MAX_RETRIES -> GiveUp(w)
      [] w.t.rtx_count <= TCP_MAX_RETRIES /\ w.t.state = "SYN_SENT" -> tcp_xmit(w, w.t.iss, {"SYN"}, <<>>)
      [] w.t.rtx_count <= TCP_MAX_RETRIES /\ w.t.state = "SYN_RCVD" -> tcp_xmit(w, w.t.iss, {"SYN", "ACK"}, <<>>)
      [] OTHER -> go_back_n(w)

ExpireTimeWait(w) == IF w.t.state = "TIME_WAIT" THEN Signal([w EXCEPT !.t.state = "CLOSED"]) ELSE w

ReleaseBuffers(w) ==
    IF w.t.state = "TIME_WAIT" THEN [w EXCEPT !.t.bufs = FALSE, !.t.sb = <<>>, !.t.rb = <<>>] ELSE w

Reap(w, tw_passed) ==
    IF w.t.state = "CLOSED" \/ (tw_passed /\ w.t.state # "TIME_WAIT") THEN [w EXCEPT !.t = FREE] ELSE w

\* The whole of it, the two deadlines of the block having passed or not.
TimerWork(t, rtx_passed, tw_passed) ==
    Then(IF rtx_passed THEN Retransmit(Work([t EXCEPT !.rtx_count = @ + 1])) ELSE Work(t), LAMBDA w :
    Then(IF tw_passed THEN ExpireTimeWait(w) ELSE w, LAMBDA x :
    IF Orphan(t) THEN Reap(ReleaseBuffers(x), tw_passed) ELSE x))

\* What the blocks up to t send when they are visited newest first.
RECURSIVE Newest(_, _)
Newest(out, t) == out[t] \o (IF t = 0 THEN <<>> ELSE Newest(out, t - 1))

\* A pass over all blocks, newest first; the deadlines in rtx and tw have passed.
TimerPass(rtx, tw) ==
    \E w \in {[t \in Used |-> TimerWork(tcb[t], t \in rtx, t \in tw)]} :
    LET Out(h) == Newest([t \in Tcbs |-> IF t \in Used /\ Host(t) = h THEN w[t].out ELSE <<>>], NKIDS)
    IN  /\ tcb' = [t \in Tcbs |-> IF t \in Used THEN w[t].t ELSE FREE]
        /\ listener' = [listener EXCEPT !.half_open = @ - Cardinality({t \in Used : w[t].half_open < 0})]
        /\ net' = Put(Put(net, "s", Out("s")), "c", Out("c"))
        /\ call' = Wake(call, UNION {Woken(t, w[t]) : t \in {u \in Used : w[u].t # FREE}})
        /\ UNCHANGED <<handle, sent, got>>

TcpTimer(rtx, tw) == TimerPass(rtx, tw) /\ Fault(rtx \cup tw # {} /\ InTransit)

-----------------------------------------------------------------------------
(* Socket calls, up to where they sleep or return *)

Enter(h, op, left, asleep) == call' = [call EXCEPT ![h] = [op |-> op, left |-> left, asleep |-> asleep]]
Return(h) == call' = [call EXCEPT ![h] = Idle]
Awake(h, op) == call[h].op = op /\ ~call[h].asleep
Connected(h) == call[h] = Idle /\ handle[h] # NULL

\* The work of a call on its own block: what it sends and what becomes of the block.
Own(h, t, work) == \E w \in {work} : /\ tcb' = [tcb EXCEPT ![t] = w.t]
                                     /\ net' = Put(net, h, w.out)
                                     /\ UNCHANGED listener

tcp_connect ==
    /\ call["c"].op = "start"
    /\ handle' = [handle EXCEPT !["c"] = Client]
    /\ Own("c", Client, tcp_xmit(Work([NewTcb(Client, "SYN_SENT") EXCEPT !.owned = TRUE]),
                                 Iss[Client], {"SYN"}, <<>>))
    /\ Enter("c", "connect", 0, TRUE)
    /\ UNCHANGED <<sent, got>>

\* tcp_connect goes on when it is woken, or when its deadline has passed.
ConnectReturns(timeout) ==
    LET t == tcb[Client]
    IN  /\ call["c"].op = "connect"
        /\ IF timeout THEN t.state = "SYN_SENT" ELSE ~call["c"].asleep
        /\ CASE t.state = "SYN_SENT" /\ ~timeout -> Enter("c", "connect", 0, TRUE) /\ UNCHANGED <<tcb, handle>>
             [] t.state = "ESTABLISHED" -> Return("c") /\ UNCHANGED <<tcb, handle>>
             [] OTHER -> /\ Return("c") /\ tcb' = [tcb EXCEPT ![Client] = FREE]
                         /\ handle' = [handle EXCEPT !["c"] = NULL]
        /\ UNCHANGED <<listener, net, sent, got>>

\* tcp_accept; without a free socket (slot = FALSE) the connection is reset.
AcceptLoop(slot) ==
    /\ IF listener.aq = <<>>
       THEN Enter("s", "accept", 0, TRUE) /\ UNCHANGED <<tcb, listener, net, handle>>
       ELSE LET c == Head(listener.aq)
                w == Work([tcb[c] EXCEPT !.parent = FALSE, !.owned = slot])
                r == tcp_xmit(w, w.t.snd_nxt, {"RST", "ACK"}, <<>>)
            IN  /\ listener' = [listener EXCEPT !.aq = Tail(@)]
                /\ Return("s")
                /\ tcb' = [tcb EXCEPT ![c] = IF slot THEN w.t ELSE [r.t EXCEPT !.state = "CLOSED"]]
                /\ net' = IF slot THEN net ELSE Put(net, "s", r.out)
                /\ handle' = IF slot THEN [handle EXCEPT !["s"] = c] ELSE handle
    /\ UNCHANGED <<sent, got>>

\* Bound: the listener is left alone once its last child has been accepted or is gone.
MoreToCome == listener.born < plan.kids \/ \E t \in Used : tcb[t].parent

tcp_accept(slot) ==
    /\ listener.up /\ MoreToCome
    /\ (call["s"] = Idle /\ handle["s"] = NULL) \/ Awake("s", "accept")
    /\ AcceptLoop(slot)

\* One round of tcp_send with so many bytes left; with bytes left over the buffer is full.
SendLoop(h, left) ==
    LET t == handle[h]
        space == TCP_BUF_SIZE - Len(tcb[t].sb)
        n == IF left < space THEN left ELSE space
        new == [i \in 1..n |-> Len(sent[t]) + i]
    IN  /\ IF tcb[t].err # "0" \/ tcb[t].state \notin {"ESTABLISHED", "CLOSE_WAIT"}
           THEN Return(h) /\ UNCHANGED <<tcb, listener, net, sent>>
           ELSE IF space = 0
           THEN Enter(h, "send", left, TRUE) /\ UNCHANGED <<tcb, listener, net, sent>>
           ELSE /\ Own(h, t, tcp_output(Work([tcb[t] EXCEPT !.sb = @ \o new])))
                /\ sent' = [sent EXCEPT ![t] = @ \o new]
                /\ IF n = left THEN Return(h) ELSE Enter(h, "send", left - n, TRUE)
        /\ UNCHANGED <<handle, got>>

tcp_send(h) ==
    \/ /\ Connected(h) /\ ~tcb[handle[h]].fin_queued
       /\ \E n \in plan[h].lens : Len(sent[handle[h]]) + n <= plan[h].bytes /\ SendLoop(h, n)
    \/ Awake(h, "send") /\ SendLoop(h, call[h].left)

\* recv would return 0.
AtEof(t) == /\ tcb[t].owned /\ tcb[t].rb = <<>> /\ tcb[t].err = "0"
            /\ tcb[t].fin_rcvd \/ tcb[t].state = "CLOSED"

\* One round of tcp_recv.
RecvLoop(h, len) ==
    LET t == handle[h]
        b == tcb[t]
        n == IF len < Len(b.rb) THEN len ELSE Len(b.rb)
        w == Work([b EXCEPT !.rb = SubSeq(@, n + 1, Len(@))])
        update == /\ can_send_data(b.state) \/ b.state = "FIN_WAIT_2"
                  /\ b.last_adv_wnd < TCP_MSS /\ RcvWindow(w.t) >= TCP_MSS
    IN  /\ IF b.rb # <<>>
           THEN /\ Own(h, t, IF update THEN send_ack(w) ELSE w)
                /\ got' = [got EXCEPT ![t] = @ \o SubSeq(b.rb, 1, n)]
                /\ Return(h)
           ELSE IF b.err # "0" \/ AtEof(t)
           THEN Return(h) /\ UNCHANGED <<tcb, listener, net, got>>
           ELSE Enter(h, "recv", len, TRUE) /\ UNCHANGED <<tcb, listener, net, got>>
        /\ UNCHANGED <<handle, sent>>

tcp_recv(h) ==
    \/ Connected(h) /\ \E n \in plan[h].lens : RecvLoop(h, n)
    \/ Awake(h, "recv") /\ RecvLoop(h, call[h].left)

\* SO_RCVTIMEO or SO_SNDTIMEO has passed: EAGAIN, or the bytes sent so far.
Timeout(h) ==
    /\ call[h].op \in {"accept", "send", "recv"} /\ call[h].asleep /\ ~plan[h].patient
    /\ Return(h) /\ UNCHANGED <<tcb, listener, net, handle, sent, got>>

\* The FIN is queued behind the data (tcp_shutdown with SHUT_WR, and tcp_close).
QueueFin(t) ==
    LET to == CASE t.state = "ESTABLISHED" -> "FIN_WAIT_1"
                [] t.state = "CLOSE_WAIT" -> "LAST_ACK"
                [] OTHER -> t.state
    IN  IF to = t.state THEN Work(t)
        ELSE tcp_output(Work([t EXCEPT !.fin_queued = TRUE, !.state = to]))

tcp_shutdown(h) ==
    /\ Connected(h) /\ tcb[handle[h]].state \in {"ESTABLISHED", "CLOSE_WAIT"}
    /\ plan[h].patient => Len(sent[handle[h]]) = plan[h].bytes
    /\ Own(h, handle[h], QueueFin(tcb[handle[h]]))
    /\ UNCHANGED <<call, handle, sent, got>>

\* Mutant: no deadline is set.
LingerForever(t) == [t EXCEPT !.owned = FALSE]

\* The connection is orphaned, and lingers for TCP_ORPHAN_LINGER_MS at most.
Linger(t) == [t EXCEPT !.owned = FALSE, !.tw = TRUE]

tcp_close(h) ==
    LET t == handle[h]
        o == Linger(tcb[t])
        r == tcp_xmit(Work(o), o.snd_nxt, {"RST", "ACK"}, <<>>)
    IN  /\ Connected(h)
        /\ ~plan[h].patient \/ tcb[t].err # "0" \/ AtEof(t)
        /\ handle' = [handle EXCEPT ![h] = NULL]
        /\ Own(h, t, CASE o.state = "CLOSED" -> Work(FREE)
                       [] o.state # "CLOSED" /\ o.rb # <<>> /\ ~o.fin_rcvd -> [r EXCEPT !.t.state = "CLOSED"]
                       [] OTHER -> QueueFin(o))
        /\ UNCHANGED <<call, sent, got>>

\* tcp_close of the listener resets every connection it has spawned and nobody has accepted.
CloseListener ==
    LET spawned == {t \in Used : tcb[t].parent}
        r == [t \in spawned |-> tcp_xmit(Work(tcb[t]), tcb[t].snd_nxt, {"RST", "ACK"}, <<>>)]
        out == Newest([t \in Tcbs |-> IF t \in spawned /\ tcb[t].state # "CLOSED" THEN r[t].out ELSE <<>>], NKIDS)
    IN  /\ listener.up /\ call["s"] = Idle /\ MoreToCome /\ ~plan["s"].patient
        /\ listener' = [listener EXCEPT !.up = FALSE, !.half_open = 0, !.aq = <<>>]
        /\ tcb' = [t \in Tcbs |-> IF t \in spawned
                                  THEN [tcb[t] EXCEPT !.state = "CLOSED", !.parent = FALSE] ELSE tcb[t]]
        /\ net' = Put(net, "s", out)
        /\ UNCHANGED <<call, handle, sent, got>>

-----------------------------------------------------------------------------

Init ==
    /\ tcb = [t \in Tcbs |-> FREE]
    /\ listener = [up |-> TRUE, half_open |-> 0, aq |-> <<>>, born |-> 0]
    /\ net = <<>>
    /\ call = [c |-> [Idle EXCEPT !.op = "start"], s |-> Idle]
    /\ handle = [h \in Hosts |-> NULL]
    /\ sent = [t \in Tcbs |-> <<>>] /\ got = [t \in Tcbs |-> <<>>]
    /\ plan \in Plans /\ faults = 0

Arrive == \E i \in 1..Len(net) : i <= 1 + REORDER /\ Deliver(i) /\ Fault(i > 1)
Vanish == \E i \in 1..Len(net) : Lose(i) /\ Fault(TRUE)

Timers == \E rtx \in SUBSET {t \in Used : tcb[t].rtx}, tw \in SUBSET {t \in Used : tcb[t].tw} :
              TcpTimer(rtx, tw)

\* What the programs do of their own accord; of these, a patient program goes on with its work.
Program(h) == Fault(FALSE) /\ (tcp_send(h) \/ tcp_recv(h) \/ tcp_close(h))
Server == \E slot \in BOOLEAN : tcp_accept(slot) /\ Fault(~slot)
Connecting == \E timeout \in BOOLEAN : ConnectReturns(timeout) /\ Fault(timeout /\ InTransit)

Next ==
    \/ Arrive \/ Vanish \/ Timers \/ Connecting \/ Server
    \/ Fault(FALSE) /\ (tcp_connect \/ CloseListener)
    \/ \E h \in Hosts : \/ Program(h)
                        \/ tcp_shutdown(h) /\ Fault(FALSE)
                        \/ Timeout(h) /\ Fault(InTransit)

Spec == Init /\ [][Next]_tcpVars

-----------------------------------------------------------------------------
(* Properties *)

States == {"SYN_SENT", "SYN_RCVD", "ESTABLISHED", "FIN_WAIT_1", "FIN_WAIT_2", "CLOSE_WAIT", "CLOSING",
           "LAST_ACK", "TIME_WAIT", "CLOSED"}

\* Blocks, queues and calls keep their ranges (struct tcb in sock.h).
TypeOK ==
    /\ \A t \in Used :
           /\ tcb[t].state \in States
           /\ Len(tcb[t].sb) <= TCP_BUF_SIZE /\ Len(tcb[t].rb) <= TCP_BUF_SIZE
           /\ {tcb[t].snd_una, tcb[t].snd_nxt, tcb[t].rcv_nxt, tcb[t].fin_seq} \subseteq 0..(M - 1)
           /\ tcb[t].rtx_count \in 0..(TCP_MAX_RETRIES + 1) /\ tcb[t].dup_acks \in {SPENT, 0, 1, 2}
    /\ listener.half_open \in 0..Backlog /\ Len(listener.aq) <= Backlog
    /\ Len(net) <= FLIGHT
    /\ \A h \in Hosts : handle[h] \in Used \cup {NULL}

\* The block at the other end of a connection: the client's is the child whose SYN-ACK it took.
PeerOf(t) == IF t \in Kids THEN {Client}
             ELSE {k \in Kids : t \in Used /\ tcb[t].irs = Iss[k]}

\* What recv has returned is a prefix of what the other end's send accepted, in order and
\* without gaps or repetitions, and end of file is returned only after all of it and only
\* if the other end has finished writing: whatever was lost, overtaken or sent again
\* (process_ack, accept_data, go_back_n, tcp_recv).
StreamIntact ==
    \A t \in Used : \A p \in PeerOf(t) :
        /\ got[t] # <<>> => IsPrefix(got[t], sent[p])
        /\ AtEof(t) => got[t] = sent[p]

\* The listener's counts are those of its children: half_open the ones in SYN_RCVD, the accept
\* queue the others, each once, the two together within the backlog (handle_listen,
\* handle_synchronized, tcp_timer, tcp_accept, tcp_close).
ListenerExact ==
    LET spawned == {t \in Used : tcb[t].parent}
        half_open == {t \in spawned : tcb[t].state = "SYN_RCVD"}
    IN  /\ listener.half_open = Cardinality(half_open)
        /\ ToSet(listener.aq) = spawned \ half_open /\ IsInjective(listener.aq)
        /\ Cardinality(spawned) <= Backlog
        /\ ~listener.up => spawned = {}

\* A thread asleep in net_wait has been forgotten by nobody: the condition its loop waits for
\* does not hold (the tcb_signal calls against the loops of connect, accept, send and recv).
SleepersWaitForSomething ==
    \A h \in Hosts : call[h].asleep =>
        LET t == tcb[handle[h]]
        IN  CASE call[h].op = "accept" -> listener.aq = <<>>
              [] call[h].op = "connect" -> t.state = "SYN_SENT"
              [] call[h].op = "send" -> /\ t.err = "0" /\ t.state \in {"ESTABLISHED", "CLOSE_WAIT"}
                                        /\ Len(t.sb) = TCP_BUF_SIZE
              [] call[h].op = "recv" -> t.rb = <<>> /\ t.err = "0" /\ ~AtEof(handle[h])

-----------------------------------------------------------------------------
(* Liveness *)

\* netd drains the ring and calls tcp_timer every pass, with every deadline in the past sooner
\* or later; a patient program goes on as soon as it can.
DeadlinesPass == TcpTimer({t \in Used : tcb[t].rtx}, {t \in Used : tcb[t].tw})

TcpFairness ==
    /\ WF_tcpVars(Arrive) /\ WF_tcpVars(DeadlinesPass)
    /\ WF_tcpVars(Connecting) /\ WF_tcpVars(Server)
    /\ \A h \in Hosts : WF_tcpVars(plan[h].patient /\ Program(h))

\* Whatever happens, a point is reached again at which the timer has reaped every block that no
\* socket and no listener holds, and every byte send has accepted has reached a reader at the
\* other end, or an end of the connection has given it up (go_back_n, the probe of a closed
\* window and its update, the deadlines of tcp_timer, the linger of tcp_close).
Settles ==
    []<>\A t \in Used :
          /\ ~Orphan(tcb[t])
          /\ \/ \E p \in PeerOf(t) : p \notin Used \/ Len(got[p]) >= Len(sent[t])
             \/ sent[t] = <<>> \/ tcb[t].err # "0" \/ \E h \in Hosts : ~plan[h].patient
=============================================================================
