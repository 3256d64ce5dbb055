-------------------------------- MODULE Icmp --------------------------------
(***************************************************************************)
(* kernel/net/icmp.c: pings, each in a slot of its own, and the replies     *)
(* that netd matches with them.  A call of icmp_ping holds net_lock except  *)
(* in ipv4_send, which may wait for an address, and in its own wait; so it  *)
(* is cut there.  The network loses, delays and duplicates replies.         *)
(***************************************************************************)
EXTENDS Integers, FiniteSets

CONSTANTS
    Pingers, Dsts, Seqs,
    PING_SLOTS, NULL

Slots == 1..PING_SLOTS

VARIABLES
    pings,          \* the slots
    pinger,         \* where a thread is, and the slot it uses
    asked           \* the (destination, seq) for which a request has been sent

icmpVars == <<pings, pinger, asked>>

Init ==
    /\ pings = [i \in Slots |-> [used |-> FALSE, done |-> FALSE, dst |-> NULL, seq |-> NULL]]
    /\ pinger = [t \in Pingers |-> [pc |-> "idle", slot |-> NULL]]
    /\ asked = {}

FreeSlots == {i \in Slots : ~pings[i].used}
First(S) == CHOOSE i \in S : \A j \in S : i <= j

Leave(t) == pinger' = [pinger EXCEPT ![t] = [pc |-> "idle", slot |-> NULL]]
Release(i) == pings' = [pings EXCEPT ![i].used = FALSE]

\* icmp_ping up to ipv4_send; without a slot it returns -ENOBUFS.
icmp_ping(t, dst, seq) ==
    /\ pinger[t].pc = "idle" /\ FreeSlots # {}
    /\ LET i == First(FreeSlots)
       IN  /\ pings' = [pings EXCEPT ![i] = [used |-> TRUE, done |-> FALSE, dst |-> dst, seq |-> seq]]
           /\ pinger' = [pinger EXCEPT ![t] = [pc |-> "send", slot |-> i]]
    /\ UNCHANGED asked

\* ipv4_send has failed.
SendFails(t) ==
    /\ pinger[t].pc = "send" /\ Release(pinger[t].slot) /\ Leave(t) /\ UNCHANGED asked

\* The loop: the answer is there, or wait for ping_cond.
WaitLoop(t) ==
    IF pings[pinger[t].slot].done THEN Release(pinger[t].slot) /\ Leave(t)
    ELSE pinger' = [pinger EXCEPT ![t].pc = "asleep"] /\ UNCHANGED pings

\* ipv4_send has sent the request; it may have dropped net_lock first, but not since.
Sent(t) ==
    /\ pinger[t].pc = "send" /\ WaitLoop(t)
    /\ asked' = asked \cup {<<pings[pinger[t].slot].dst, pings[pinger[t].slot].seq>>}

\* Woken, by any reply; it sleeps on unless the reply was its own.
Resume(t) == pinger[t].pc = "woken" /\ WaitLoop(t) /\ UNCHANGED asked

\* The deadline.  An answer that has come meanwhile still counts, and either way the slot goes.
Deadline(t) ==
    /\ pinger[t].pc \in {"asleep", "woken"}
    /\ Release(pinger[t].slot) /\ Leave(t) /\ UNCHANGED asked

Matching(dst, seq) ==
    {i \in Slots : pings[i].used /\ ~pings[i].done /\ pings[i].seq = seq /\ pings[i].dst = dst}

Done(i) ==
    /\ pings' = [pings EXCEPT ![i].done = TRUE]
    /\ pinger' = [t \in Pingers |-> IF pinger[t].pc = "asleep" THEN [pinger[t] EXCEPT !.pc = "woken"]
                                    ELSE pinger[t]]

\* icmp_input for a reply to one of the requests sent so far, however late.
icmp_input(dst, seq) ==
    /\ <<dst, seq>> \in asked /\ Matching(dst, seq) # {}
    /\ Done(First(Matching(dst, seq)))
    /\ UNCHANGED asked

Next ==
    \/ \E t \in Pingers : \/ \E dst \in Dsts, seq \in Seqs : icmp_ping(t, dst, seq)
                          \/ SendFails(t) \/ Sent(t) \/ Resume(t) \/ Deadline(t)
    \/ \E dst \in Dsts, seq \in Seqs : icmp_input(dst, seq)

Spec == Init /\ [][Next]_icmpVars

-----------------------------------------------------------------------------

TypeOK ==
    /\ pings \in [Slots -> [used : BOOLEAN, done : BOOLEAN, dst : Dsts \cup {NULL}, seq : Seqs \cup {NULL}]]
    /\ pinger \in [Pingers -> [pc : {"idle", "send", "asleep", "woken"}, slot : Slots \cup {NULL}]]
    /\ asked \subseteq Dsts \X Seqs

\* A slot is in use exactly while one thread is in icmp_ping with it, on every path out.
SlotsExact ==
    \A i \in Slots : Cardinality({t \in Pingers : pinger[t].slot = i}) = IF pings[i].used THEN 1 ELSE 0

\* Nobody sleeps on a ping that has been answered.
PingersWait == \A t \in Pingers : pinger[t].pc = "asleep" => ~pings[pinger[t].slot].done
=============================================================================
