------------------------------- MODULE VmAbs --------------------------------
(***************************************************************************)
(* What virtual memory promises: every address space has a memory of its   *)
(* own.  A mapping starts zeroed, a fork starts with a copy, and nothing    *)
(* but its owner's own writes and calls ever changes it.  Frames, sharing,  *)
(* copy-on-write and the TLB are not visible here; VmSpace implements this.  *)
(***************************************************************************)
CONSTANTS Spaces, Pages, Values, Zero

VARIABLES
    live,       \* the address spaces that exist
    mem         \* the page of a space at an address: its contents, and whether it may be written

absVars == <<live, mem>>

Unmapped == [val |-> Zero, w |-> FALSE, mapped |-> FALSE]
Page(v, w) == [val |-> v, w |-> w, mapped |-> TRUE]

AbsInit ==
    /\ live = {}
    /\ mem = [s \in Spaces |-> [p \in Pages |-> Unmapped]]

\* Replace the pages P of s, each by F of what it was.
Change(s, P, F(_)) ==
    /\ s \in live /\ UNCHANGED live
    /\ \E own \in {mem[s]} :
          mem' = [mem EXCEPT ![s] = [p \in Pages |-> IF p \in P THEN F(own[p]) ELSE own[p]]]

Mapped(s) == {p \in Pages : mem[s][p].mapped}

Spawn(s) == s \notin live /\ live' = live \cup {s} /\ UNCHANGED mem

Map(s, P, w) == P \cap Mapped(s) = {} /\ Change(s, P, LAMBDA page : Page(Zero, w))

Unmap(s, P) == Change(s, P, LAMBDA page : Unmapped)

Protect(s, P, w) == P \subseteq Mapped(s) /\ Change(s, P, LAMBDA page : [page EXCEPT !.w = w])

Write(s, p, v) == mem[s][p].w /\ Change(s, {p}, LAMBDA page : [page EXCEPT !.val = v])

Fork(s, c) ==
    /\ s \in live /\ c \notin live
    /\ live' = live \cup {c}
    /\ mem' = [mem EXCEPT ![c] = mem[s]]

Exit(s) ==
    /\ s \in live /\ live' = live \ {s}
    /\ mem' = [mem EXCEPT ![s] = [p \in Pages |-> Unmapped]]

\* The pages a step of s changes: to say that it maps, protects or unmaps some set of pages
\* is to say that it does so to these.
Changed(s) == {p \in Pages : mem'[s][p] # mem[s][p]}

AbsNext ==
    \E s \in Spaces :
        \/ Spawn(s) \/ Exit(s)
        \/ \E c \in Spaces : Fork(s, c)
        \/ \E P \in {Changed(s)} :
              \/ \E w \in BOOLEAN : Map(s, P, w) \/ Protect(s, P, w)
              \/ Unmap(s, P)
              \/ \E p \in P, v \in Values : Write(s, p, v)

AbsSpec == AbsInit /\ [][AbsNext]_absVars
=============================================================================
