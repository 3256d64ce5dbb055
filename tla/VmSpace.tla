------------------------------ MODULE VmSpace -------------------------------
(***************************************************************************)
(* Per-process address spaces with copy-on-write (kernel/mm/vmspace.c),     *)
(* the frame reference counts (page.c), the frame allocator (pmm.c), brk,   *)
(* mmap, munmap and mprotect (uvm.c) and the page-fault handler (idt.c).    *)
(*                                                                         *)
(* Virtual pages are numbered: 1..HeapMax is the heap arena that brk moves  *)
(* in, HeapMax+1..ArenaEnd the mmap arena.  The three levels of tables      *)
(* below the PML4 are one table per arena here.  Each process has a space   *)
(* of its own; the calls run with interrupts off and are one step each.     *)
(* The CPU's TLB is state of the model: an entry stays until it is flushed. *)
(***************************************************************************)
EXTENDS Integers, FiniteSets, Functions

CONSTANTS
    Spaces,             \* memory for address_space_t, one per process
    NoSpace,            \* no user process is running
    NFrames,            \* physical frames 1..NFrames
    HeapMax, ArenaEnd,
    Values,             \* what a program can write to a page; 0 is the zeroed page
    Garbage,            \* the contents of a frame that is free or holds a table
    MprotectUnshared    \* programs call mprotect only where no fork has shared the page

ASSUME VmAssumption ==
    /\ NFrames \in Nat /\ HeapMax \in Nat /\ ArenaEnd \in Nat /\ HeapMax <= ArenaEnd
    /\ NoSpace \notin Spaces /\ IsFiniteSet(Spaces)
    /\ Cardinality(Spaces) < 65535      \* PID_MAX processes: a count never saturates
    /\ 0 \in Values /\ Garbage \in Values \ {0}
    /\ MprotectUnshared \in BOOLEAN

Frames == 1..NFrames
Pages == 1..ArenaEnd
Arenas == {"heap", "mmap"}
Arena(p) == IF p <= HeapMax THEN "heap" ELSE "mmap"

VARIABLES
    used,           \* the frames the bitmap of pmm.c calls used, tables apart
    tables,         \* the number of frames it calls used that hold PML4s and tables
    refcount,       \* page.c's count of a frame
    data,           \* the contents of a frame
    live,           \* the spaces with a PML4
    table,          \* the arenas of a space that have a table
    pt,             \* the leaf entries: frame (0 = not present), WRITABLE, COW
    brk_cur,        \* pages of heap (brk_start is 0)
    mmap_cur,       \* the last page given out in the mmap arena
    active,         \* the space in CR3
    tlb             \* the CPU's cached translations of the active space

physical == <<used, tables, refcount, data>>
vars == <<used, tables, refcount, data, live, table, pt, brk_cur, mmap_cur, active, tlb>>

Pte(f, w, c) == [frame |-> f, w |-> w, cow |-> c]
NotPresent == Pte(0, FALSE, FALSE)
NoEntry == [frame |-> 0, w |-> FALSE]
Flushed == [p \in Pages |-> NoEntry]

TypeOK ==
    /\ used \subseteq Frames /\ tables \in 0..(NFrames - Cardinality(used))
    /\ refcount \in [Frames -> Nat] /\ data \in [Frames -> Values]
    /\ live \subseteq Spaces /\ table \in [Spaces -> SUBSET Arenas]
    /\ pt \in [Spaces -> [Pages -> [frame : Frames \cup {0}, w : BOOLEAN, cow : BOOLEAN]]]
    /\ brk_cur \in [Spaces -> 0..HeapMax] /\ mmap_cur \in [Spaces -> HeapMax..ArenaEnd]
    /\ active \in Spaces \cup {NoSpace}
    /\ tlb \in [Pages -> [frame : Frames \cup {0}, w : BOOLEAN]]

Init ==
    /\ used = {} /\ tables = 0
    /\ refcount = [f \in Frames |-> 0] /\ data = [f \in Frames |-> Garbage]
    /\ live = {} /\ table = [s \in Spaces |-> {}]
    /\ pt = [s \in Spaces |-> [p \in Pages |-> NotPresent]]
    /\ brk_cur = [s \in Spaces |-> 0] /\ mmap_cur = [s \in Spaces |-> HeapMax]
    /\ active = NoSpace /\ tlb = Flushed

Present(s) == {p \in Pages : pt[s][p].frame # 0}
Mappers(f) == {x \in Spaces \X Pages : pt[x[1]][x[2]].frame = f}

-----------------------------------------------------------------------------
(* Frames.                                                                  *)

\* Tables and pages come from one pool; which frame a table is in does not matter here.
Left(u, n) == NFrames - Cardinality(u) - n

\* The state that a call works on.
Memory(s) == [ok |-> TRUE, used |-> used, tables |-> tables, refcount |-> refcount,
              data |-> data, table |-> table[s], pt |-> pt[s]]

\* A frame for each page of P.  Which of the free ones does not matter here (Pmm has that).
pmm_alloc_page(m, P) == CHOOSE g \in Injection(P, Frames \ m.used) : TRUE

\* For each page of P, drop its entry's reference to its frame: the last one frees it.
page_decref(m, P) ==
    LET dropped == [f \in Frames |-> Cardinality({p \in P : m.pt[p].frame = f})]
        freed == {f \in Frames : dropped[f] > 0 /\ m.refcount[f] <= dropped[f]}
    IN  [m EXCEPT !.refcount = [f \in Frames |-> IF f \in freed THEN 0 ELSE @[f] - dropped[f]],
                  !.used = @ \ freed,
                  !.data = [f \in Frames |-> IF f \in freed THEN Garbage ELSE @[f]]]

-----------------------------------------------------------------------------
(* Mapping.                                                                 *)

\* The tables that ensure() has to make for the pages P, and the state with them.
Missing(m, P) == {Arena(p) : p \in P} \ m.table
ensure(m, T) == [m EXCEPT !.table = @ \cup T, !.tables = @ + Cardinality(T)]

\* Map each page p of P to g[p].  The calls map only pages above brk_cur or mmap_cur, where
\* nothing is mapped (AboveFree), so there is never an old frame to release.
vmspace_map(m, P, g, w) ==
    [ensure(m, Missing(m, P)) EXCEPT !.pt = [p \in Pages |-> IF p \in P THEN Pte(g[p], w, FALSE)
                                                           ELSE @[p]]]

\* Mutant: the frames keep their references.
vmspace_unmap_no_decref(m, P) ==
    [m EXCEPT !.pt = [p \in Pages |-> IF p \in P THEN NotPresent ELSE @[p]]]

\* Each page of P; a hole is no error.
vmspace_unmap(m, P) ==
    [page_decref(m, P) EXCEPT !.pt = [p \in Pages |-> IF p \in P THEN NotPresent ELSE @[p]]]

\* Mutant: the frames keep what they held.
map_page_dirty(m, g, P) ==
    [m EXCEPT !.used = @ \cup {g[p] : p \in P},
              !.refcount = [f \in Frames |-> IF f \in {g[p] : p \in P} THEN 1 ELSE @[f]]]

\* A frame for each page of P, with one reference and zeroed.
map_page(m, g, P) ==
    [m EXCEPT !.used = @ \cup {g[p] : p \in P},
              !.refcount = [f \in Frames |-> IF f \in {g[p] : p \in P} THEN 1 ELSE @[f]],
              !.data = [f \in Frames |-> IF f \in {g[p] : p \in P} THEN 0 ELSE @[f]]]

\* All or nothing: when the frames run out, the pages the call has mapped are unmapped again.
\* A table it has made, once there were frames for it and for the first page, stays.
map_anon(m, P, w) ==
    LET g == pmm_alloc_page(m, P)
        left == Left(m.used, m.tables)
        missing == Missing(m, P)
    IN  IF left >= Cardinality(P) + Cardinality(missing)
        THEN vmspace_map(map_page(m, g, P), P, g, w)
        ELSE [(IF left > Cardinality(missing) THEN ensure(m, missing) ELSE m) EXCEPT !.ok = FALSE]

\* Put a call's result in the state of the calling process's space s.
Commit(s, m) ==
    /\ used' = m.used /\ tables' = m.tables /\ refcount' = m.refcount /\ data' = m.data
    /\ table' = [table EXCEPT ![s] = m.table] /\ pt' = [pt EXCEPT ![s] = m.pt]

\* invlpg of the pages P, issued when s is the active space.
Invlpg(P) == tlb' = [p \in Pages |-> IF p \in P THEN NoEntry ELSE tlb[p]]

-----------------------------------------------------------------------------
(* The calls of the running process.                                        *)

uvm_brk(newbrk) ==
    /\ active # NoSpace /\ newbrk # brk_cur[active]
    /\ LET grow == (brk_cur[active] + 1)..newbrk
           shrink == (newbrk + 1)..brk_cur[active]
           m == IF newbrk > brk_cur[active] THEN map_anon(Memory(active), grow, TRUE)
                                            ELSE vmspace_unmap(Memory(active), shrink)
       IN  /\ Commit(active, m) /\ Invlpg(shrink)
           /\ brk_cur' = [brk_cur EXCEPT ![active] = IF m.ok THEN newbrk ELSE @]
    /\ UNCHANGED <<live, mmap_cur, active>>

uvm_mmap(len, w) ==
    /\ active # NoSpace /\ mmap_cur[active] + len <= ArenaEnd
    /\ LET m == map_anon(Memory(active), (mmap_cur[active] + 1)..(mmap_cur[active] + len), w)
       IN  /\ Commit(active, m)
           /\ mmap_cur' = [mmap_cur EXCEPT ![active] = IF m.ok THEN @ + len ELSE @]
    /\ UNCHANGED <<live, brk_cur, active, tlb>>

\* Mutant: the TLB keeps the entries.
uvm_munmap_unflushed(P) ==
    /\ active # NoSpace
    /\ Commit(active, vmspace_unmap(Memory(active), P))
    /\ UNCHANGED <<live, brk_cur, mmap_cur, active, tlb>>

uvm_munmap(P) ==
    /\ active # NoSpace
    /\ Commit(active, vmspace_unmap(Memory(active), P)) /\ Invlpg(P \cap Present(active))
    /\ UNCHANGED <<live, brk_cur, mmap_cur, active>>

\* A COW page stays COW and is not made writable.
vmspace_protect(e, w) == Pte(e.frame, w /\ ~e.cow, e.cow)

\* The pages before the first hole are changed, then the call fails.
uvm_mprotect(P, w) ==
    LET changed == {p \in P : \A q \in P : q <= p => q \in Present(active)}
    IN  /\ active # NoSpace
        /\ MprotectUnshared =>
             \A p \in changed : LET e == pt[active][p] IN
                                IF w THEN e.cow \/ refcount[e.frame] = 1 ELSE ~e.cow
        /\ pt' = [pt EXCEPT ![active] =
                    [p \in Pages |-> IF p \in changed THEN vmspace_protect(@[p], w) ELSE @[p]]]
        /\ Invlpg(changed)
        /\ UNCHANGED <<physical, live, table, brk_cur, mmap_cur, active>>

-----------------------------------------------------------------------------
(* Creating, forking and destroying a space.                                *)

vmspace_create(s) ==
    /\ s \notin live /\ Left(used, tables) > 0
    /\ live' = live \cup {s} /\ tables' = tables + 1
    /\ UNCHANGED <<used, refcount, data, table, pt, brk_cur, mmap_cur, active, tlb>>

\* What copy_level makes of a leaf, in the parent and in the child.
copy_leaf(e) == Pte(e.frame, FALSE, e.cow \/ e.w)

\* The parent's entries once the arenas A have been copied.
Copied(s, A) == [p \in Pages |-> IF Arena(p) \in A THEN copy_leaf(pt[s][p]) ELSE pt[s][p]]

vmspace_fork(c) ==
    LET s == active
    IN  /\ s # NoSpace /\ c \notin live /\ Left(used, tables) > Cardinality(table[s])
        /\ live' = live \cup {c}
        /\ table' = [table EXCEPT ![c] = table[s]]
        /\ tables' = tables + 1 + Cardinality(table[s])
        /\ refcount' = [f \in Frames |->
                          refcount[f] + Cardinality({p \in Pages : pt[s][p].frame = f})]
        /\ pt' = [pt EXCEPT ![s] = Copied(s, Arenas), ![c] = Copied(s, Arenas)]
        /\ brk_cur' = [brk_cur EXCEPT ![c] = brk_cur[s]]
        /\ mmap_cur' = [mmap_cur EXCEPT ![c] = mmap_cur[s]]
        /\ tlb' = Flushed
        /\ UNCHANGED <<used, data, active>>

\* Out of frames: the child's tables and references are given back; the arenas
\* that were copied stay COW in the parent, and its TLB is not flushed.  The heap
\* comes first in the PML4: its arena was copied when there was a frame besides
\* the child's PML4, and the one after it was missing.
vmspace_fork_fails(c) ==
    LET s == active
        copied == IF Left(used, tables) > 1 THEN {"heap"} ELSE {}
    IN  /\ s # NoSpace /\ c \notin live /\ Left(used, tables) <= Cardinality(table[s])
        /\ pt' = [pt EXCEPT ![s] = Copied(s, copied)]
        /\ UNCHANGED <<physical, live, table, brk_cur, mmap_cur, active, tlb>>

\* The process has exited or been killed, and its space is released; CR3 is the kernel's.
vmspace_destroy(s) ==
    /\ s \in live
    /\ LET m == vmspace_unmap(Memory(s), Present(s))
       IN  /\ used' = m.used /\ refcount' = m.refcount /\ data' = m.data
           /\ tables' = tables - 1 - Cardinality(table[s])
    /\ pt' = [pt EXCEPT ![s] = [p \in Pages |-> NotPresent]]
    /\ table' = [table EXCEPT ![s] = {}]
    /\ live' = live \ {s}
    /\ brk_cur' = [brk_cur EXCEPT ![s] = 0] /\ mmap_cur' = [mmap_cur EXCEPT ![s] = HeapMax]
    /\ active' = NoSpace /\ tlb' = Flushed

-----------------------------------------------------------------------------
(* Memory accesses.                                                         *)

\* context_switch() loads CR3, which empties the TLB.
context_switch(s) ==
    /\ s \in live /\ s # active
    /\ active' = s /\ tlb' = Flushed
    /\ UNCHANGED <<physical, live, table, pt, brk_cur, mmap_cur>>

Cached(p) == tlb[p].frame # 0

\* A load that misses the TLB caches the entry.
Load(p) ==
    /\ active # NoSpace /\ ~Cached(p) /\ p \in Present(active)
    /\ tlb' = [tlb EXCEPT ![p] = [frame |-> pt[active][p].frame, w |-> pt[active][p].w]]
    /\ UNCHANGED <<physical, live, table, pt, brk_cur, mmap_cur, active>>

\* A store through a cached or a walked entry that allows it.
Store(p, v) ==
    LET e == IF Cached(p) THEN tlb[p] ELSE [frame |-> pt[active][p].frame, w |-> pt[active][p].w]
    IN  /\ active # NoSpace /\ e.w
        /\ data' = [data EXCEPT ![e.frame] = v]
        /\ tlb' = [tlb EXCEPT ![p] = e]
        /\ UNCHANGED <<used, tables, refcount, live, table, pt, brk_cur, mmap_cur, active>>

Faults(p) == IF Cached(p) THEN ~tlb[p].w ELSE ~pt[active][p].w

\* vmspace_cow_fault(): the entry at p as a private, writable page, or ok = FALSE.
vmspace_cow_fault(m, p) ==
    LET old == m.pt[p].frame
        nf == pmm_alloc_page(m, {p})[p]
        copied == [m EXCEPT !.used = @ \cup {nf}, !.data[nf] = m.data[old], !.refcount[nf] = 1]
    IN  IF ~m.pt[p].cow THEN [m EXCEPT !.ok = FALSE]
        ELSE IF m.refcount[old] <= 1 THEN [m EXCEPT !.pt[p] = Pte(old, TRUE, FALSE)]
        ELSE IF Left(m.used, m.tables) = 0 THEN [m EXCEPT !.ok = FALSE]
        ELSE [page_decref(copied, {p}) EXCEPT !.pt[p] = Pte(nf, TRUE, FALSE)]

\* exception_handler(): a store that faults is tried again if the page was COW.
exception_handler(p) ==
    LET m == vmspace_cow_fault(Memory(active), p)
    IN  /\ active # NoSpace /\ Faults(p)
        /\ \/ m.ok /\ Commit(active, m) /\ Invlpg({p})
              /\ UNCHANGED <<live, brk_cur, mmap_cur, active>>
           \/ ~m.ok /\ vmspace_destroy(active)

Next ==
    \/ \E s \in Spaces : vmspace_create(s) \/ context_switch(s) \/ vmspace_fork(s)
                         \/ vmspace_fork_fails(s)
    \/ active # NoSpace /\ vmspace_destroy(active)
    \/ \E n \in 0..HeapMax : uvm_brk(n)
    \/ \E n \in 1..ArenaEnd, w \in BOOLEAN : uvm_mmap(n, w)
    \/ \E lo, hi \in Pages : lo <= hi /\ uvm_munmap(lo..hi)
    \/ \E lo, hi \in Pages, w \in BOOLEAN : lo <= hi /\ uvm_mprotect(lo..hi, w)
    \/ \E p \in Pages : Load(p) \/ exception_handler(p)
    \/ \E p \in Pages, v \in Values : Store(p, v)

Spec == Init /\ [][Next]_vars

-----------------------------------------------------------------------------
(* Properties.                                                              *)

\* The count of every frame is the number of leaf entries that map it (page.h:
\* fork counts up, a copy, an unmap or a teardown counts down).
RefcountsExact == \A f \in Frames : refcount[f] = Cardinality(Mappers(f))

\* The tables of the live spaces.
Tabled == {x \in live \X Arenas : x[2] \in table[x[1]]}

\* The frames the bitmap calls used are the mapped ones and the PML4 and tables of the
\* live spaces: no path, failed ones included, loses a frame or frees one in use.
FramesExact ==
    /\ used = {f \in Frames : Mappers(f) # {}}
    /\ tables = Cardinality(live) + Cardinality(Tabled)
    /\ \A s \in Spaces \ live : Present(s) = {} /\ table[s] = {}

\* Nothing is mapped above the break or above the last page mmap gave out.
AboveFree ==
    \A s \in Spaces : \A p \in Present(s) :
        p <= (IF Arena(p) = "heap" THEN brk_cur[s] ELSE mmap_cur[s])

\* Frames and references are counted exactly: what is not free is reached, and by as many
\* entries as its count says (vmspace.c, page_decref).
FramesCounted == TypeOK /\ RefcountsExact /\ FramesExact /\ AboveFree

\* A translation the CPU still has cached leads to the frame the page is in, and lets a
\* program write only to a frame that no other page maps: every change of an entry is
\* followed by the flush it needs, the failed fork's missing one included.
TlbSafe ==
    \A p \in Pages : Cached(p) =>
        /\ active # NoSpace
        /\ tlb[p].frame = pt[active][p].frame
        /\ tlb[p].w => Mappers(tlb[p].frame) = {<<active, p>>}

\* The contents of a space, as its process sees them.
View(s) == [p \in Present(s) |-> data[pt[s][p].frame]]

\* No step changes what two address spaces see, as copy-on-write promises: a process
\* never observes another's writes after a fork.
Isolation ==
    [][\A s, t \in live : s # t /\ View(s)' # View(s) => View(t)' = View(t)]_vars

\* What a process sees of page p of its space s: it may write to it if the entry says so, or
\* will once the fault has been handled.
Cell(s, p) ==
    [val |-> IF p \in Present(s) THEN data[pt[s][p].frame] ELSE 0,
     w |-> pt[s][p].w \/ pt[s][p].cow,
     mapped |-> p \in Present(s)]
Mem == [s \in Spaces |-> [p \in Pages |-> Cell(s, p)]]

Abs == INSTANCE VmAbs WITH Zero <- 0, live <- live, mem <- Mem

\* Copy-on-write memory implements private memory (VmAbs), for every sequence of forks,
\* calls, faults and failures.
PrivateMemory == Abs!AbsSpec
=============================================================================
