------------------------- MODULE VmRefinementProofs -------------------------
(***************************************************************************)
(* What the processes see of VmSpace is private memory: copy-on-write      *)
(* memory implements VmAbs, for any number of spaces, frames and pages,    *)
(* provided programs call mprotect only where no fork has shared the page  *)
(* (MprotectUnshared).                                                     *)
(***************************************************************************)
EXTENDS VmSpaceProofs

-----------------------------------------------------------------------------
(* Refinement: the steps of VmAbs, cell by cell *)

\* Mem, cell by cell.
LEMMA MemFacts ==
    /\ \A s \in Spaces, p \in Pages : Mem[s][p] = Cell(s, p)
    /\ \A s \in Spaces : Mem[s] = [p \in Pages |-> Mem[s][p]]
    /\ Mem = [s \in Spaces |-> Mem[s]]
    BY Zenon DEF Mem

\* Mem after a step, cell by cell.
LEMMA MemNext ==
    /\ \A s \in Spaces, p \in Pages : Mem'[s][p] = Cell(s, p)'
    /\ \A s \in Spaces : Mem'[s] = [p \in Pages |-> Mem'[s][p]]
    /\ Mem' = [s \in Spaces |-> Mem'[s]]
    BY Zenon DEF Mem

\* Only cells of s change, to R[p].
LEMMA CellsMove ==
    ASSUME NEW s \in Spaces, NEW R,
           \A p \in Pages : Cell(s, p)' = R[p],
           \A u \in Spaces, p \in Pages : u # s => Cell(u, p)' = Cell(u, p)
    PROVE  Mem' = [Mem EXCEPT ![s] = [p \in Pages |-> R[p]]]
<1>1. \A p \in Pages : Mem'[s][p] = R[p]
    BY MemNext, Zenon
<1>2. Mem'[s] = [p \in Pages |-> R[p]]
    BY <1>1, MemNext, SMTT(30)
<1>3. \A u \in Spaces : u # s => Mem'[u] = Mem[u]
  <2> SUFFICES ASSUME NEW u \in Spaces, u # s PROVE Mem'[u] = Mem[u]
    BY Zenon
  <2>1. \A p \in Pages : Mem'[u][p] = Mem[u][p]
    BY MemFacts, MemNext, SMTT(30)
  <2> QED
    BY <2>1, MemFacts, MemNext, SMTT(30)
<1>4. Mem' = [u \in Spaces |-> IF u = s THEN [p \in Pages |-> R[p]] ELSE Mem[u]]
    BY <1>2, <1>3, MemNext
<1> QED
    BY <1>4, MemFacts, Zenon

\* No cell changes.
LEMMA AbsStutter ==
    ASSUME live' = live, \A u \in Spaces, p \in Pages : Cell(u, p)' = Cell(u, p)
    PROVE  UNCHANGED Abs!absVars
<1>1. Mem' = Mem
    BY Zenon DEF Mem
<1> QED
    BY <1>1, Zenon DEF Abs!absVars

\* Unmapped cells of s become zeroed pages.
LEMMA AbsMaps ==
    ASSUME live \subseteq Spaces, NEW s \in live, live' = live, NEW w \in BOOLEAN,
           \A u \in Spaces, p \in Pages :
              \/ Cell(u, p)' = Cell(u, p)
              \/ u = s /\ ~Cell(u, p).mapped /\ Cell(u, p)' = Abs!Page(0, w)
    PROVE  Abs!AbsNext
<1> DEFINE P == Abs!Changed(s)
           R == [p \in Pages |-> IF p \in P THEN Abs!Page(0, w) ELSE Mem[s][p]]
<1>1. P = {p \in Pages : Mem'[s][p] # Mem[s][p]}
    BY Zenon DEF Abs!Changed
<1>2. P \cap Abs!Mapped(s) = {}
    BY <1>1, MemFacts, MemNext, SMTT(30) DEF Abs!Mapped
<1>3. \A p \in Pages : Cell(s, p)' = R[p]
    BY <1>1, MemFacts, MemNext, SMTT(30)
<1>4. \A u \in Spaces, p \in Pages : u # s => Cell(u, p)' = Cell(u, p)
    BY SMTT(30)
<1>5. Mem' = [Mem EXCEPT ![s] = [p \in Pages |-> R[p]]]
  <2> HIDE DEF R
  <2> QED
    BY <1>3, <1>4, CellsMove
<1>6. Mem' = [Mem EXCEPT ![s] = [p \in Pages |-> IF p \in P THEN Abs!Page(0, w) ELSE Mem[s][p]]]
    BY <1>5, ZenonT(60)
<1>7. Abs!Map(s, P, w)
    BY <1>2, <1>6, SMTT(30) DEF Abs!Map, Abs!Change
<1> QED
    BY <1>7, SMTT(30) DEF Abs!AbsNext

\* Cells of s become holes.
LEMMA AbsUnmaps ==
    ASSUME live \subseteq Spaces, NEW s \in live, live' = live,
           \A u \in Spaces, p \in Pages :
              Cell(u, p)' = Cell(u, p) \/ (u = s /\ Cell(u, p)' = Abs!Unmapped)
    PROVE  Abs!AbsNext
<1> DEFINE P == Abs!Changed(s)
           R == [p \in Pages |-> IF p \in P THEN Abs!Unmapped ELSE Mem[s][p]]
<1>1. P = {p \in Pages : Mem'[s][p] # Mem[s][p]}
    BY SMTT(30) DEF Abs!Changed
<1>2. \A p \in Pages : Cell(s, p)' = R[p]
    BY <1>1, MemFacts, MemNext, SMTT(30)
<1>3. \A u \in Spaces, p \in Pages : u # s => Cell(u, p)' = Cell(u, p)
    BY SMTT(30)
<1>4. Mem' = [Mem EXCEPT ![s] = [p \in Pages |-> R[p]]]
  <2> HIDE DEF R
  <2> QED
    BY <1>2, <1>3, CellsMove
<1>5. Mem' = [Mem EXCEPT ![s] = [p \in Pages |-> IF p \in P THEN Abs!Unmapped ELSE Mem[s][p]]]
    BY <1>4, Zenon
<1>6. Abs!Unmap(s, P)
    BY <1>5, Zenon DEF Abs!Unmap, Abs!Change
<1> QED
    BY <1>6, SMTT(30) DEF Abs!AbsNext

\* Mapped cells of s become writable, or read-only.
LEMMA AbsProtects ==
    ASSUME live \subseteq Spaces, NEW s \in live, live' = live, NEW w \in BOOLEAN,
           \A u \in Spaces, p \in Pages :
              \/ Cell(u, p)' = Cell(u, p)
              \/ u = s /\ Cell(u, p).mapped /\ Cell(u, p)' = [Cell(u, p) EXCEPT !.w = w]
    PROVE  Abs!AbsNext
<1> DEFINE P == Abs!Changed(s)
           R == [p \in Pages |-> IF p \in P THEN [Mem[s][p] EXCEPT !.w = w] ELSE Mem[s][p]]
<1>1. P = {p \in Pages : Mem'[s][p] # Mem[s][p]}
    BY Zenon DEF Abs!Changed
<1>2. P \subseteq Abs!Mapped(s)
    BY <1>1, MemFacts, MemNext DEF Abs!Mapped
<1>3. \A p \in Pages : Cell(s, p)' = R[p]
    BY <1>1, MemFacts, MemNext
<1>4. \A u \in Spaces, p \in Pages : u # s => Cell(u, p)' = Cell(u, p)
    BY Zenon
<1>5. Mem' = [Mem EXCEPT ![s] = [p \in Pages |-> R[p]]]
  <2> HIDE DEF R
  <2> QED
    BY <1>3, <1>4, CellsMove
<1>6. Mem' = [Mem EXCEPT ![s] = [p \in Pages |->
                IF p \in P THEN [Mem[s][p] EXCEPT !.w = w] ELSE Mem[s][p]]]
    BY <1>5, Zenon
<1>7. Abs!Protect(s, P, w)
    BY <1>2, <1>6, Zenon DEF Abs!Protect, Abs!Change
<1> QED
    BY <1>7, Zenon DEF Abs!AbsNext

\* A writable cell of s gets a value.
LEMMA AbsWrites ==
    ASSUME live \subseteq Spaces, NEW s \in live, live' = live, NEW p \in Pages, NEW v \in Values,
           Cell(s, p).w, Cell(s, p)' = [Cell(s, p) EXCEPT !.val = v],
           \A u \in Spaces, q \in Pages : u # s \/ q # p => Cell(u, q)' = Cell(u, q)
    PROVE  Abs!AbsNext \/ UNCHANGED Abs!absVars
<1> DEFINE R == [q \in Pages |-> IF q \in {p} THEN [Mem[s][q] EXCEPT !.val = v] ELSE Mem[s][q]]
<1>1. Abs!Changed(s) = {q \in Pages : Mem'[s][q] # Mem[s][q]}
    BY Zenon DEF Abs!Changed
<1>2. \A q \in Pages : Cell(s, q)' = R[q]
    BY MemFacts
<1>3. \A u \in Spaces, q \in Pages : u # s => Cell(u, q)' = Cell(u, q)
    BY Zenon
<1>4. Mem' = [Mem EXCEPT ![s] = [q \in Pages |-> R[q]]]
  <2> HIDE DEF R
  <2> QED
    BY <1>2, <1>3, CellsMove
<1>5. Mem' = [Mem EXCEPT ![s] = [q \in Pages |->
                IF q \in {p} THEN [Mem[s][q] EXCEPT !.val = v] ELSE Mem[s][q]]]
    BY <1>4, ZenonT(60)
<1>6. Abs!Write(s, p, v)
    BY <1>5, MemFacts DEF Abs!Write, Abs!Change
<1>7. CASE p \in Abs!Changed(s)
    BY <1>6, <1>7, Zenon DEF Abs!AbsNext
<1>8. CASE p \notin Abs!Changed(s)
  <2>1. Cell(s, p)' = Cell(s, p)
    BY <1>1, <1>8, MemFacts, MemNext, SMTT(30)
  <2> QED
    BY <2>1, AbsStutter, Zenon
<1> QED
    BY <1>7, <1>8, Zenon

\* The cells of a new space c are those of s.
LEMMA AbsForks ==
    ASSUME live \subseteq Spaces, NEW s \in live, NEW c \in Spaces \ live, live' = live \cup {c},
           \A p \in Pages : Cell(c, p)' = Cell(s, p),
           \A u \in Spaces, p \in Pages : u # c => Cell(u, p)' = Cell(u, p)
    PROVE  Abs!AbsNext
<1> DEFINE R == [p \in Pages |-> Mem[s][p]]
<1>1. \A p \in Pages : Cell(c, p)' = R[p]
    BY MemFacts, SMTT(30)
<1>2. Mem' = [Mem EXCEPT ![c] = [p \in Pages |-> R[p]]]
  <2> HIDE DEF R
  <2> QED
    BY <1>1, CellsMove, SMTT(30)
<1>3. [p \in Pages |-> R[p]] = Mem[s]
    BY MemFacts, Zenon
<1>4. Mem' = [Mem EXCEPT ![c] = Mem[s]]
    BY <1>2, <1>3, ZenonT(60)
<1>5. Abs!Fork(s, c)
    BY <1>4, SMTT(30) DEF Abs!Fork
<1> QED
    BY <1>5, SMTT(30) DEF Abs!AbsNext

\* The cells of s become holes, and s is gone.
LEMMA AbsExits ==
    ASSUME live \subseteq Spaces, NEW s \in live, live' = live \ {s},
           \A p \in Pages : Cell(s, p)' = Abs!Unmapped,
           \A u \in Spaces, p \in Pages : u # s => Cell(u, p)' = Cell(u, p)
    PROVE  Abs!AbsNext
<1> DEFINE R == [p \in Pages |-> Abs!Unmapped]
<1>1. \A p \in Pages : Cell(s, p)' = R[p]
    BY SMTT(30)
<1>2. Mem' = [Mem EXCEPT ![s] = [p \in Pages |-> R[p]]]
  <2> HIDE DEF R
  <2> QED
    BY <1>1, CellsMove
<1>3. Mem' = [Mem EXCEPT ![s] = [p \in Pages |-> Abs!Unmapped]]
    BY <1>2, ZenonT(60)
<1>4. Abs!Exit(s)
    BY <1>3, Zenon DEF Abs!Exit
<1> QED
    BY <1>4, Zenon DEF Abs!AbsNext

-----------------------------------------------------------------------------
(* Refinement: what the steps do to the cells *)

\* A cell whose entry leads to the same contents, and may be written to if the old one could.
LEMMA CellCopy ==
    ASSUME NEW u \in Spaces, NEW v \in Spaces, NEW p \in Pages,
           pt'[u][p].frame = 0 <=> pt[v][p].frame = 0,
           (pt'[u][p].w \/ pt'[u][p].cow) = (pt[v][p].w \/ pt[v][p].cow),
           pt[v][p].frame # 0 => data'[pt'[u][p].frame] = data[pt[v][p].frame]
    PROVE  Cell(u, p)' = Cell(v, p)
<1>1. (p \in Present(u)') = (p \in Present(v))
    BY DEF Present
<1> QED
    BY <1>1, ZenonT(60) DEF Cell, Present

\* A cell whose entry leads to the same frame with the same contents.
LEMMA CellSame ==
    ASSUME NEW u \in Spaces, NEW p \in Pages, pt'[u][p].frame = pt[u][p].frame,
           (pt'[u][p].w \/ pt'[u][p].cow) = (pt[u][p].w \/ pt[u][p].cow),
           pt[u][p].frame # 0 => data'[pt[u][p].frame] = data[pt[u][p].frame]
    PROVE  Cell(u, p)' = Cell(u, p)
    BY CellCopy, ZenonT(60)

\* The frame of an entry is in use.
LEMMA FrameInUse ==
    ASSUME VmInv, NEW u \in Spaces, NEW p \in Pages, pt[u][p].frame # 0
    PROVE  pt[u][p].frame \in used /\ pt[u][p].frame \in Frames
<1>1. PICK f \in Frames : f = pt[u][p].frame
    BY SMTT(30) DEF VmInv, FramesCounted, TypeOK
<1>2. <<u, p>> \in Mappers(f)
    BY <1>1, SMTT(30) DEF Mappers
<1> QED
    BY <1>1, <1>2, ZenonT(60) DEF VmInv, FramesCounted, FramesExact

\* The frame of an entry is in use, after a step.
LEMMA FrameInUseNext ==
    ASSUME VmInv', NEW u \in Spaces, NEW p \in Pages, pt'[u][p].frame # 0
    PROVE  pt'[u][p].frame \in used'
<1>1. PICK f \in Frames : f = pt'[u][p].frame
    BY DEF VmInv, FramesCounted, TypeOK
<1>2. <<u, p>> \in Mappers(f)'
    BY <1>1, Zenon DEF Mappers
<1> QED
    BY <1>1, <1>2, SMTT(30) DEF VmInv, FramesCounted, FramesExact

\* The cell of an entry that is not present.
LEMMA HoleCell ==
    ASSUME NEW u \in Spaces, NEW p \in Pages, pt'[u][p] = NotPresent
    PROVE  Cell(u, p)' = Abs!Unmapped
<1>1. /\ p \notin Present(u)' /\ pt'[u][p].frame = 0
      /\ pt'[u][p].w = FALSE /\ pt'[u][p].cow = FALSE
    BY PteTypes, SMTT(30) DEF Present
<1>2. Cell(u, p)' = [val |-> IF p \in Present(u)' THEN data'[pt'[u][p].frame] ELSE 0,
                     w |-> pt'[u][p].w \/ pt'[u][p].cow, mapped |-> p \in Present(u)']
    BY ZenonT(60) DEF Cell
<1>3. (pt'[u][p].w \/ pt'[u][p].cow) = FALSE /\ (p \in Present(u)') = FALSE
    BY <1>1, SMTT(30)
<1> QED
    BY <1>2, <1>3, ZenonT(60) DEF Abs!Unmapped

\* The running space is live.
LEMMA SpaceFacts ==
    ASSUME VmInv
    PROVE  live \subseteq Spaces /\ (active # NoSpace => active \in live)
    BY Zenon DEF VmInv, FramesCounted, TypeOK

\* Unmapping pages of s makes holes of them and leaves every other cell.
LEMMA UnmapImplements ==
    ASSUME VmInv, VmInv', NEW s \in live, NEW P \in SUBSET Pages, live' = live,
           Commit(s, vmspace_unmap(Memory(s), P))
    PROVE  Abs!AbsNext
<1>1. live \subseteq Spaces /\ s \in Spaces
    BY SpaceFacts, Zenon
<1>2. /\ \A u \in Spaces, p \in Pages :
            pt'[u][p] = IF u = s /\ p \in P THEN NotPresent ELSE pt[u][p]
      /\ \A f \in used' : data'[f] = data[f]
    BY UnmapCounted, ZenonT(60)
<1>3. ASSUME NEW u \in Spaces, NEW p \in Pages
      PROVE  Cell(u, p)' = Cell(u, p) \/ (u = s /\ Cell(u, p)' = Abs!Unmapped)
  <2>1. CASE u = s /\ p \in P
    <3>1. pt'[u][p] = NotPresent
        BY <2>1, <1>2, Zenon
    <3> QED
        BY <3>1, <2>1, HoleCell, SMTT(30)
  <2>2. CASE ~(u = s /\ p \in P)
    <3>1. pt'[u][p] = pt[u][p]
        BY <2>2, <1>2, ZenonT(60)
    <3>2. pt[u][p].frame # 0 => pt[u][p].frame \in used'
        BY <3>1, FrameInUseNext, Zenon
    <3> QED
        BY <3>1, <3>2, <1>2, CellSame, ZenonT(60)
  <2> QED
    BY <2>1, <2>2, SMTT(30)
<1> QED
    BY <1>1, <1>3, AbsUnmaps, SMTT(30)

\* map_anon makes zeroed pages, or changes no cell.
LEMMA MapImplements ==
    ASSUME VmInv, NEW s \in live, NEW P \in SUBSET Pages, P \cap Present(s) = {},
           NEW w \in BOOLEAN, live' = live, Commit(s, map_anon(Memory(s), P, w))
    PROVE  Abs!AbsNext \/ UNCHANGED Abs!absVars
<1>1. live \subseteq Spaces /\ s \in Spaces
    BY SpaceFacts, Zenon
<1>2. /\ \A u \in Spaces, p \in Pages : u # s \/ p \notin P => pt'[u][p] = pt[u][p]
      /\ ~map_anon(Memory(s), P, w).ok => pt' = pt
      /\ \A f \in used : data'[f] = data[f]
      /\ map_anon(Memory(s), P, w).ok => ZeroPages(s, P, w)
      /\ map_anon(Memory(s), P, w).ok \in BOOLEAN
    BY MapKeeps, ZenonT(60)
<1>3. ASSUME NEW u \in Spaces, NEW p \in Pages, pt'[u][p] = pt[u][p]
      PROVE  Cell(u, p)' = Cell(u, p)
  <2>1. pt[u][p].frame # 0 => data'[pt[u][p].frame] = data[pt[u][p].frame]
    BY <1>2, FrameInUse, ZenonT(60)
  <2> QED
    BY <2>1, <1>3, CellSame, ZenonT(60)
<1>4. CASE ~map_anon(Memory(s), P, w).ok
    BY <1>2, <1>3, <1>4, AbsStutter, ZenonT(60)
<1>5. CASE map_anon(Memory(s), P, w).ok
  <2>1. ASSUME NEW u \in Spaces, NEW p \in Pages
        PROVE  \/ Cell(u, p)' = Cell(u, p)
               \/ u = s /\ ~Cell(u, p).mapped /\ Cell(u, p)' = Abs!Page(0, w)
    <3>1. CASE u = s /\ p \in P
      <4>1. /\ pt'[u][p].frame \in Frames /\ data'[pt'[u][p].frame] = 0
            /\ pt'[u][p].w = w /\ pt'[u][p].cow = FALSE
        BY <3>1, <1>2, <1>5, ZenonT(60) DEF ZeroPages
      <4>2. p \in Present(u)'
        BY <4>1, PteTypes, Zenon DEF Present
      <4>3. Cell(u, p)' = [val |-> IF p \in Present(u)' THEN data'[pt'[u][p].frame] ELSE 0,
                           w |-> pt'[u][p].w \/ pt'[u][p].cow, mapped |-> p \in Present(u)']
        BY ZenonT(60) DEF Cell
      <4>4. Cell(u, p)' = Abs!Page(0, w)
        BY <4>1, <4>2, <4>3, ZenonT(60) DEF Abs!Page
      <4>5. ~Cell(u, p).mapped
        BY <3>1, ZenonT(60) DEF Cell
      <4> QED
        BY <4>4, <4>5, <3>1, Zenon
    <3>2. CASE ~(u = s /\ p \in P)
        BY <3>2, <1>2, <1>3, ZenonT(60)
    <3> QED
        BY <3>1, <3>2, SMTT(30)
  <2> QED
    BY <2>1, <1>1, AbsMaps, SMTT(30)
<1> QED
    BY <1>2, <1>4, <1>5, ZenonT(60)

\* The CPU lets a program write only where its page table does, or will after the fault.
WritesAllowed ==
    \A p \in Pages : Cached(p) /\ tlb[p].w => pt[active][p].w \/ pt[active][p].cow

\* Steps that flush the entries of the pages they make read-only.
LEMMA WritesKeep ==
    ASSUME VmInv, WritesAllowed, active' = active,
           \A p \in Pages :
              \/ tlb'[p] = NoEntry
              \/ /\ tlb'[p] = tlb[p]
                 /\ pt[active][p].frame # 0 /\ (pt[active][p].w \/ pt[active][p].cow) =>
                       pt'[active][p].w \/ pt'[active][p].cow
    PROVE  WritesAllowed'
<1> SUFFICES ASSUME NEW p \in Pages, Cached(p)', tlb'[p].w
             PROVE  pt'[active][p].w \/ pt'[active][p].cow
    BY SMTT(30) DEF WritesAllowed
<1>1. tlb'[p] # NoEntry /\ tlb'[p] = tlb[p]
    BY EmptyTlb, SMTT(30) DEF Cached
<1>2. Cached(p) /\ tlb[p].w /\ tlb[p].frame # 0
    BY <1>1, Zenon DEF Cached
<1>3. pt[active][p].frame # 0 /\ (pt[active][p].w \/ pt[active][p].cow)
    BY <1>2, ZenonT(60) DEF VmInv, TlbSafe, WritesAllowed
<1> QED
    BY <1>1, <1>3, ZenonT(60)

\* A cell whose write permission is set anew.
WithW(c, b) == [c EXCEPT !.w = b]
CellOf(v, a, m) == [val |-> v, w |-> a, mapped |-> m]

\* Setting it leaves the other fields alone.
LEMMA CellWriteBit ==
    ASSUME NEW v, NEW a, NEW b, NEW m
    PROVE  WithW(CellOf(v, a, m), b) = CellOf(v, b, m)
    BY DEF WithW, CellOf

\* A flushed TLB allows nothing.
LEMMA FlushedAllows ==
    ASSUME tlb' = Flushed
    PROVE  WritesAllowed'
    BY EmptyTlb, Zenon DEF WritesAllowed, Cached

\* What every step has to show.
Implements == (Abs!AbsNext \/ UNCHANGED Abs!absVars) /\ WritesAllowed'

\* vmspace_create is Spawn.
LEMMA CreateImplements ==
    ASSUME VmInv, WritesAllowed, NEW s \in Spaces, vmspace_create(s)
    PROVE  Implements
<1>1. /\ s \notin live /\ live' = live \cup {s} /\ pt' = pt /\ data' = data
      /\ active' = active /\ tlb' = tlb
    BY Zenon DEF vmspace_create
<1>2. Mem' = Mem
    BY <1>1, ZenonT(60) DEF Mem, Cell, Present
<1>3. Abs!Spawn(s)
    BY <1>1, <1>2, Zenon DEF Abs!Spawn
<1>4. WritesAllowed'
    BY <1>1, ZenonT(60) DEF WritesAllowed, Cached
<1> QED
    BY <1>3, <1>4, Zenon DEF Implements, Abs!AbsNext

\* A step that leaves the page tables and the contents of frames alone.
LEMMA StillImplements ==
    ASSUME UNCHANGED <<live, pt, data>>
    PROVE  UNCHANGED Abs!absVars
<1>1. Mem' = Mem
    BY Zenon DEF Mem, Cell, Present
<1> QED
    BY <1>1, Zenon DEF Abs!absVars

\* context_switch changes no cell.
LEMMA SwitchImplements ==
    ASSUME NEW s \in Spaces, context_switch(s)
    PROVE  Implements
<1>1. UNCHANGED <<live, pt, data>> /\ tlb' = Flushed
    BY SMTT(30) DEF context_switch, physical
<1> QED
    BY <1>1, StillImplements, FlushedAllows, SMTT(30) DEF Implements

\* Caching what the page table says.
LEMMA FillAllows ==
    ASSUME VmInv, WritesAllowed, NEW p \in Pages, active' = active, pt' = pt,
           tlb' = [tlb EXCEPT ![p] = [frame |-> pt[active][p].frame, w |-> pt[active][p].w]]
    PROVE  WritesAllowed'
<1>1. tlb \in [Pages -> TlbEntries]
    BY SMTT(30) DEF VmInv, FramesCounted, TypeOK, TlbEntries
<1>2. \A q \in Pages : (q # p => tlb'[q] = tlb[q]) /\ (q = p => tlb'[q].w = pt[active][p].w)
    BY <1>1, SMTT(30)
<1> SUFFICES ASSUME NEW q \in Pages, Cached(q)', tlb'[q].w
             PROVE  pt'[active][q].w \/ pt'[active][q].cow
    BY SMTT(30) DEF WritesAllowed
<1>3. CASE q = p
    BY <1>2, <1>3, Zenon
<1>4. CASE q # p
    BY <1>2, <1>4, ZenonT(60) DEF WritesAllowed, Cached
<1> QED
    BY <1>3, <1>4, SMTT(30)

\* A load changes no cell.
LEMMA LoadImplements ==
    ASSUME VmInv, WritesAllowed, NEW p \in Pages, Load(p)
    PROVE  Implements
<1>1. /\ UNCHANGED <<live, pt, data>> /\ active' = active /\ pt' = pt
      /\ tlb' = [tlb EXCEPT ![p] = [frame |-> pt[active][p].frame, w |-> pt[active][p].w]]
    BY Zenon DEF Load, physical
<1> QED
    BY <1>1, StillImplements, FillAllows, ZenonT(60) DEF Implements

\* A store is a Write: the frame it reaches has no other mapper.
LEMMA StoreImplements ==
    ASSUME VmInv, WritesAllowed, NEW p \in Pages, NEW v \in Values, Store(p, v)
    PROVE  Implements
<1>1. PICK s \in live : s = active /\ s \in Spaces /\ live \subseteq Spaces
    BY SpaceFacts, SMTT(30) DEF Store
<1>2. live' = live /\ pt' = pt /\ active' = active
    BY SMTT(30) DEF Store
<1>3. /\ pt \in [Spaces -> [Pages -> Ptes]] /\ data \in [Frames -> Values]
      /\ tlb \in [Pages -> TlbEntries]
    BY SMTT(30) DEF VmInv, FramesCounted, TypeOK, TlbEntries, Ptes
<1> DEFINE walked == [frame |-> pt[active][p].frame, w |-> pt[active][p].w]
<1>4. /\ pt[s][p].frame \in Frames /\ Mappers(pt[s][p].frame) = {<<s, p>>}
      /\ data' = [data EXCEPT ![pt[s][p].frame] = v]
      /\ pt[s][p].w \/ pt[s][p].cow
      /\ WritesAllowed'
  <2>1. CASE Cached(p)
    <3>1. tlb[p].w /\ data' = [data EXCEPT ![tlb[p].frame] = v] /\ tlb' = tlb
        BY <2>1, <1>3, ZenonT(60) DEF Store
    <3>2. tlb[p].frame = pt[s][p].frame /\ Mappers(tlb[p].frame) = {<<s, p>>}
        BY <2>1, <3>1, <1>1, ZenonT(60) DEF VmInv, TlbSafe
    <3>3. pt[s][p].w \/ pt[s][p].cow
        BY <2>1, <3>1, <1>1, SMTT(30) DEF WritesAllowed
    <3>4. pt[s][p].frame \in Frames
        BY <3>2, <2>1, <1>3, SMTT(30) DEF Cached, TlbEntries
    <3>5. WritesAllowed'
        BY <3>1, <1>2, SMTT(30) DEF WritesAllowed, Cached
    <3> QED
        BY <3>1, <3>2, <3>3, <3>4, <3>5, ZenonT(60)
  <2>2. CASE ~Cached(p)
    <3>1. /\ pt[s][p].w /\ data' = [data EXCEPT ![pt[s][p].frame] = v]
          /\ tlb' = [tlb EXCEPT ![p] = walked]
        BY <2>2, <1>1, SMTT(30) DEF Store
    <3>2. pt[s][p].frame \in Frames /\ Mappers(pt[s][p].frame) = {<<s, p>>}
        BY <3>1, <1>1, WritablePresent, Zenon
    <3>3. WritesAllowed'
        BY <3>1, <1>2, FillAllows, ZenonT(60)
    <3> QED
        BY <3>1, <3>2, <3>3, SMTT(30)
  <2> QED
    BY <2>1, <2>2, Zenon
<1>5. ASSUME NEW u \in Spaces, NEW q \in Pages, u # s \/ q # p
      PROVE  Cell(u, q)' = Cell(u, q)
  <2>1. pt[u][q].frame # pt[s][p].frame
    <3>1. <<u, q>> # <<s, p>>
        BY <1>5, SMTT(30)
    <3>2. <<u, q>> \notin Mappers(pt[s][p].frame)
        BY <3>1, <1>4, SMTT(30)
    <3> QED
        BY <3>2, Zenon DEF Mappers
  <2>2. pt[u][q].frame # 0 => data'[pt[u][q].frame] = data[pt[u][q].frame]
    BY <2>1, <1>3, <1>4
  <2> QED
    BY <2>2, <1>2, CellSame, ZenonT(60)
<1>6. Cell(s, p).w
  <2>1. Cell(s, p).w = (pt[s][p].w \/ pt[s][p].cow)
    BY Zenon DEF Cell
  <2> QED
    BY <2>1, <1>4, Zenon
<1>7. Cell(s, p)' = [Cell(s, p) EXCEPT !.val = v]
  <2>1. p \in Present(s) /\ p \in Present(s)'
    BY <1>2, <1>4, PteTypes, ZenonT(60) DEF Present
  <2>2. data'[pt'[s][p].frame] = v
    BY <1>2, <1>3, <1>4
  <2>3. /\ Cell(s, p) = [val |-> data[pt[s][p].frame], w |-> pt[s][p].w \/ pt[s][p].cow,
                         mapped |-> p \in Present(s)]
        /\ Cell(s, p)' = [val |-> v, w |-> pt[s][p].w \/ pt[s][p].cow,
                          mapped |-> p \in Present(s)]
    <3>1. (p \in Present(s)) = (p \in Present(s)')
        BY <2>1
    <3> QED
        BY <3>1, <2>1, <2>2, <1>2, ZenonT(60) DEF Cell
  <2> QED
    BY <2>3
<1> QED
    BY <1>1, <1>2, <1>4, <1>5, <1>6, <1>7, AbsWrites, ZenonT(60) DEF Implements

\* A copied leaf may be written to, after a fault, if the original might.
LEMMA CopyLeafAllows ==
    ASSUME NEW e \in Ptes
    PROVE  (copy_leaf(e).w \/ copy_leaf(e).cow) = (e.w \/ e.cow)
<1>1. e.frame \in Frames \cup {0} /\ (e.cow \/ e.w) \in BOOLEAN
    BY Zenon DEF Ptes
<1>2. copy_leaf(e).w = FALSE /\ copy_leaf(e).cow = (e.cow \/ e.w)
    BY <1>1, PteTypes, ZenonT(60) DEF copy_leaf
<1> QED
    BY <1>2, Zenon

\* vmspace_fork is Fork: sharing the frames is as good as copying them.
LEMMA ForkImplements ==
    ASSUME VmInv, NEW c \in Spaces, vmspace_fork(c)
    PROVE  Implements
<1>1. PICK s \in live : s = active /\ s \in Spaces /\ live \subseteq Spaces
    BY SpaceFacts, SMTT(30) DEF vmspace_fork
<1>2. /\ c \in Spaces \ live /\ live' = live \cup {c} /\ data' = data /\ tlb' = Flushed
      /\ pt' = [pt EXCEPT ![s] = Copied(s, Arenas), ![c] = Copied(s, Arenas)]
    BY <1>1, Zenon DEF vmspace_fork
<1>3. pt \in [Spaces -> [Pages -> Ptes]]
    BY SMTT(30) DEF VmInv, FramesCounted, TypeOK, Ptes
<1>4. \A u \in Spaces, p \in Pages :
         pt'[u][p] = IF u = s \/ u = c THEN copy_leaf(pt[s][p]) ELSE pt[u][p]
    BY <1>1, <1>2, <1>3, Zenon DEF Copied, Arena, Arenas
<1>5. ASSUME NEW p \in Pages
      PROVE  /\ copy_leaf(pt[s][p]).frame = pt[s][p].frame
             /\ (copy_leaf(pt[s][p]).w \/ copy_leaf(pt[s][p]).cow) = (pt[s][p].w \/ pt[s][p].cow)
  <2>1. pt[s][p] \in Ptes
    BY <1>1, <1>3, Zenon
  <2> QED
    BY <2>1, CopyLeafFacts, CopyLeafAllows, ZenonT(60)
<1>6. ASSUME NEW p \in Pages PROVE Cell(c, p)' = Cell(s, p)
  <2>1. pt'[c][p] = copy_leaf(pt[s][p])
    BY <1>2, <1>4, ZenonT(60)
  <2>2. /\ pt'[c][p].frame = pt[s][p].frame
        /\ (pt'[c][p].w \/ pt'[c][p].cow) = (pt[s][p].w \/ pt[s][p].cow)
    BY <2>1, <1>5, ZenonT(60)
  <2>3. /\ pt'[c][p].frame = 0 <=> pt[s][p].frame = 0
        /\ pt[s][p].frame # 0 => data'[pt'[c][p].frame] = data[pt[s][p].frame]
    BY <2>2, <1>2, Zenon
  <2> QED
    BY <2>2, <2>3, <1>1, CellCopy, ZenonT(60)
<1>7. ASSUME NEW u \in Spaces, NEW p \in Pages, u # c PROVE Cell(u, p)' = Cell(u, p)
  <2>1. CASE u = s
    <3>1. pt'[u][p] = copy_leaf(pt[u][p])
        BY <2>1, <1>4, SMTT(30)
    <3>2. /\ pt'[u][p].frame = pt[u][p].frame
          /\ (pt'[u][p].w \/ pt'[u][p].cow) = (pt[u][p].w \/ pt[u][p].cow)
        BY <3>1, <2>1, <1>5, SMTT(30)
    <3> QED
        BY <3>2, <1>2, CellSame, ZenonT(60)
  <2>2. CASE u # s
    <3>1. pt'[u][p] = pt[u][p]
        BY <2>2, <1>4, <1>7, SMTT(30)
    <3> QED
        BY <3>1, <1>2, CellSame, ZenonT(60)
  <2> QED
    BY <2>1, <2>2, Zenon
<1> QED
    BY <1>1, <1>2, <1>6, <1>7, AbsForks, FlushedAllows, SMTT(30) DEF Implements

\* A fork that fails changes no cell, although it makes entries COW.
LEMMA ForkFailsImplements ==
    ASSUME VmInv, WritesAllowed, NEW c \in Spaces, vmspace_fork_fails(c)
    PROVE  Implements
<1> DEFINE A == IF Left(used, tables) > 1 THEN {"heap"} ELSE {}
<1>1. /\ active \in Spaces /\ pt' = [pt EXCEPT ![active] = Copied(active, A)]
      /\ data' = data /\ live' = live /\ active' = active /\ tlb' = tlb
    BY SMTT(30) DEF vmspace_fork_fails, VmInv, FramesCounted, TypeOK, physical
<1> HIDE DEF A
<1>2. pt \in [Spaces -> [Pages -> Ptes]]
    BY SMTT(30) DEF VmInv, FramesCounted, TypeOK, Ptes
<1>3. \A u \in Spaces, p \in Pages :
         pt'[u][p] = IF u = active /\ Arena(p) \in A THEN copy_leaf(pt[u][p]) ELSE pt[u][p]
    BY <1>1, <1>2, Zenon DEF Copied
<1>4. ASSUME NEW u \in Spaces, NEW p \in Pages
      PROVE  /\ pt'[u][p].frame = pt[u][p].frame
             /\ (pt'[u][p].w \/ pt'[u][p].cow) = (pt[u][p].w \/ pt[u][p].cow)
  <2>1. pt[u][p] \in Ptes
    BY <1>2, Zenon
  <2>2. CASE u = active /\ Arena(p) \in A
    <3>1. pt'[u][p] = copy_leaf(pt[u][p])
        BY <2>2, <1>3, SMTT(30)
    <3> QED
        BY <3>1, <2>1, CopyLeafFacts, CopyLeafAllows, ZenonT(60)
  <2>3. CASE ~(u = active /\ Arena(p) \in A)
    BY <2>3, <1>3, Zenon
  <2> QED
    BY <2>2, <2>3, ZenonT(60)
<1>5. \A u \in Spaces, p \in Pages : Cell(u, p)' = Cell(u, p)
    BY <1>1, <1>4, CellSame, ZenonT(60)
<1>6. WritesAllowed'
    BY <1>1, <1>4, WritesKeep, ZenonT(60)
<1> QED
    BY <1>1, <1>5, <1>6, AbsStutter, ZenonT(60) DEF Implements

\* vmspace_destroy is Exit: no frame of another space is touched.
LEMMA DestroyImplements ==
    ASSUME VmInv, NEW s \in Spaces, vmspace_destroy(s)
    PROVE  Implements
<1>1. /\ VmInv' /\ \A f \in used' : data'[f] = data[f]
      /\ \A u \in Spaces, p \in Pages : pt'[u][p] = IF u = s THEN NotPresent ELSE pt[u][p]
    BY DestroyKeeps, ZenonT(60)
<1>2. s \in live /\ live' = live \ {s} /\ tlb' = Flushed /\ live \subseteq Spaces
    BY SpaceFacts, Zenon DEF vmspace_destroy
<1>3. \A p \in Pages : Cell(s, p)' = Abs!Unmapped
  <2>1. \A p \in Pages : pt'[s][p] = NotPresent
    BY <1>1, SMTT(30)
  <2> QED
    BY <2>1, HoleCell, SMTT(30)
<1>4. ASSUME NEW u \in Spaces, NEW p \in Pages, u # s
      PROVE  Cell(u, p)' = Cell(u, p)
  <2>1. pt'[u][p] = pt[u][p]
    BY <1>1, <1>4, SMTT(30)
  <2>2. pt[u][p].frame # 0 => pt[u][p].frame \in used'
    BY <2>1, <1>1, FrameInUseNext, ZenonT(60)
  <2> QED
    BY <2>1, <2>2, <1>1, CellSame, ZenonT(60)
<1> QED
    BY <1>2, <1>3, <1>4, AbsExits, FlushedAllows, ZenonT(60) DEF Implements

\* munmap is Unmap.
LEMMA MunmapImplements ==
    ASSUME VmInv, VmInv', WritesAllowed, NEW P \in SUBSET Pages, uvm_munmap(P)
    PROVE  Implements
<1>1. /\ active # NoSpace /\ Commit(active, vmspace_unmap(Memory(active), P))
      /\ Invlpg(P \cap Present(active)) /\ live' = live /\ active' = active
    BY Zenon DEF uvm_munmap
<1>2. active \in live /\ active \in Spaces
    BY <1>1, SpaceFacts, SMTT(30)
<1>3. Abs!AbsNext
    BY <1>1, <1>2, UnmapImplements, SMTT(30)
<1>4. \A p \in Pages : pt'[active][p] = IF p \in P THEN NotPresent ELSE pt[active][p]
    BY <1>1, <1>2, UnmapCounted, SMTT(30)
<1> DEFINE Q == P \cap Present(active)
<1>5. \A p \in Pages : p \in Q \/ pt[active][p].frame = 0 \/ pt'[active][p] = pt[active][p]
    BY <1>4, Zenon DEF Present
<1>6. Invlpg(Q)
    BY <1>1, Zenon
<1> HIDE DEF Q
<1>7. \A p \in Pages : tlb'[p] = IF p \in Q THEN NoEntry ELSE tlb[p]
    BY <1>6, InvlpgLeaves, Zenon
<1>8. WritesAllowed'
    BY <1>1, <1>5, <1>7, WritesKeep, ZenonT(60)
<1> QED
    BY <1>3, <1>8, SMTT(30) DEF Implements

\* mmap is Map, or changes nothing.
LEMMA MmapImplements ==
    ASSUME VmInv, WritesAllowed, NEW len \in 1..ArenaEnd, NEW w \in BOOLEAN, uvm_mmap(len, w)
    PROVE  Implements
<1>1. active \in live /\ active \in Spaces /\ active # NoSpace
  <2>1. active # NoSpace
    BY Zenon DEF uvm_mmap
  <2> QED
    BY <2>1, SpaceFacts, Zenon
<1>2. /\ mmap_cur[active] \in HeapMax..ArenaEnd /\ HeapMax \in Nat /\ ArenaEnd \in Nat
      /\ mmap_cur[active] + len <= ArenaEnd
    BY <1>1, VmAssumption, SMTT(30) DEF uvm_mmap, VmInv, FramesCounted, TypeOK
<1> DEFINE P == (mmap_cur[active] + 1)..(mmap_cur[active] + len)
<1>3. /\ Commit(active, map_anon(Memory(active), P, w))
      /\ live' = live /\ active' = active /\ tlb' = tlb
    BY Zenon DEF uvm_mmap
<1>4. P \in SUBSET Pages /\ \A p \in P : p > HeapMax /\ p > mmap_cur[active]
    BY <1>2, SMTT(30) DEF Pages
<1> HIDE DEF P
<1>5. P \cap Present(active) = {}
    BY <1>1, <1>4, RoomAbove, SMTT(30)
<1>6. Abs!AbsNext \/ UNCHANGED Abs!absVars
    BY <1>1, <1>3, <1>4, <1>5, MapImplements, ZenonT(60)
<1>7. \A p \in Pages : pt[active][p].frame # 0 => pt'[active][p] = pt[active][p]
  <2>1. \A u \in Spaces, p \in Pages : u # active \/ p \notin P => pt'[u][p] = pt[u][p]
    BY <1>1, <1>3, <1>4, <1>5, MapKeeps, ZenonT(60)
  <2> QED
    BY <2>1, <1>1, <1>5, SMTT(30) DEF Present
<1>8. WritesAllowed'
    BY <1>3, <1>7, WritesKeep, ZenonT(60)
<1> QED
    BY <1>6, <1>8, SMTT(30) DEF Implements

\* brk is Map or Unmap, or changes nothing.
LEMMA BrkImplements ==
    ASSUME VmInv, VmInv', WritesAllowed, NEW newbrk \in 0..HeapMax, uvm_brk(newbrk)
    PROVE  Implements
<1>1. active \in live /\ active \in Spaces /\ active # NoSpace
  <2>1. active # NoSpace
    BY Zenon DEF uvm_brk
  <2> QED
    BY <2>1, SpaceFacts, Zenon
<1>2. /\ brk_cur[active] \in 0..HeapMax /\ HeapMax \in Nat /\ ArenaEnd \in Nat
      /\ HeapMax <= ArenaEnd
    BY <1>1, VmAssumption, SMTT(30) DEF VmInv, FramesCounted, TypeOK
<1> DEFINE G == (brk_cur[active] + 1)..newbrk
           S == (newbrk + 1)..brk_cur[active]
<1>3. Invlpg(S) /\ live' = live /\ active' = active
    BY Zenon DEF uvm_brk
<1>4. /\ newbrk > brk_cur[active] => Commit(active, map_anon(Memory(active), G, TRUE))
      /\ ~(newbrk > brk_cur[active]) => Commit(active, vmspace_unmap(Memory(active), S))
    BY Zenon DEF uvm_brk
<1>5. /\ G \in SUBSET Pages /\ S \in SUBSET Pages
      /\ \A p \in G : p <= HeapMax /\ p > brk_cur[active]
    BY <1>2, SMTT(30) DEF Pages
<1> HIDE DEF G, S
<1>6. \A p \in Pages : tlb'[p] = IF p \in S THEN NoEntry ELSE tlb[p]
    BY <1>3, InvlpgLeaves, SMTT(30)
<1>7. CASE newbrk > brk_cur[active]
  <2>1. Commit(active, map_anon(Memory(active), G, TRUE)) /\ TRUE \in BOOLEAN
    BY <1>4, <1>7, ZenonT(60)
  <2>2. G \cap Present(active) = {}
    BY <1>1, <1>5, RoomAbove
  <2>3. Abs!AbsNext \/ UNCHANGED Abs!absVars
    BY <2>1, <2>2, <1>1, <1>3, <1>5, MapImplements, ZenonT(60)
  <2>4. \A p \in Pages : pt[active][p].frame # 0 => pt'[active][p] = pt[active][p]
    <3>1. \A u \in Spaces, p \in Pages : u # active \/ p \notin G => pt'[u][p] = pt[u][p]
        BY <2>1, <2>2, <1>1, <1>3, <1>5, MapKeeps, ZenonT(60)
    <3> QED
        BY <3>1, <2>2, <1>1, Zenon DEF Present
  <2>5. WritesAllowed'
    BY <2>4, <1>3, <1>6, WritesKeep, SMTT(30)
  <2> QED
    BY <2>3, <2>5, Zenon DEF Implements
<1>8. CASE ~(newbrk > brk_cur[active])
  <2>1. Commit(active, vmspace_unmap(Memory(active), S))
    BY <1>4, <1>8, SMTT(30)
  <2>2. Abs!AbsNext
    BY <2>1, <1>1, <1>3, <1>5, UnmapImplements, SMTT(30)
  <2>3. \A p \in Pages : pt'[active][p] = IF p \in S THEN NotPresent ELSE pt[active][p]
    BY <2>1, <1>1, <1>3, <1>5, UnmapCounted, SMTT(30)
  <2>4. WritesAllowed'
    BY <2>3, <1>3, <1>6, WritesKeep, SMTT(30)
  <2> QED
    BY <2>2, <2>4, Zenon DEF Implements
<1> QED
    BY <1>7, <1>8, SMTT(30)

\* mprotect is Protect, where no fork has shared the pages.
LEMMA MprotectImplements ==
    ASSUME VmInv, WritesAllowed, MprotectUnshared, NEW P \in SUBSET Pages, NEW w \in BOOLEAN,
           uvm_mprotect(P, w)
    PROVE  Implements
<1> DEFINE C == {p \in P : \A q \in P : q <= p => q \in Present(active)}
<1>1. /\ \A p \in C : IF w THEN pt[active][p].cow \/ refcount[pt[active][p].frame] = 1
                      ELSE ~pt[active][p].cow
      /\ pt' = [pt EXCEPT ![active] = [p \in Pages |->
                                         IF p \in C THEN vmspace_protect(pt[active][p], w)
                                         ELSE pt[active][p]]]
      /\ Invlpg(C) /\ live' = live /\ active' = active /\ data' = data
    BY ZenonT(60) DEF uvm_mprotect, physical
<1>2. PICK s \in live : s = active /\ s \in Spaces /\ live \subseteq Spaces
  <2>1. active # NoSpace
    BY Zenon DEF uvm_mprotect
  <2> QED
    BY <2>1, SpaceFacts, Zenon
<1>3. pt \in [Spaces -> [Pages -> Ptes]]
    BY Zenon DEF VmInv, FramesCounted, TypeOK, Ptes
<1>4. \A p \in C : p \in Pages /\ pt[s][p].frame # 0
  <2>1. \A p \in Pages : p <= p
    BY VmAssumption, SMTT(30) DEF Pages
  <2> QED
    BY <2>1, <1>2, SMTT(30) DEF Present
<1> HIDE DEF C
<1>5. \A u \in Spaces, p \in Pages :
         pt'[u][p] = IF u = s /\ p \in C THEN vmspace_protect(pt[u][p], w) ELSE pt[u][p]
    BY <1>1, <1>2, <1>3, SMTT(30)
<1>6. ASSUME NEW p \in C
      PROVE  Cell(s, p).mapped /\ Cell(s, p)' = [Cell(s, p) EXCEPT !.w = w]
  <2>1. pt[s][p] \in Ptes /\ p \in Pages /\ p \in Present(s)
    BY <1>2, <1>3, <1>4, <1>6, ZenonT(60) DEF Present
  <2>2. /\ pt'[s][p].frame = pt[s][p].frame
        /\ pt'[s][p].w = (w /\ ~pt[s][p].cow) /\ pt'[s][p].cow = pt[s][p].cow
    <3>1. pt'[s][p] = vmspace_protect(pt[s][p], w)
        BY <2>1, <1>2, <1>5, <1>6
    <3> QED
        BY <3>1, <2>1, ProtectFacts, SMTT(30)
  <2>3. (pt'[s][p].w \/ pt'[s][p].cow) = w
    <3>1. pt[s][p].cow \in BOOLEAN /\ (~w => ~pt[s][p].cow)
        BY <2>1, <1>1, <1>2, <1>6, SMTT(30) DEF Ptes
    <3> QED
        BY <3>1, <2>2, SMTT(30)
  <2>4. (p \in Present(s)') = TRUE /\ (p \in Present(s)) = TRUE
    BY <2>1, <2>2, Zenon DEF Present
  <2>5. Cell(s, p) = [val |-> data[pt[s][p].frame], w |-> pt[s][p].w \/ pt[s][p].cow, mapped |-> TRUE]
    BY <2>4, ZenonT(60) DEF Cell
  <2>6. Cell(s, p)' = [val |-> data[pt[s][p].frame], w |-> w, mapped |-> TRUE]
    BY <2>2, <2>3, <2>4, <1>1, ZenonT(60) DEF Cell
  <2>7. Cell(s, p).mapped = TRUE
    BY <2>5, SMTT(30)
  <2>8. Cell(s, p)' = [Cell(s, p) EXCEPT !.w = w]
    <3>1. PICK v, a, m : Cell(s, p) = CellOf(v, a, m) /\ Cell(s, p)' = CellOf(v, w, m)
        BY <2>5, <2>6, Zenon DEF CellOf
    <3>2. WithW(CellOf(v, a, m), w) = CellOf(v, w, m)
        BY CellWriteBit, SMTT(30)
    <3>3. WithW(Cell(s, p), w) = Cell(s, p)'
        BY <3>1, <3>2, Zenon
    <3> QED
        BY <3>3, Zenon DEF WithW
  <2> QED
    BY <2>7, <2>8, SMTT(30)
<1>7. ASSUME NEW u \in Spaces, NEW p \in Pages, ~(u = s /\ p \in C)
      PROVE  Cell(u, p)' = Cell(u, p)
  <2>1. pt'[u][p] = pt[u][p]
    BY <1>5, <1>7, Zenon
  <2> QED
    BY <2>1, <1>1, CellSame, Zenon
<1>8. Abs!AbsNext
  <2>1. \A u \in Spaces, p \in Pages :
           \/ Cell(u, p)' = Cell(u, p)
           \/ u = s /\ Cell(u, p).mapped /\ Cell(u, p)' = [Cell(u, p) EXCEPT !.w = w]
    BY <1>6, <1>7, ZenonT(60)
  <2> QED
    BY <2>1, <1>1, <1>2, AbsProtects
<1>9. \A p \in Pages : tlb'[p] = IF p \in C THEN NoEntry ELSE tlb[p]
    BY <1>1, InvlpgLeaves, ZenonT(60)
<1>10. WritesAllowed'
    BY <1>1, <1>2, <1>5, <1>9, WritesKeep, SMTT(30)
<1> QED
    BY <1>8, <1>10, Zenon DEF Implements

\* Whether the handler copies the page or finds it alone, its contents stay what they were.
LEMMA FaultImplements ==
    ASSUME VmInv, WritesAllowed, NEW p \in Pages, exception_handler(p)
    PROVE  Implements
<1> DEFINE m == vmspace_cow_fault(Memory(active), p)
<1>1. PICK s \in live : s = active /\ s \in Spaces /\ live \subseteq Spaces
    BY SpaceFacts, Zenon DEF exception_handler
<1>2. CASE ~m.ok /\ vmspace_destroy(active)
    BY <1>1, <1>2, DestroyImplements, SMTT(30)
<1>3. CASE m.ok /\ Commit(active, m) /\ Invlpg({p}) /\ UNCHANGED <<live, brk_cur, mmap_cur, active>>
  <2>1. pt[s][p].cow = TRUE
    <3>1. pt[s][p].cow
        BY <1>1, <1>3, CowElse, ZenonT(60)
    <3>2. pt[s][p] \in Ptes
        BY <1>1, SMTT(30) DEF VmInv, FramesCounted, TypeOK, Ptes
    <3> QED
        BY <3>1, <3>2, Zenon DEF Ptes
  <2>2. /\ pt \in [Spaces -> [Pages -> Ptes]] /\ data \in [Frames -> Values]
        /\ refcount \in [Frames -> Nat]
    BY SMTT(30) DEF VmInv, FramesCounted, TypeOK, Ptes
  <2>3. PICK old \in Frames : old = pt[s][p].frame /\ old \in used /\ old # 0
    <3>1. pt[s][p].frame # 0
        BY <2>1, <1>1, PteTypes DEF VmInv, HolesClear
    <3> QED
        BY <3>1, <1>1, FrameInUse, ZenonT(60)
  <2>4. PICK nf \in Frames : /\ m.pt = [pt[s] EXCEPT ![p] = Pte(nf, TRUE, FALSE)]
                             /\ \A f \in used : m.data[f] = data[f]
                             /\ m.data[nf] = data[old]
    <3>1. CASE refcount[old] <= 1
      <4>1. m.data = data /\ m.pt = [pt[s] EXCEPT ![p] = Pte(old, TRUE, FALSE)]
        BY <3>1, <2>1, <2>3, <1>1, CowElse, ZenonT(60)
      <4> HIDE DEF m
      <4> QED
        BY <4>1, Zenon
    <3>2. CASE ~(refcount[old] <= 1)
      <4>1. Left(used, tables) # 0 /\ refcount[old] > 1
        <5>1. Left(used, tables) = 0 => ~m.ok
            BY <3>2, <2>1, <2>3, <1>1, CowElse, ZenonT(60)
        <5> HIDE DEF m
        <5> QED
            BY <5>1, <3>2, <2>2, <1>3, SMTT(30)
      <4>2. PICK nf \in Frames \ used : CopyOf(m, s, p, nf)
        BY <4>1, <2>1, <2>3, <1>1, CowCopy, ZenonT(60)
      <4> HIDE DEF m
      <4>3. /\ m.pt = [pt[s] EXCEPT ![p] = Pte(nf, TRUE, FALSE)]
            /\ m.data = [data EXCEPT ![nf] = data[old]]
        BY <4>2, <2>3, SMTT(30) DEF CopyOf
      <4>4. \A f \in used : m.data[f] = data[f]
        BY <4>3, <2>2, SMTT(30)
      <4>5. m.data[nf] = data[old]
        BY <4>3, <2>2, SMTT(30)
      <4> QED
        BY <4>3, <4>4, <4>5, ZenonT(60)
    <3> QED
        BY <3>1, <3>2, ZenonT(60)
  <2> HIDE DEF m
  <2>5. /\ data' = m.data /\ pt' = [pt EXCEPT ![s] = m.pt] /\ live' = live /\ active' = active
    BY <1>1, <1>3, Zenon DEF Commit
  <2>6. \A u \in Spaces, q \in Pages :
           pt'[u][q] = IF u = s /\ q = p THEN Pte(nf, TRUE, FALSE) ELSE pt[u][q]
    BY <2>2, <2>4, <2>5, <1>1, ZenonT(60)
  <2>7. /\ pt'[s][p].frame = nf /\ pt'[s][p].frame # 0
        /\ (pt'[s][p].w \/ pt'[s][p].cow) = (pt[s][p].w \/ pt[s][p].cow)
    <3>1. pt'[s][p] = Pte(nf, TRUE, FALSE)
        BY <2>6, <1>1, ZenonT(60)
    <3>2. pt'[s][p].frame = nf /\ pt'[s][p].w = TRUE /\ nf # 0
        BY <3>1, PteTypes, ZenonT(60)
    <3> QED
        BY <3>2, <2>1, ZenonT(60)
  <2>8. ASSUME NEW u \in Spaces, NEW q \in Pages
        PROVE  Cell(u, q)' = Cell(u, q)
    <3>1. CASE u = s /\ q = p
      <4>1. /\ pt'[u][q].frame = 0 <=> pt[u][q].frame = 0
            /\ (pt'[u][q].w \/ pt'[u][q].cow) = (pt[u][q].w \/ pt[u][q].cow)
            /\ pt[u][q].frame # 0 => data'[pt'[u][q].frame] = data[pt[u][q].frame]
        BY <3>1, <2>3, <2>4, <2>5, <2>7, ZenonT(60)
      <4> QED
        BY <4>1, CellCopy, ZenonT(60)
    <3>2. CASE ~(u = s /\ q = p)
      <4>1. pt'[u][q] = pt[u][q]
        BY <3>2, <2>6, ZenonT(60)
      <4>2. pt[u][q].frame # 0 => data'[pt[u][q].frame] = data[pt[u][q].frame]
        BY <2>4, <2>5, FrameInUse, ZenonT(60)
      <4> QED
        BY <4>1, <4>2, CellSame, ZenonT(60)
    <3> QED
        BY <3>1, <3>2, Zenon
  <2>9. \A q \in Pages : tlb'[q] = IF q \in {p} THEN NoEntry ELSE tlb[q]
    BY <1>3, InvlpgLeaves, ZenonT(60)
  <2>10. WritesAllowed'
    <3>1. \A q \in Pages : \/ tlb'[q] = NoEntry
                           \/ tlb'[q] = tlb[q] /\ pt'[active][q] = pt[active][q]
        BY <2>6, <2>9, <1>1, ZenonT(60)
    <3> QED
        BY <3>1, <2>5, WritesKeep, Zenon
  <2> QED
    BY <2>5, <2>8, <2>10, AbsStutter, ZenonT(60) DEF Implements
<1> QED
    BY <1>2, <1>3, SMTT(30) DEF exception_handler

\* Every step implements a step of VmAbs, or changes no cell.
LEMMA NextImplements ==
    ASSUME VmInv, VmInv', WritesAllowed, MprotectUnshared, [Next]_vars
    PROVE  Implements
<1>1. CASE UNCHANGED vars
  <2>1. UNCHANGED <<live, pt, data>> /\ active' = active /\ tlb' = tlb
    BY <1>1, SMTT(30) DEF vars
  <2>2. WritesAllowed'
    BY <2>1, SMTT(30) DEF WritesAllowed, Cached
  <2> QED
    BY <2>1, <2>2, StillImplements, SMTT(30) DEF Implements
<1>2. ASSUME NEW s \in Spaces,
             vmspace_create(s) \/ context_switch(s) \/ vmspace_fork(s) \/ vmspace_fork_fails(s)
      PROVE  Implements
    BY <1>2, CreateImplements, SwitchImplements, ForkImplements, ForkFailsImplements, ZenonT(60)
<1>3. CASE active # NoSpace /\ vmspace_destroy(active)
  <2>1. active \in Spaces
    BY <1>3, Zenon DEF VmInv, FramesCounted, TypeOK
  <2> QED
    BY <2>1, <1>3, DestroyImplements, SMTT(30)
<1>4. ASSUME NEW n \in 0..HeapMax, uvm_brk(n) PROVE Implements
    BY <1>4, BrkImplements, Zenon
<1>5. ASSUME NEW n \in 1..ArenaEnd, NEW w \in BOOLEAN, uvm_mmap(n, w) PROVE Implements
    BY <1>5, MmapImplements, Zenon
<1>6. ASSUME NEW lo \in Pages, NEW hi \in Pages, uvm_munmap(lo..hi) PROVE Implements
  <2>1. lo..hi \in SUBSET Pages
    BY VmAssumption DEF Pages
  <2> QED
    BY <2>1, <1>6, MunmapImplements, ZenonT(60)
<1>7. ASSUME NEW lo \in Pages, NEW hi \in Pages, NEW w \in BOOLEAN, uvm_mprotect(lo..hi, w)
      PROVE  Implements
  <2>1. lo..hi \in SUBSET Pages
    BY VmAssumption DEF Pages
  <2> QED
    BY <2>1, <1>7, MprotectImplements, ZenonT(60)
<1>8. ASSUME NEW p \in Pages, Load(p) \/ exception_handler(p) PROVE Implements
    BY <1>8, LoadImplements, FaultImplements, Zenon
<1>9. ASSUME NEW p \in Pages, NEW v \in Values, Store(p, v) PROVE Implements
    BY <1>9, StoreImplements, Zenon
<1> QED
    BY <1>1, <1>2, <1>3, <1>4, <1>5, <1>6, <1>7, <1>8, <1>9, ZenonT(60) DEF Next

\* At boot there is no space and no cell is mapped.
LEMMA InitImplements ==
    ASSUME Init
    PROVE  Abs!AbsInit /\ WritesAllowed
<1>1. \A s \in Spaces, p \in Pages : pt[s][p] = NotPresent
    BY Zenon DEF Init
<1>2. ASSUME NEW s \in Spaces, NEW p \in Pages PROVE Cell(s, p) = Abs!Unmapped
  <2>1. /\ (p \in Present(s)) = FALSE /\ (pt[s][p].w \/ pt[s][p].cow) = FALSE
    BY <1>1, PteTypes DEF Present
  <2> QED
    BY <2>1, ZenonT(60) DEF Cell, Abs!Unmapped
<1>3. Mem = [s \in Spaces |-> [p \in Pages |-> Abs!Unmapped]]
    BY <1>2, SMTT(30) DEF Mem
<1>4. WritesAllowed
    BY EmptyTlb, Zenon DEF Init, WritesAllowed, Cached
<1> QED
    BY <1>3, <1>4, Zenon DEF Init, Abs!AbsInit

\* Copy-on-write memory implements private memory: whatever the processes fork, map, write,
\* fault on and fail to allocate, each of them sees a memory that only its own calls and
\* writes change (vmspace.c, uvm.c and the page-fault handler in idt.c), as long as no
\* mprotect meets a page that a fork has shared.
THEOREM MemoryStaysPrivate == MprotectUnshared => (Spec => PrivateMemory)
<1> SUFFICES ASSUME MprotectUnshared PROVE Spec => PrivateMemory
    BY Zenon
<1>1. Init => Abs!AbsInit /\ WritesAllowed
    BY InitImplements, Zenon
<1>2. VmInv /\ VmInv' /\ WritesAllowed /\ [Next]_vars => Implements
    BY NextImplements, Zenon
<1>3. VmInv /\ VmInv' /\ WritesAllowed /\ [Next]_vars => WritesAllowed' /\ [Abs!AbsNext]_(Abs!absVars)
    BY <1>2, Zenon DEF Implements
<1>4. Spec => []VmInv
    BY VmInvAlways, Zenon
<1> QED
    BY <1>1, <1>3, <1>4, PTL DEF Spec, PrivateMemory, Abs!AbsSpec
=============================================================================
