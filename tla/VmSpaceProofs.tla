---------------------------- MODULE VmSpaceProofs ----------------------------
(***************************************************************************)
(* Proofs about VmSpace: for any number of spaces, frames and pages, and   *)
(* through every failure of an allocation, reference counts are exact, no  *)
(* frame is lost or freed in use, and the TLB never lets a program reach a *)
(* frame that its page table no longer gives it, provided programs call    *)
(* mprotect only where no fork has shared the page (MprotectUnshared).     *)
(***************************************************************************)
EXTENDS VmSpace, FiniteSetTheorems, TLAPS

\* A page that is not present has no flags.
HolesClear == \A s \in Spaces, p \in Pages : pt[s][p].frame = 0 => pt[s][p] = NotPresent

\* A writable entry is the only one that maps its frame.
WritableSole ==
    \A s \in Spaces, p \in Pages :
        pt[s][p].w => Mappers(pt[s][p].frame) = {<<s, p>>}

\* The inductive invariant.
VmInv ==
    /\ FramesCounted /\ HolesClear /\ WritableSole /\ TlbSafe
    /\ active \in live \cup {NoSpace}

-----------------------------------------------------------------------------
(* Lemmas about sets *)

\* Everything the counts range over is finite.
LEMMA FiniteSpaces ==
    /\ IsFiniteSet(Pages) /\ IsFiniteSet(Frames) /\ IsFiniteSet(Arenas)
    /\ IsFiniteSet(Spaces) /\ Cardinality(Frames) = NFrames
    /\ \A f : IsFiniteSet(Mappers(f))
<1>1. IsFiniteSet(Pages) /\ IsFiniteSet(Frames) /\ Cardinality(Frames) = NFrames
  <2>1. NFrames \in Nat /\ ArenaEnd \in Nat /\ NFrames \in Int /\ ArenaEnd \in Int /\ 1 \in Int
    BY VmAssumption
  <2>2. IsFiniteSet(1..ArenaEnd) /\ IsFiniteSet(1..NFrames)
    BY <2>1, FS_Interval, Zenon
  <2>3. Cardinality(1..NFrames) = IF 1 > NFrames THEN 0 ELSE NFrames - 1 + 1
    BY <2>1, FS_Interval, Zenon
  <2> QED
    BY <2>1, <2>2, <2>3 DEF Pages, Frames
<1>2. IsFiniteSet(Arenas)
  <2>1. Arenas = {"heap"} \cup {"mmap"}
    BY DEF Arenas
  <2> QED
    BY <2>1, FS_Singleton, FS_AddElement, Zenon
<1>3. IsFiniteSet(Spaces)
    BY VmAssumption
<1>4. IsFiniteSet(Spaces \X Pages)
    BY <1>1, <1>3, FS_Product, Zenon
<1>5. \A f : IsFiniteSet(Mappers(f))
    BY <1>4, FS_Subset, Zenon DEF Mappers
<1> QED
    BY <1>1, <1>2, <1>3, <1>5, Zenon

\* Numbers, for steps that need no more of them.
LEMMA Numbers ==
    /\ \A n \in Nat : n > 1 => n - 1 \in Nat /\ n - 1 > 0
    /\ 1 \in Nat /\ ~(0 > 0)
OBVIOUS

\* One goes and none comes.
LEMMA OneLess ==
    ASSUME NEW m \in Nat, NEW n \in Nat, NEW out, NEW in, out = 1, in = 0, n = m - out + in
    PROVE  n = m - 1
OBVIOUS

\* The pairs of two singletons.
LEMMA OnePair == \A s, p : {s} \X {p} = {<<s, p>>}
OBVIOUS

\* While a frame is left, the page tables leave room for one more.
LEMMA SomeLeft ==
    ASSUME used \subseteq Frames, tables \in 0..(NFrames - Cardinality(used)), Left(used, tables) # 0
    PROVE  /\ IsFiniteSet(used) /\ Cardinality(used) \in Nat /\ NFrames \in Nat
           /\ Left(used, tables) >= 1 /\ tables \in 0..(NFrames - (Cardinality(used) + 1))
<1>1. IsFiniteSet(used) /\ Cardinality(used) \in Nat
    BY FiniteSpaces, FS_Subset, FS_CardinalityType, Zenon
<1>2. NFrames \in Nat
    BY VmAssumption
<1> QED
    BY <1>1, <1>2 DEF Left

\* A finite set and its pairs with one element have the same size.
LEMMA PairsCount ==
    ASSUME NEW S, IsFiniteSet(S), NEW s
    PROVE  IsFiniteSet({s} \X S) /\ Cardinality({s} \X S) = Cardinality(S)
<1>1. IsFiniteSet({s}) /\ Cardinality({s}) = 1
    BY FS_Singleton, Zenon
<1>2. Cardinality(S) \in Nat
    BY FS_CardinalityType, Zenon
<1>3. IsFiniteSet({s} \X S) /\ Cardinality({s} \X S) = Cardinality({s}) * Cardinality(S)
    BY <1>1, FS_Product, Zenon
<1> QED
    BY <1>1, <1>2, <1>3

\* Taking a finite subset away, and adding a disjoint set.
LEMMA CountLess ==
    ASSUME NEW S, NEW T, IsFiniteSet(S), T \subseteq S
    PROVE  /\ IsFiniteSet(T) /\ IsFiniteSet(S \ T)
           /\ Cardinality(S) \in Nat /\ Cardinality(T) \in Nat /\ Cardinality(S \ T) \in Nat
           /\ Cardinality(S \ T) = Cardinality(S) - Cardinality(T)
           /\ Cardinality(T) <= Cardinality(S)
<1>1. IsFiniteSet(T) /\ IsFiniteSet(S \ T) /\ Cardinality(T) <= Cardinality(S)
    BY FS_Subset, FS_Difference, Zenon
<1>2. S \cap T = T
    BY Zenon
<1>3. Cardinality(S \ T) = Cardinality(S) - Cardinality(S \cap T)
    BY FS_Difference, Zenon
<1> QED
    BY <1>1, <1>2, <1>3, FS_CardinalityType, Zenon

\* Two disjoint finite sets together have as many elements as both.
LEMMA CountMore ==
    ASSUME NEW S, NEW T, IsFiniteSet(S), IsFiniteSet(T), S \cap T = {}
    PROVE  /\ IsFiniteSet(S \cup T)
           /\ Cardinality(S) \in Nat /\ Cardinality(T) \in Nat
           /\ Cardinality(S \cup T) = Cardinality(S) + Cardinality(T)
<1>1. Cardinality(S \cup T) = Cardinality(S) + Cardinality(T) - Cardinality(S \cap T)
    BY FS_Union, Zenon
<1>2. Cardinality(S \cap T) = 0
    BY FS_EmptySet, Zenon
<1> QED
    BY <1>1, <1>2, FS_Union, FS_CardinalityType

-----------------------------------------------------------------------------
(* Unmapping *)

\* The pages of P at which space s maps frame f.
At(s, P, f) == {p \in P : pt[s][p].frame = f}

\* The frames that lose their last reference when s unmaps the pages P.
Freed(s, P) == {f \in Frames : /\ Cardinality(At(s, P, f)) > 0
                               /\ refcount[f] <= Cardinality(At(s, P, f))}
StillUsed(s, P) == used \ Freed(s, P)

\* What unmapping the pages P of s makes of the memory.
LEMMA UnmapResult ==
    ASSUME NEW s \in Spaces, NEW P \in SUBSET Pages
    PROVE  /\ vmspace_unmap(Memory(s), P).refcount =
                 [f \in Frames |-> IF f \in Freed(s, P) THEN 0
                                   ELSE refcount[f] - Cardinality(At(s, P, f))]
           /\ vmspace_unmap(Memory(s), P).used = StillUsed(s, P)
           /\ vmspace_unmap(Memory(s), P).data =
                 [f \in Frames |-> IF f \in Freed(s, P) THEN Garbage ELSE data[f]]
           /\ vmspace_unmap(Memory(s), P).pt =
                 [p \in Pages |-> IF p \in P THEN NotPresent ELSE pt[s][p]]
           /\ vmspace_unmap(Memory(s), P).ok = TRUE
           /\ vmspace_unmap(Memory(s), P).tables = tables
           /\ vmspace_unmap(Memory(s), P).table = table[s]
    BY DEF vmspace_unmap, page_decref, Memory, At, Freed, StillUsed

Ptes == [frame : Frames \cup {0}, w : BOOLEAN, cow : BOOLEAN]

\* The frames some entry maps.
InUse == {f \in Frames : Mappers(f) # {}}

\* The fields of page-table entries.
LEMMA PteTypes ==
    /\ NotPresent \in Ptes /\ NotPresent.frame = 0 /\ NotPresent.w = FALSE
    /\ NotPresent.cow = FALSE /\ 0 \notin Frames
    /\ \A f \in Frames \cup {0}, w, c \in BOOLEAN :
          Pte(f, w, c) \in Ptes /\ Pte(f, w, c).frame = f /\ Pte(f, w, c).w = w
          /\ Pte(f, w, c).cow = c
    BY DEF Ptes, NotPresent, Pte, Frames

\* A writable entry is present.
LEMMA WritablePresent ==
    ASSUME VmInv, NEW s \in Spaces, NEW p \in Pages, pt[s][p].w
    PROVE  /\ pt[s][p].frame \in Frames
           /\ Mappers(pt[s][p].frame) = {<<s, p>>}
    BY PteTypes DEF VmInv, FramesCounted, TypeOK, HolesClear, WritableSole

\* The step clears the entries of the pages P of s, and no others.
Unmaps(s, P) ==
    \A u \in Spaces, p \in Pages :
        pt'[u][p] = IF u = s /\ p \in P THEN NotPresent ELSE pt[u][p]

\* Unmapping pages of s drops exactly their references.
LEMMA UnmapKeeps ==
    ASSUME VmInv, NEW s \in Spaces, NEW P \in SUBSET Pages,
           refcount' = vmspace_unmap(Memory(s), P).refcount,
           used' = vmspace_unmap(Memory(s), P).used,
           data' = vmspace_unmap(Memory(s), P).data,
           pt' = [pt EXCEPT ![s] = vmspace_unmap(Memory(s), P).pt]
    PROVE  /\ refcount' \in [Frames -> Nat] /\ data' \in [Frames -> Values]
           /\ pt' \in [Spaces -> [Pages -> Ptes]]
           /\ RefcountsExact' /\ HolesClear' /\ WritableSole'
           /\ used' = InUse' /\ used' \subseteq used
           /\ \A f \in Frames : Mappers(f)' = Mappers(f) \ ({s} \X At(s, P, f))
           /\ Unmaps(s, P) /\ \A f \in used' : data'[f] = data[f]
<1> DEFINE freed == Freed(s, P)
<1>1. /\ refcount' = [f \in Frames |-> IF f \in freed THEN 0
                                       ELSE refcount[f] - Cardinality(At(s, P, f))]
      /\ used' = used \ freed
      /\ data' = [f \in Frames |-> IF f \in freed THEN Garbage ELSE data[f]]
      /\ pt' = [pt EXCEPT ![s] = [p \in Pages |-> IF p \in P THEN NotPresent ELSE pt[s][p]]]
  <2>1. refcount' = [f \in Frames |-> IF f \in freed THEN 0
                                      ELSE refcount[f] - Cardinality(At(s, P, f))]
    BY UnmapResult, ZenonT(60)
  <2>2. used' = used \ freed
    <3>1. used' = StillUsed(s, P)
        BY UnmapResult, Zenon
    <3> QED
        BY <3>1, Zenon DEF StillUsed
  <2>3. data' = [f \in Frames |-> IF f \in freed THEN Garbage ELSE data[f]]
    BY UnmapResult, ZenonT(60)
  <2>4. pt' = [pt EXCEPT ![s] = [p \in Pages |-> IF p \in P THEN NotPresent ELSE pt[s][p]]]
    BY UnmapResult, ZenonT(60)
  <2> QED
    BY <2>1, <2>2, <2>3, <2>4, Zenon
<1>2. /\ refcount \in [Frames -> Nat] /\ data \in [Frames -> Values]
      /\ pt \in [Spaces -> [Pages -> Ptes]]
      /\ RefcountsExact /\ HolesClear /\ WritableSole
      /\ used = {f \in Frames : Mappers(f) # {}}
    BY Zenon DEF VmInv, FramesCounted, TypeOK, FramesExact, Ptes
<1>3. \A u \in Spaces, p \in Pages :
         pt'[u][p] = IF u = s /\ p \in P THEN NotPresent ELSE pt[u][p]
    BY <1>1, <1>2
<1>4. pt' \in [Spaces -> [Pages -> Ptes]]
    BY <1>1, <1>2, PteTypes
<1>5. data' \in [Frames -> Values]
    BY <1>1, <1>2, VmAssumption
<1>6. ASSUME NEW f \in Frames
      PROVE  /\ {s} \X At(s, P, f) \subseteq Mappers(f)
             /\ Mappers(f)' = Mappers(f) \ ({s} \X At(s, P, f))
  <2>1. {s} \X At(s, P, f) \subseteq Mappers(f)
    BY Zenon DEF At, Mappers
  <2>2. ASSUME NEW x \in Spaces \X Pages
        PROVE  x \in Mappers(f)' <=> x \in Mappers(f) /\ x \notin {s} \X At(s, P, f)
    <3>1. PICK u \in Spaces, p \in Pages : x = <<u, p>>
        OBVIOUS
    <3>2. x \in Mappers(f)' <=> pt'[u][p].frame = f
        BY <3>1, Zenon DEF Mappers
    <3>3. x \in Mappers(f) <=> pt[u][p].frame = f
        BY <3>1, Zenon DEF Mappers
    <3>4. x \in {s} \X At(s, P, f) <=> u = s /\ p \in P /\ pt[u][p].frame = f
        BY <3>1, Zenon DEF At
    <3> QED
        BY <3>2, <3>3, <3>4, <1>3, PteTypes
  <2>3. Mappers(f) \subseteq Spaces \X Pages /\ Mappers(f)' \subseteq Spaces \X Pages
    BY Zenon DEF Mappers
  <2> QED
    BY <2>1, <2>2, <2>3, Zenon
<1>7. ASSUME NEW f \in Frames
      PROVE  /\ refcount[f] = Cardinality(Mappers(f)) /\ IsFiniteSet(Mappers(f)')
             /\ refcount[f] \in Nat
             /\ Cardinality(At(s, P, f)) \in Nat /\ Cardinality(Mappers(f)') \in Nat
             /\ Cardinality(At(s, P, f)) <= refcount[f]
             /\ Cardinality(Mappers(f)') = refcount[f] - Cardinality(At(s, P, f))
  <2>1. IsFiniteSet(At(s, P, f))
    <3>1. IsFiniteSet(Pages) /\ At(s, P, f) \subseteq Pages
        BY FiniteSpaces, Zenon DEF At
    <3> QED
        BY <3>1, FS_Subset, Zenon
  <2>2. Cardinality({s} \X At(s, P, f)) = Cardinality(At(s, P, f))
    BY <2>1, PairsCount, Zenon
  <2>3. refcount[f] = Cardinality(Mappers(f)) /\ IsFiniteSet(Mappers(f))
    BY <1>2, FiniteSpaces, Zenon DEF RefcountsExact
  <2>4. /\ IsFiniteSet(Mappers(f)')
        /\ Cardinality(Mappers(f)) \in Nat /\ Cardinality({s} \X At(s, P, f)) \in Nat
        /\ Cardinality(Mappers(f)') \in Nat
        /\ Cardinality(Mappers(f)') = Cardinality(Mappers(f)) - Cardinality({s} \X At(s, P, f))
        /\ Cardinality({s} \X At(s, P, f)) <= Cardinality(Mappers(f))
    BY <2>3, <1>6, CountLess, ZenonT(60)
  <2> QED
    BY <2>2, <2>3, <2>4, Zenon
<1>8. ASSUME NEW f \in Frames
      PROVE  refcount'[f] = Cardinality(Mappers(f)') /\ refcount'[f] \in Nat
             /\ (f \in freed => Cardinality(Mappers(f)') = 0)
             /\ (f \notin freed => Cardinality(At(s, P, f)) = 0 \/ Cardinality(Mappers(f)') > 0)
    BY <1>1, <1>7 DEF Freed
<1> HIDE DEF freed
<1>9. refcount' \in [Frames -> Nat] /\ RefcountsExact'
    BY <1>1, <1>8, Zenon DEF RefcountsExact
<1>10. used' = {f \in Frames : Mappers(f)' # {}}
  <2>1. ASSUME NEW f \in Frames
        PROVE  f \in used' <=> Mappers(f)' # {}
    <3>1. CASE f \in freed
      <4>1. Mappers(f)' = {}
        BY <3>1, <1>7, <1>8, FS_EmptySet, Zenon
      <4> QED
        BY <4>1, <3>1, <1>1, Zenon
    <3>2. CASE f \notin freed /\ Cardinality(At(s, P, f)) = 0
      <4>1. IsFiniteSet(At(s, P, f))
        <5>1. IsFiniteSet(Pages) /\ At(s, P, f) \subseteq Pages
            BY FiniteSpaces, Zenon DEF At
        <5> QED
            BY <5>1, FS_Subset, Zenon
      <4>2. At(s, P, f) = {}
        BY <4>1, <3>2, FS_EmptySet, Zenon
      <4>3. Mappers(f)' = Mappers(f)
        BY <4>2, <1>6, Zenon
      <4> QED
        BY <4>3, <3>2, <1>1, <1>2, Zenon
    <3>3. CASE f \notin freed /\ Cardinality(Mappers(f)') > 0
      <4>1. Mappers(f)' # {}
        BY <3>3, FS_EmptySet
      <4> QED
        BY <4>1, <3>3, <1>1, <1>2, <1>6, Zenon
    <3> QED
        BY <3>1, <3>2, <3>3, <1>8, Zenon
  <2>2. used' \subseteq Frames
    BY <1>1, <1>2, Zenon
  <2> QED
    BY <2>1, <2>2, Zenon
<1>11. HolesClear'
    BY <1>2, <1>3 DEF HolesClear
<1>12. WritableSole'
  <2> SUFFICES ASSUME NEW u \in Spaces, NEW p \in Pages, pt'[u][p].w
               PROVE  Mappers(pt[u][p].frame)' = {<<u, p>>}
    BY Zenon DEF WritableSole
  <2>1. pt'[u][p] = pt[u][p] /\ pt[u][p].w
    BY <1>3, PteTypes
  <2>2. pt[u][p].frame \in Frames /\ Mappers(pt[u][p].frame) = {<<u, p>>}
    BY <2>1, <1>2, PteTypes DEF HolesClear, WritableSole, Ptes
  <2>3. <<u, p>> \in Mappers(pt[u][p].frame)'
    BY <2>1, Zenon DEF Mappers
  <2> DEFINE f == pt[u][p].frame
  <2>4. Mappers(f)' = Mappers(f) \ ({s} \X At(s, P, f))
    <3>1. pt[u][p].frame \in Frames
        BY <2>2, Zenon
    <3>2. \A x \in Frames : {y \in Spaces \X Pages : pt'[y[1]][y[2]].frame = x}
                            = Mappers(x) \ ({s} \X At(s, P, x))
        BY <1>6, Zenon DEF Mappers
    <3> QED
        BY <3>1, <3>2, <2>1, Zenon DEF Mappers
  <2> QED
    BY <2>1, <2>2, <2>3, <2>4, Zenon
<1>13. \A f \in used' : data'[f] = data[f]
    BY <1>1, <1>2, Zenon
<1> QED
    BY <1>1, <1>3, <1>4, <1>5, <1>6, <1>9, <1>10, <1>11, <1>12, <1>13, Zenon DEF InUse, Unmaps

-----------------------------------------------------------------------------
(* Allocation *)

\* A finite set that is not larger than another has an injection into it.
LEMMA InjectionExists ==
    ASSUME NEW S, NEW T, IsFiniteSet(S), IsFiniteSet(T), Cardinality(S) <= Cardinality(T)
    PROVE  Injection(S, T) # {}
<1>1. Cardinality(S) \in Nat /\ Cardinality(T) \in Nat
    BY FS_CardinalityType, Zenon
<1>2. PICK h \in Bijection(1..Cardinality(S), S) : TRUE
    BY FS_CardinalityType, Zenon DEF ExistsBijection
<1>3. PICK k \in Bijection(1..Cardinality(T), T) : TRUE
    BY FS_CardinalityType, Zenon DEF ExistsBijection
<1>4. \A x \in S : \E i \in 1..Cardinality(S) : h[i] = x
    BY <1>2, Zenon DEF Bijection, Surjection
<1>5. /\ k \in [1..Cardinality(T) -> T]
      /\ \A i, j \in 1..Cardinality(T) : k[i] = k[j] => i = j
    BY <1>3, Zenon DEF Bijection, Injection, IsInjective
<1>6. \A i \in 1..Cardinality(S) : i \in 1..Cardinality(T)
    BY <1>1
<1> DEFINE Pos(x) == CHOOSE i \in 1..Cardinality(S) : h[i] = x
<1>7. \A x \in S : Pos(x) \in 1..Cardinality(S) /\ h[Pos(x)] = x
    BY <1>4, Zenon
<1> HIDE DEF Pos
<1> DEFINE g == [x \in S |-> k[Pos(x)]]
<1>8. g \in [S -> T]
    BY <1>5, <1>6, <1>7, Zenon
<1>9. \A x, y \in S : g[x] = g[y] => x = y
  <2> SUFFICES ASSUME NEW x \in S, NEW y \in S, g[x] = g[y] PROVE x = y
    BY Zenon
  <2>1. k[Pos(x)] = k[Pos(y)]
    BY Zenon
  <2>2. Pos(x) = Pos(y)
    BY <2>1, <1>5, <1>6, <1>7, Zenon
  <2> QED
    BY <2>2, <1>7, Zenon
<1>10. g \in Injection(S, T)
    BY <1>8, <1>9, Zenon DEF Injection, IsInjective
<1> QED
    BY <1>10, Zenon

\* An injection's image has as many elements as its domain.
LEMMA InjectionImage ==
    ASSUME NEW S, NEW T, IsFiniteSet(S), NEW g \in Injection(S, T)
    PROVE  /\ IsFiniteSet({g[x] : x \in S})
           /\ Cardinality({g[x] : x \in S}) = Cardinality(S)
<1>1. g \in [S -> T] /\ \A x, y \in S : g[x] = g[y] => x = y
    BY Zenon DEF Injection, IsInjective
<1> DEFINE I == {g[x] : x \in S}
<1>2. g \in [S -> I]
    BY <1>1, Zenon
<1>3. \A t \in I : \E x \in S : g[x] = t
    BY Zenon
<1>4. g \in Bijection(S, I)
    BY <1>1, <1>2, <1>3, Zenon DEF Bijection, Injection, Surjection, IsInjective
<1>5. ExistsBijection(S, I)
    BY <1>4, Zenon DEF ExistsBijection
<1> HIDE DEF I
<1>6. IsFiniteSet(I) /\ Cardinality(I) = Cardinality(S)
    BY <1>5, FS_Bijection, Zenon
<1> QED
    BY <1>6, Zenon DEF I

\* While frames are left, allocation gives the pages P free frames of their own.
LEMMA AllocFacts ==
    ASSUME VmInv, NEW s \in Spaces, NEW P \in SUBSET Pages,
           Left(used, tables) >= Cardinality(P)
    PROVE  /\ pmm_alloc_page(Memory(s), P) \in Injection(P, Frames \ used)
           /\ IsFiniteSet(P) /\ Cardinality(P) \in Nat
<1>1. /\ used \subseteq Frames /\ tables \in 0..(NFrames - Cardinality(used)) /\ NFrames \in Nat
    BY VmAssumption DEF VmInv, FramesCounted, TypeOK
<1>2. IsFiniteSet(Frames) /\ Cardinality(Frames) = NFrames /\ IsFiniteSet(Pages)
    BY FiniteSpaces, Zenon
<1>3. IsFiniteSet(P) /\ Cardinality(P) \in Nat
    BY <1>2, FS_Subset, FS_CardinalityType, Zenon
<1>4. /\ IsFiniteSet(Frames \ used) /\ Cardinality(used) \in Nat
      /\ Cardinality(Frames \ used) = Cardinality(Frames) - Cardinality(used)
    BY <1>1, <1>2, CountLess, Zenon
<1>5. Cardinality(P) <= Cardinality(Frames \ used)
    BY <1>1, <1>2, <1>3, <1>4 DEF Left
<1>6. Injection(P, Frames \ used) # {}
    BY <1>3, <1>4, <1>5, InjectionExists, Zenon
<1>7. Memory(s).used = used
    BY Zenon DEF Memory
<1> QED
    BY <1>3, <1>6, <1>7 DEF pmm_alloc_page

-----------------------------------------------------------------------------
(* Entries and tables that change *)

\* The pages of P that h sends to frame f.
Sent(P, h, f) == {p \in P : h[p] = f}

\* The step makes the pages P of s lead to the frames h, and no other page to another frame.
Resends(s, P, h) ==
    \A u \in Spaces, p \in Pages :
        pt'[u][p].frame = IF u = s /\ p \in P THEN h[p] ELSE pt[u][p].frame

\* When the entries of the pages P of s, and only they, come to lead to h[p], the mappers of
\* a frame change by exactly those pages.
LEMMA Remap ==
    ASSUME NEW s \in Spaces, NEW P \in SUBSET Pages, NEW h, NEW f \in Frames,
           Resends(s, P, h)
    PROVE  /\ Mappers(f)' = (Mappers(f) \ ({s} \X At(s, P, f))) \cup ({s} \X Sent(P, h, f))
           /\ Cardinality(Mappers(f)') \in Nat /\ Cardinality(Mappers(f)) \in Nat
           /\ Cardinality(At(s, P, f)) \in Nat /\ Cardinality(Sent(P, h, f)) \in Nat
           /\ Cardinality(Mappers(f)') = Cardinality(Mappers(f)) - Cardinality(At(s, P, f))
                                         + Cardinality(Sent(P, h, f))
<1> DEFINE N == Sent(P, h, f)
<1>1. ASSUME NEW x \in Spaces \X Pages
      PROVE  x \in Mappers(f)' <=> \/ x \in Mappers(f) /\ x \notin {s} \X At(s, P, f)
                                   \/ x \in {s} \X N
  <2>1. PICK u \in Spaces, p \in Pages : x = <<u, p>>
    OBVIOUS
  <2>2. x \in Mappers(f)' <=> pt'[u][p].frame = f
    BY <2>1, Zenon DEF Mappers
  <2>3. x \in Mappers(f) <=> pt[u][p].frame = f
    BY <2>1, Zenon DEF Mappers
  <2>4. x \in {s} \X At(s, P, f) <=> u = s /\ p \in P /\ pt[u][p].frame = f
    BY <2>1, Zenon DEF At
  <2>5. x \in {s} \X N <=> u = s /\ p \in P /\ h[p] = f
    BY <2>1, Zenon DEF Sent
  <2> QED
    BY <2>2, <2>3, <2>4, <2>5 DEF Resends
<1>2. /\ Mappers(f) \subseteq Spaces \X Pages /\ Mappers(f)' \subseteq Spaces \X Pages
      /\ {s} \X N \subseteq Spaces \X Pages
    BY Zenon DEF Mappers, Sent
<1> DEFINE K == Mappers(f) \ ({s} \X At(s, P, f))
<1>3. Mappers(f)' = K \cup ({s} \X N)
    BY <1>1, <1>2, Zenon
<1>4. IsFiniteSet(At(s, P, f)) /\ IsFiniteSet(N) /\ IsFiniteSet(Mappers(f))
  <2>1. IsFiniteSet(Pages) /\ At(s, P, f) \subseteq Pages /\ N \subseteq Pages
    BY FiniteSpaces, Zenon DEF At, Sent
  <2> QED
    BY <2>1, FS_Subset, FiniteSpaces, Zenon
<1>5. /\ Cardinality({s} \X At(s, P, f)) = Cardinality(At(s, P, f))
      /\ IsFiniteSet({s} \X N) /\ Cardinality({s} \X N) = Cardinality(N)
    BY <1>4, PairsCount, Zenon
<1>6. {s} \X At(s, P, f) \subseteq Mappers(f)
    BY Zenon DEF At, Mappers
<1>7. /\ IsFiniteSet(K) /\ Cardinality(K) = Cardinality(Mappers(f)) - Cardinality(At(s, P, f))
      /\ Cardinality(Mappers(f)) \in Nat /\ Cardinality(At(s, P, f)) \in Nat
  <2> DEFINE D == {s} \X At(s, P, f)
  <2>1. D \subseteq Mappers(f) /\ Cardinality(D) = Cardinality(At(s, P, f))
    BY <1>5, <1>6, Zenon
  <2> HIDE DEF D
  <2>2. /\ IsFiniteSet(Mappers(f) \ D)
        /\ Cardinality(Mappers(f) \ D) = Cardinality(Mappers(f)) - Cardinality(D)
        /\ Cardinality(Mappers(f)) \in Nat /\ Cardinality(D) \in Nat
    BY <1>4, <2>1, CountLess, Zenon
  <2> QED
    BY <2>1, <2>2, Zenon DEF D
<1>8. K \cap ({s} \X N) = {}
  <2> SUFFICES ASSUME NEW x \in K, x \in {s} \X N PROVE FALSE
    BY Zenon
  <2>1. PICK p \in N : x = <<s, p>>
    OBVIOUS
  <2>2. pt[s][p].frame = f /\ p \in P
    BY <2>1, Zenon DEF Mappers, Sent
  <2> QED
    BY <2>1, <2>2, Zenon DEF At
<1> HIDE DEF K, N
<1>9. /\ Cardinality(K) \in Nat /\ Cardinality({s} \X N) \in Nat
      /\ Cardinality(K \cup ({s} \X N)) = Cardinality(K) + Cardinality({s} \X N)
    BY <1>5, <1>7, <1>8, CountMore, Zenon
<1>10. /\ Cardinality(Mappers(f)') \in Nat /\ Cardinality(N) \in Nat
       /\ Cardinality(Mappers(f)') = Cardinality(Mappers(f)) - Cardinality(At(s, P, f))
                                     + Cardinality(N)
    BY <1>3, <1>5, <1>7, <1>9
<1> QED
    BY <1>3, <1>7, <1>10, Zenon DEF K, N

\* Changing one space's tables changes the number of tables by as many.
LEMMA TablesMove ==
    ASSUME live \subseteq Spaces, table \in [Spaces -> SUBSET Arenas],
           NEW s \in Spaces, NEW T \in SUBSET Arenas,
           table' = [table EXCEPT ![s] = T],
           live' \subseteq Spaces, live' \ {s} = live \ {s},
           s \notin live => table[s] = {}, s \notin live' => T = {}
    PROVE  /\ Cardinality(Tabled') \in Nat /\ Cardinality(Tabled) \in Nat
           /\ Cardinality(table[s]) \in Nat /\ Cardinality(T) \in Nat
           /\ Cardinality(Tabled') = Cardinality(Tabled) - Cardinality(table[s]) + Cardinality(T)
           /\ table' \in [Spaces -> SUBSET Arenas]
<1>1. /\ table' \in [Spaces -> SUBSET Arenas] /\ table'[s] = T
      /\ \A u \in Spaces : u # s => table'[u] = table[u]
    BY Zenon
<1> DEFINE K == Tabled \ ({s} \X table[s])
<1>2. {s} \X table[s] \subseteq Tabled
    BY Zenon DEF Tabled
<1>3. ASSUME NEW x \in Spaces \X Arenas
      PROVE  x \in Tabled' <=> x \in K \/ x \in {s} \X T
  <2>1. PICK u \in Spaces, a \in Arenas : x = <<u, a>>
    OBVIOUS
  <2>2. x \in Tabled' <=> u \in live' /\ a \in table'[u]
    BY <2>1, Zenon DEF Tabled
  <2>3. x \in Tabled <=> u \in live /\ a \in table[u]
    BY <2>1, Zenon DEF Tabled
  <2>4. CASE u = s
    BY <2>1, <2>2, <2>3, <2>4, <1>1, Zenon
  <2>5. CASE u # s
    BY <2>1, <2>2, <2>3, <2>5, <1>1, Zenon
  <2> QED
    BY <2>4, <2>5, Zenon
<1>4. Tabled' = K \cup ({s} \X T)
  <2>1. Tabled' \subseteq Spaces \X Arenas /\ Tabled \subseteq Spaces \X Arenas
    BY Zenon DEF Tabled
  <2> QED
    BY <1>3, <2>1, Zenon
<1>5. K \cap ({s} \X T) = {}
  <2> SUFFICES ASSUME NEW x \in K, x \in {s} \X T PROVE FALSE
    BY Zenon
  <2>1. PICK a \in T : x = <<s, a>>
    OBVIOUS
  <2> QED
    BY <2>1, Zenon DEF Tabled
<1>6. IsFiniteSet(Tabled) /\ IsFiniteSet(table[s]) /\ IsFiniteSet(T)
  <2>1. IsFiniteSet(live \X Arenas)
    BY FiniteSpaces, FS_Subset, FS_Product, Zenon
  <2>2. Tabled \subseteq live \X Arenas /\ table[s] \subseteq Arenas
    BY Zenon DEF Tabled
  <2> QED
    BY <2>1, <2>2, FiniteSpaces, FS_Subset, Zenon
<1>7. /\ Cardinality({s} \X table[s]) = Cardinality(table[s])
      /\ IsFiniteSet({s} \X T) /\ Cardinality({s} \X T) = Cardinality(T)
    BY <1>6, PairsCount, Zenon
<1>8. /\ IsFiniteSet(K) /\ Cardinality(K) = Cardinality(Tabled) - Cardinality(table[s])
      /\ Cardinality(Tabled) \in Nat /\ Cardinality(table[s]) \in Nat
  <2> DEFINE D == {s} \X table[s]
  <2>1. D \subseteq Tabled /\ Cardinality(D) = Cardinality(table[s])
    BY <1>2, <1>7, Zenon
  <2> HIDE DEF D
  <2>2. /\ IsFiniteSet(Tabled \ D)
        /\ Cardinality(Tabled \ D) = Cardinality(Tabled) - Cardinality(D)
        /\ Cardinality(Tabled) \in Nat /\ Cardinality(D) \in Nat
    BY <1>6, <2>1, CountLess, Zenon
  <2> QED
    BY <2>1, <2>2, Zenon DEF D
<1> HIDE DEF K
<1>9. /\ Cardinality(K) \in Nat /\ Cardinality({s} \X T) \in Nat
      /\ Cardinality(K \cup ({s} \X T)) = Cardinality(K) + Cardinality({s} \X T)
    BY <1>5, <1>7, <1>8, CountMore, SMTT(30)
<1> QED
    BY <1>1, <1>4, <1>7, <1>8, <1>9

\* No entry's frame changes: neither do the mappers.
LEMMA SameFrames ==
    ASSUME \A u \in Spaces, p \in Pages : pt'[u][p].frame = pt[u][p].frame
    PROVE  /\ \A f : Mappers(f)' = Mappers(f)
           /\ \A u \in Spaces : Present(u)' = Present(u)
<1>1. ASSUME NEW f PROVE Mappers(f)' = Mappers(f)
  <2>1. ASSUME NEW x \in Spaces \X Pages
        PROVE  pt'[x[1]][x[2]].frame = pt[x[1]][x[2]].frame
    <3>1. x[1] \in Spaces /\ x[2] \in Pages
        BY Zenon
    <3> QED
        BY <3>1, Zenon
  <2> QED
    BY <2>1, Zenon DEF Mappers
<1>2. \A u \in Spaces : Present(u)' = Present(u)
    BY Zenon DEF Present
<1> QED
    BY <1>1, <1>2, Zenon

-----------------------------------------------------------------------------
(* Mapping *)

\* The tables that mapping the pages P in s has to make, and whether it all fits.
NewTables(s, P) == Missing(Memory(s), P)
Fits(s, P) == Left(used, tables) >= Cardinality(P) + Cardinality(NewTables(s, P))

\* The frames of the allocation for the pages P.
Frame(s, P) == pmm_alloc_page(Memory(s), P)
Given(s, P) == {Frame(s, P)[p] : p \in P}

\* What map_anon makes of the memory when it succeeds.
Mapped(m, s, P, w) ==
    /\ m.ok = TRUE
    /\ m.used = used \cup Given(s, P)
    /\ m.tables = tables + Cardinality(NewTables(s, P))
    /\ m.table = table[s] \cup NewTables(s, P)
    /\ m.refcount = [f \in Frames |-> IF f \in Given(s, P) THEN 1 ELSE refcount[f]]
    /\ m.data = [f \in Frames |-> IF f \in Given(s, P) THEN 0 ELSE data[f]]
    /\ m.pt = [p \in Pages |-> IF p \in P THEN Pte(Frame(s, P)[p], w, FALSE) ELSE pt[s][p]]

\* What map_anon returns when there are frames enough.
LEMMA MapResult ==
    ASSUME NEW s \in Spaces, NEW P \in SUBSET Pages, NEW w \in BOOLEAN, Fits(s, P)
    PROVE  Mapped(map_anon(Memory(s), P, w), s, P, w)
<1> DEFINE g == Frame(s, P)
           n == map_page(Memory(s), g, P)
<1>1. /\ Memory(s).used = used /\ Memory(s).tables = tables /\ Memory(s).table = table[s]
    BY Zenon DEF Memory
<1>2. map_anon(Memory(s), P, w) = vmspace_map(n, P, g, w)
    BY <1>1, Zenon DEF map_anon, Fits, NewTables, Frame
<1>3. Missing(n, P) = NewTables(s, P)
    BY Zenon DEF Missing, NewTables, map_page, Memory
<1>4. Mapped(vmspace_map(n, P, g, w), s, P, w)
    BY <1>3, ZenonT(60) DEF Mapped, vmspace_map, ensure, map_page, Memory, Given
<1> QED
    BY <1>2, <1>4, Zenon

\* What it makes of the memory when it fails.
LEMMA MapFails ==
    ASSUME NEW s \in Spaces, NEW P \in SUBSET Pages, NEW w \in BOOLEAN, ~Fits(s, P)
    PROVE  /\ map_anon(Memory(s), P, w).ok = FALSE
           /\ map_anon(Memory(s), P, w).used = used
           /\ map_anon(Memory(s), P, w).refcount = refcount
           /\ map_anon(Memory(s), P, w).data = data
           /\ map_anon(Memory(s), P, w).pt = pt[s]
           /\ \/ /\ map_anon(Memory(s), P, w).tables = tables
                 /\ map_anon(Memory(s), P, w).table = table[s]
              \/ /\ Left(used, tables) > Cardinality(NewTables(s, P))
                 /\ map_anon(Memory(s), P, w).tables = tables + Cardinality(NewTables(s, P))
                 /\ map_anon(Memory(s), P, w).table = table[s] \cup NewTables(s, P)
<1>1. /\ Memory(s).used = used /\ Memory(s).tables = tables
    BY Zenon DEF Memory
<1>2. CASE Left(used, tables) > Cardinality(NewTables(s, P))
  <2>1. map_anon(Memory(s), P, w) = [ensure(Memory(s), NewTables(s, P)) EXCEPT !.ok = FALSE]
    BY <1>1, <1>2, Zenon DEF map_anon, Fits, NewTables
  <2> DEFINE e == [ensure(Memory(s), NewTables(s, P)) EXCEPT !.ok = FALSE]
  <2>2. /\ e.ok = FALSE /\ e.used = used /\ e.refcount = refcount /\ e.data = data
        /\ e.pt = pt[s] /\ e.tables = tables + Cardinality(NewTables(s, P))
        /\ e.table = table[s] \cup NewTables(s, P)
    BY Zenon DEF ensure, Memory
  <2> HIDE DEF e
  <2> QED
    BY <2>1, <2>2, <1>2, Zenon DEF e
<1>3. CASE ~(Left(used, tables) > Cardinality(NewTables(s, P)))
  <2>1. map_anon(Memory(s), P, w) = [Memory(s) EXCEPT !.ok = FALSE]
    BY <1>1, <1>3, Zenon DEF map_anon, Fits, NewTables
  <2> QED
    BY <2>1, Zenon DEF Memory
<1> QED
    BY <1>2, <1>3, Zenon

\* Making the missing tables keeps the count of tables.
LEMMA EnsureKeeps ==
    ASSUME VmInv, NEW s \in live, NEW P \in SUBSET Pages, live' = live,
           tables' = tables + Cardinality(NewTables(s, P)),
           table' = [table EXCEPT ![s] = table[s] \cup NewTables(s, P)]
    PROVE  /\ table' \in [Spaces -> SUBSET Arenas]
           /\ tables' = Cardinality(live') + Cardinality(Tabled')
           /\ Cardinality(NewTables(s, P)) \in Nat
           /\ \A u \in Spaces \ live' : table'[u] = {}
<1> DEFINE T == NewTables(s, P)
<1>1. /\ live \subseteq Spaces /\ table \in [Spaces -> SUBSET Arenas]
      /\ tables = Cardinality(live) + Cardinality(Tabled)
      /\ \A u \in Spaces \ live : table[u] = {}
    BY Zenon DEF VmInv, FramesCounted, TypeOK, FramesExact
<1>2. s \in Spaces
    BY <1>1, Zenon
<1>3. T \subseteq Arenas /\ T \cap table[s] = {}
    BY Zenon DEF NewTables, Missing, Memory, Arena, Arenas
<1> HIDE DEF T
<1>4. IsFiniteSet(T) /\ IsFiniteSet(table[s])
    BY <1>1, <1>2, <1>3, FiniteSpaces, FS_Subset, Zenon
<1>5. /\ Cardinality(T) \in Nat /\ Cardinality(table[s]) \in Nat
      /\ Cardinality(table[s] \cup T) = Cardinality(table[s]) + Cardinality(T)
    BY <1>3, <1>4, CountMore, Zenon
<1>6. /\ Cardinality(Tabled') \in Nat /\ Cardinality(Tabled) \in Nat
      /\ Cardinality(Tabled') = Cardinality(Tabled) - Cardinality(table[s])
                                + Cardinality(table[s] \cup T)
      /\ table' \in [Spaces -> SUBSET Arenas]
  <2>1. table[s] \cup T \in SUBSET Arenas /\ table' = [table EXCEPT ![s] = table[s] \cup T]
    BY <1>1, <1>2, <1>3, Zenon DEF T
  <2> DEFINE U == table[s] \cup T
  <2> HIDE DEF U
  <2>2. U \in SUBSET Arenas /\ table' = [table EXCEPT ![s] = U]
    BY <2>1, Zenon DEF U
  <2>3. /\ Cardinality(Tabled') \in Nat /\ Cardinality(Tabled) \in Nat
        /\ Cardinality(Tabled') = Cardinality(Tabled) - Cardinality(table[s]) + Cardinality(U)
        /\ table' \in [Spaces -> SUBSET Arenas]
    BY <2>2, <1>1, <1>2, TablesMove, ZenonT(60)
  <2> QED
    BY <2>3, Zenon DEF U
<1>7. IsFiniteSet(live) /\ Cardinality(live) \in Nat
    BY <1>1, FiniteSpaces, FS_Subset, FS_CardinalityType, Zenon
<1>8. tables' = Cardinality(live') + Cardinality(Tabled')
  <2>1. tables' = tables + Cardinality(T)
    BY Zenon DEF T
  <2> QED
    BY <2>1, <1>1, <1>5, <1>6, <1>7
<1>9. \A u \in Spaces \ live' : table'[u] = {}
    BY <1>1, Zenon
<1> QED
    BY <1>5, <1>6, <1>8, <1>9, Zenon DEF T

\* The frames g, zeroed and with one reference each, are mapped at the pages P of s.
Maps(s, P, w, g) ==
    /\ used' = used \cup {g[p] : p \in P}
    /\ refcount' = [f \in Frames |-> IF f \in {g[p] : p \in P} THEN 1 ELSE refcount[f]]
    /\ data' = [f \in Frames |-> IF f \in {g[p] : p \in P} THEN 0 ELSE data[f]]
    /\ pt' = [pt EXCEPT ![s] = [p \in Pages |-> IF p \in P THEN Pte(g[p], w, FALSE)
                                                ELSE pt[s][p]]]

\* What it does to the entries.
Fresh(s, P, w, g) ==
    \A u \in Spaces, p \in Pages :
        pt'[u][p] = IF u = s /\ p \in P THEN Pte(g[p], w, FALSE) ELSE pt[u][p]

\* Mapping fresh frames at pages of s that were holes.
LEMMA FreshKeeps ==
    ASSUME VmInv, NEW s \in live, NEW P \in SUBSET Pages, P \cap Present(s) = {},
           NEW w \in BOOLEAN, NEW g \in Injection(P, Frames \ used), Maps(s, P, w, g)
    PROVE  /\ refcount' \in [Frames -> Nat] /\ data' \in [Frames -> Values]
           /\ pt' \in [Spaces -> [Pages -> Ptes]]
           /\ RefcountsExact' /\ HolesClear' /\ WritableSole'
           /\ used' = InUse'
           /\ Cardinality(used') = Cardinality(used) + Cardinality(P)
           /\ \A f \in used : Mappers(f)' = Mappers(f)
           /\ Fresh(s, P, w, g)
           /\ \A f \in used : data'[f] = data[f]
           /\ \A p \in P : data'[g[p]] = 0 /\ g[p] \in Frames
<1>1. /\ refcount \in [Frames -> Nat] /\ data \in [Frames -> Values]
      /\ pt \in [Spaces -> [Pages -> Ptes]] /\ s \in Spaces
      /\ RefcountsExact /\ HolesClear /\ WritableSole
      /\ used = {f \in Frames : Mappers(f) # {}}
    BY Zenon DEF VmInv, FramesCounted, TypeOK, FramesExact, Ptes
<1>2. /\ g \in [P -> Frames \ used] /\ \A p, q \in P : g[p] = g[q] => p = q
    BY Zenon DEF Injection, IsInjective
<1> DEFINE I == {g[p] : p \in P}
<1>3. I \subseteq Frames /\ I \cap used = {}
    BY <1>2, Zenon
<1>4. \A u \in Spaces, p \in Pages :
         pt'[u][p] = IF u = s /\ p \in P THEN Pte(g[p], w, FALSE) ELSE pt[u][p]
    BY <1>1, Zenon DEF Maps
<1>5. \A p \in P : /\ g[p] \in Frames /\ g[p] \notin used
                    /\ Pte(g[p], w, FALSE) \in Ptes /\ Pte(g[p], w, FALSE).frame = g[p]
                    /\ Pte(g[p], w, FALSE).w = w
    BY <1>2, PteTypes, ZenonT(60)
<1>6. pt' \in [Spaces -> [Pages -> Ptes]]
  <2> DEFINE e == [p \in Pages |-> IF p \in P THEN Pte(g[p], w, FALSE) ELSE pt[s][p]]
  <2>1. e \in [Pages -> Ptes]
    BY <1>1, <1>5, ZenonT(60)
  <2> HIDE DEF e
  <2>2. pt' = [pt EXCEPT ![s] = e]
    BY Zenon DEF e, Maps
  <2> QED
    BY <2>1, <2>2, <1>1, Zenon
<1>7. \A u \in Spaces, p \in Pages :
         pt'[u][p].frame = IF u = s /\ p \in P THEN g[p] ELSE pt[u][p].frame
  <2> SUFFICES ASSUME NEW u \in Spaces, NEW p \in Pages
               PROVE  pt'[u][p].frame = IF u = s /\ p \in P THEN g[p] ELSE pt[u][p].frame
    BY Zenon
  <2>1. CASE u = s /\ p \in P
    BY <2>1, <1>4, <1>5, Zenon
  <2>2. CASE ~(u = s /\ p \in P)
    <3>1. pt'[u][p] = pt[u][p]
        BY <2>2, <1>4, Zenon
    <3> QED
        BY <3>1, <2>2, Zenon
  <2> QED
    BY <2>1, <2>2, Zenon
<1>8. ASSUME NEW f \in Frames
      PROVE  /\ f \notin I => Mappers(f)' = Mappers(f)
             /\ \A p \in P : g[p] = f => Mappers(f)' = {<<s, p>>}
  <2>1. Mappers(f)' = (Mappers(f) \ ({s} \X At(s, P, f))) \cup ({s} \X Sent(P, g, f))
  <3>1. Resends(s, P, g)
    BY <1>7, Zenon DEF Resends
  <3> QED
    BY <3>1, <1>1, Remap
  <2>2. At(s, P, f) = {}
    BY PteTypes DEF At, Present
  <2>3. Mappers(f)' = Mappers(f) \cup ({s} \X Sent(P, g, f))
    BY <2>1, <2>2, Zenon
  <2>4. CASE f \notin I
    <3>1. Sent(P, g, f) = {}
        BY <2>4, Zenon DEF Sent
    <3>2. Mappers(f)' = Mappers(f)
        BY <2>3, <3>1, Zenon
    <3> QED
        BY <3>2, <2>4, Zenon
  <2>5. ASSUME NEW p \in P, g[p] = f
        PROVE  Mappers(f)' = {<<s, p>>}
    <3>1. Sent(P, g, f) = {p}
        BY <2>5, <1>2, Zenon DEF Sent
    <3>2. Mappers(f) = {}
        BY <2>5, <1>1, <1>2, Zenon
    <3>3. Mappers(f)' = {s} \X {p}
        BY <2>3, <3>1, <3>2, Zenon
    <3> QED
        BY <3>3
  <2> QED
    BY <2>4, <2>5, Zenon
<1>9. RefcountsExact' /\ refcount' \in [Frames -> Nat]
  <2>1. /\ refcount' \in [Frames -> Nat]
        /\ \A f \in Frames : refcount'[f] = IF f \in I THEN 1 ELSE refcount[f]
    BY <1>1, Zenon DEF Maps
  <2>2. ASSUME NEW f \in Frames PROVE refcount'[f] = Cardinality(Mappers(f)')
    <3>1. CASE f \in I
      <4>1. PICK p \in P : g[p] = f
        BY <3>1, Zenon
      <4>2. Mappers(f)' = {<<s, p>>}
        BY <4>1, <1>8, Zenon
      <4>3. Cardinality({<<s, p>>}) = 1
        BY FS_Singleton, ZenonT(60)
      <4> QED
        BY <4>2, <4>3, <3>1, <2>1, Zenon
    <3>2. CASE f \notin I
        BY <3>2, <2>1, <1>1, <1>8, SMTT(30) DEF RefcountsExact
    <3> QED
        BY <3>1, <3>2, Zenon
  <2> QED
    BY <2>1, <2>2, Zenon DEF RefcountsExact
<1>10. data' \in [Frames -> Values]
    BY <1>1, VmAssumption DEF Maps
<1>11. used' = {f \in Frames : Mappers(f)' # {}}
  <2>1. ASSUME NEW f \in Frames PROVE f \in used' <=> Mappers(f)' # {}
    <3>1. CASE f \in I
      <4>1. PICK p \in P : g[p] = f
        BY <3>1, Zenon
      <4> QED
        BY <4>1, <3>1, <1>8, Zenon DEF Maps
    <3>2. CASE f \notin I
        BY <3>2, <1>1, <1>8, Zenon DEF Maps
    <3> QED
        BY <3>1, <3>2, Zenon
  <2> QED
    BY <2>1, <1>1, <1>3, Zenon DEF Maps
<1>12. \A f \in used : Mappers(f)' = Mappers(f)
    BY <1>1, <1>3, <1>8, Zenon
<1>13. HolesClear'
  <2> SUFFICES ASSUME NEW u \in Spaces, NEW p \in Pages, pt'[u][p].frame = 0
               PROVE  pt'[u][p] = NotPresent
    BY Zenon DEF HolesClear
  <2>1. ~(u = s /\ p \in P)
    <3> SUFFICES ASSUME u = s /\ p \in P PROVE FALSE
        BY Zenon
    <3>1. pt'[u][p].frame \in Frames
        BY <1>4, <1>5, Zenon
    <3> QED
        BY <3>1, PteTypes, Zenon
  <2>2. pt'[u][p] = pt[u][p]
    BY <2>1, <1>4, Zenon
  <2> QED
    BY <2>2, <1>1, Zenon DEF HolesClear
<1>14. WritableSole'
  <2> SUFFICES ASSUME NEW u \in Spaces, NEW p \in Pages, pt'[u][p].w,
                      NEW f, f = pt'[u][p].frame
               PROVE  Mappers(f)' = {<<u, p>>}
    BY Zenon DEF WritableSole
  <2>1. CASE u = s /\ p \in P
    <3>1. f = g[p] /\ f \in Frames
        BY <2>1, <1>4, <1>5, Zenon
    <3> QED
        BY <3>1, <2>1, <1>8, Zenon
  <2>2. CASE ~(u = s /\ p \in P)
    <3>1. pt'[u][p] = pt[u][p]
        BY <2>2, <1>4, Zenon
    <3>2. Mappers(f) = {<<u, p>>} /\ f \in Frames
        BY <3>1, <1>1, WritablePresent, Zenon
    <3>3. f \in used
        BY <3>2, <1>1, Zenon
    <3> QED
        BY <3>2, <3>3, <1>12, Zenon
  <2> QED
    BY <2>1, <2>2, Zenon
<1>15. Cardinality(used') = Cardinality(used) + Cardinality(P)
  <2>1. IsFiniteSet(P) /\ IsFiniteSet(used)
    BY <1>1, FiniteSpaces, FS_Subset, Zenon
  <2>2. IsFiniteSet(I) /\ Cardinality(I) = Cardinality(P)
    BY <2>1, InjectionImage
  <2> HIDE DEF I
  <2>3. used \cap I = {}
    BY <1>3, Zenon
  <2>4. Cardinality(used \cup I) = Cardinality(used) + Cardinality(I)
    BY <2>1, <2>2, <2>3, CountMore, SMTT(30)
  <2> QED
    BY <2>2, <2>4, Zenon DEF I, Maps
<1>16. /\ \A f \in used : data'[f] = data[f]
       /\ \A p \in P : data'[g[p]] = 0 /\ g[p] \in Frames
    BY <1>1, <1>3, <1>5, SMTT(30) DEF Maps
<1> QED
    BY <1>4, <1>6, <1>9, <1>10, <1>11, <1>12, <1>13, <1>14, <1>15, <1>16, ZenonT(60) DEF Fresh, InUse

-----------------------------------------------------------------------------
(* The invariant in two parts *)

\* Entries, frames, references and tables.
Counted ==
    /\ refcount \in [Frames -> Nat] /\ data \in [Frames -> Values]
    /\ pt \in [Spaces -> [Pages -> Ptes]] /\ table \in [Spaces -> SUBSET Arenas]
    /\ tables \in 0..(NFrames - Cardinality(used))
    /\ RefcountsExact /\ HolesClear /\ WritableSole
    /\ used = {f \in Frames : Mappers(f) # {}}
    /\ tables = Cardinality(live) + Cardinality(Tabled)
    /\ \A s \in Spaces \ live : table[s] = {}

\* The spaces and the CPU.
Placed ==
    /\ live \subseteq Spaces /\ active \in live \cup {NoSpace}
    /\ brk_cur \in [Spaces -> 0..HeapMax] /\ mmap_cur \in [Spaces -> HeapMax..ArenaEnd]
    /\ AboveFree /\ \A s \in Spaces \ live : Present(s) = {}
    /\ tlb \in [Pages -> [frame : Frames \cup {0}, w : BOOLEAN]]
    /\ TlbSafe

\* VmInv splits into what is counted and where it is.
LEMMA TwoParts == VmInv => Counted /\ Placed
    BY Zenon DEF VmInv, FramesCounted, TypeOK, FramesExact, Ptes, Counted, Placed

\* The two parts, after a step, make the invariant.
LEMMA PartsJoin ==
    ASSUME Counted', Placed'
    PROVE  VmInv'
<1>1. TypeOK'
    BY Zenon DEF TypeOK, Ptes, Counted, Placed
<1>2. FramesExact'
    BY SMTT(30) DEF FramesExact, Counted, Placed
<1> QED
    BY <1>1, <1>2, Zenon DEF VmInv, FramesCounted, Counted, Placed

\* The step leaves zeroed pages at P.
ZeroPages(s, P, w) ==
    \A p \in P : /\ pt'[s][p].frame \in Frames /\ data'[pt'[s][p].frame] = 0
                 /\ pt'[s][p].w = w /\ pt'[s][p].cow = FALSE

\* map_anon keeps the counts, whether it succeeds or fails.
LEMMA MapKeeps ==
    ASSUME VmInv, NEW s \in live, NEW P \in SUBSET Pages, P \cap Present(s) = {},
           NEW w \in BOOLEAN, live' = live, Commit(s, map_anon(Memory(s), P, w))
    PROVE  /\ Counted'
           /\ \A f \in used : Mappers(f)' = Mappers(f)
           /\ \A u \in Spaces, p \in Pages : u # s \/ p \notin P => pt'[u][p] = pt[u][p]
           /\ ~map_anon(Memory(s), P, w).ok => pt' = pt
           /\ map_anon(Memory(s), P, w).ok \in BOOLEAN
           /\ \A f \in used : data'[f] = data[f]
           /\ map_anon(Memory(s), P, w).ok => ZeroPages(s, P, w)
<1>1. /\ used \subseteq Frames /\ tables \in 0..(NFrames - Cardinality(used)) /\ NFrames \in Nat
      /\ s \in Spaces /\ table \in [Spaces -> SUBSET Arenas] /\ Counted
    BY TwoParts, VmAssumption DEF VmInv, FramesCounted, TypeOK
<1>2. pt \in [Spaces -> [Pages -> Ptes]]
    BY <1>1, Zenon DEF Counted
<1>3. IsFiniteSet(P) /\ Cardinality(P) \in Nat /\ IsFiniteSet(used) /\ Cardinality(used) \in Nat
    BY <1>1, FiniteSpaces, FS_Subset, FS_CardinalityType, Zenon
<1>4. CASE Fits(s, P)
  <2>1. /\ map_anon(Memory(s), P, w).ok = TRUE
        /\ used' = used \cup Given(s, P)
        /\ tables' = tables + Cardinality(NewTables(s, P))
        /\ table' = [table EXCEPT ![s] = table[s] \cup NewTables(s, P)]
        /\ refcount' = [f \in Frames |-> IF f \in Given(s, P) THEN 1 ELSE refcount[f]]
        /\ data' = [f \in Frames |-> IF f \in Given(s, P) THEN 0 ELSE data[f]]
        /\ pt' = [pt EXCEPT ![s] = [p \in Pages |-> IF p \in P THEN Pte(Frame(s, P)[p], w, FALSE)
                                                    ELSE pt[s][p]]]
    <3> DEFINE m == map_anon(Memory(s), P, w)
    <3>1. Mapped(m, s, P, w)
        BY <1>1, <1>4, MapResult, Zenon
    <3>2. Commit(s, m)
        BY SMTT(30)
    <3> HIDE DEF m
    <3> QED
        BY <3>1, <3>2, Zenon DEF Mapped, Commit, m
  <2>2. Maps(s, P, w, Frame(s, P))
    BY <2>1, Zenon DEF Maps, Given
  <2>3. /\ table' \in [Spaces -> SUBSET Arenas]
        /\ tables' = Cardinality(live') + Cardinality(Tabled')
        /\ Cardinality(NewTables(s, P)) \in Nat
        /\ \A u \in Spaces \ live' : table'[u] = {}
    BY <2>1, EnsureKeeps, Zenon
  <2>4. Left(used, tables) >= Cardinality(P)
    BY <1>1, <1>3, <1>4, <2>3 DEF Fits, Left
  <2>5. Frame(s, P) \in Injection(P, Frames \ used)
    BY <1>1, <2>4, AllocFacts, Zenon DEF Frame
  <2>6. PICK g \in Injection(P, Frames \ used) : g = Frame(s, P)
    BY <2>5, Zenon
  <2>7. Maps(s, P, w, g)
    BY <2>2, <2>6, Zenon
  <2>8. /\ refcount' \in [Frames -> Nat] /\ data' \in [Frames -> Values]
        /\ pt' \in [Spaces -> [Pages -> Ptes]]
        /\ RefcountsExact' /\ HolesClear' /\ WritableSole'
        /\ used' = InUse'
        /\ Cardinality(used') = Cardinality(used) + Cardinality(P)
        /\ \A f \in used : Mappers(f)' = Mappers(f)
        /\ Fresh(s, P, w, g)
        /\ \A f \in used : data'[f] = data[f]
        /\ \A p \in P : data'[g[p]] = 0 /\ g[p] \in Frames
    BY <2>7, FreshKeeps, ZenonT(60)
  <2>9. tables' \in 0..(NFrames - Cardinality(used'))
    BY <1>1, <1>3, <1>4, <2>1, <2>3, <2>8, SMTT(30) DEF Fits, Left
  <2>10. Counted'
    BY <2>3, <2>8, <2>9, Zenon DEF Counted, InUse
  <2>11. \A u \in Spaces, p \in Pages : u # s \/ p \notin P => pt'[u][p] = pt[u][p]
    BY <2>8, Zenon DEF Fresh
  <2>12. ZeroPages(s, P, w)
    <3> SUFFICES ASSUME NEW p \in P
                 PROVE  /\ pt'[s][p].frame \in Frames /\ data'[pt'[s][p].frame] = 0
                        /\ pt'[s][p].w = w /\ pt'[s][p].cow = FALSE
        BY Zenon DEF ZeroPages
    <3>1. PICK f \in Frames : f = g[p] /\ data'[f] = 0
        BY <2>8, Zenon
    <3>2. pt'[s][p] = Pte(f, w, FALSE)
        BY <3>1, <2>8, <1>1, Zenon DEF Fresh
    <3>3. Pte(f, w, FALSE).frame = f /\ Pte(f, w, FALSE).w = w /\ Pte(f, w, FALSE).cow = FALSE
        BY Zenon DEF Pte
    <3>4. pt'[s][p].frame = f /\ pt'[s][p].w = w /\ pt'[s][p].cow = FALSE
        BY <3>2, <3>3, Zenon
    <3> QED
        BY <3>1, <3>4, Zenon
  <2> QED
    BY <2>1, <2>8, <2>10, <2>11, <2>12, ZenonT(60)
<1>5. CASE ~Fits(s, P)
  <2>1. /\ map_anon(Memory(s), P, w).ok = FALSE
        /\ used' = used /\ refcount' = refcount /\ data' = data
        /\ pt' = [pt EXCEPT ![s] = pt[s]]
    BY <1>1, <1>5, MapFails, ZenonT(60) DEF Commit
  <2>2. pt' = pt
    BY <2>1, <1>1, <1>2, Zenon
  <2>3. \/ tables' = tables /\ table' = [table EXCEPT ![s] = table[s]]
        \/ /\ Left(used, tables) > Cardinality(NewTables(s, P))
           /\ tables' = tables + Cardinality(NewTables(s, P))
           /\ table' = [table EXCEPT ![s] = table[s] \cup NewTables(s, P)]
    BY <1>1, <1>5, MapFails, ZenonT(60) DEF Commit
  <2>4. /\ table' \in [Spaces -> SUBSET Arenas]
        /\ tables' = Cardinality(live') + Cardinality(Tabled')
        /\ tables' \in 0..(NFrames - Cardinality(used'))
        /\ \A u \in Spaces \ live' : table'[u] = {}
    <3>1. CASE tables' = tables /\ table' = [table EXCEPT ![s] = table[s]]
      <4>1. table' = table
        BY <3>1, <1>1, SMTT(30)
      <4>2. Tabled' = Tabled
        BY <4>1, Zenon DEF Tabled
      <4> QED
        BY <4>1, <4>2, <3>1, <2>1, <1>1, Zenon DEF Counted
    <3>2. CASE /\ Left(used, tables) > Cardinality(NewTables(s, P))
               /\ tables' = tables + Cardinality(NewTables(s, P))
               /\ table' = [table EXCEPT ![s] = table[s] \cup NewTables(s, P)]
      <4>1. /\ table' \in [Spaces -> SUBSET Arenas]
            /\ tables' = Cardinality(live') + Cardinality(Tabled')
            /\ Cardinality(NewTables(s, P)) \in Nat
            /\ \A u \in Spaces \ live' : table'[u] = {}
        BY <3>2, EnsureKeeps, Zenon
      <4>2. tables' \in 0..(NFrames - Cardinality(used'))
        BY <3>2, <4>1, <2>1, <1>1, <1>3 DEF Left
      <4> QED
        BY <4>1, <4>2, Zenon
    <3> QED
        BY <3>1, <3>2, <2>3, Zenon
  <2>5. \A f : Mappers(f)' = Mappers(f)
    BY <2>2, SameFrames, Zenon
  <2>6. /\ RefcountsExact' /\ HolesClear' /\ WritableSole'
        /\ used' = {f \in Frames : Mappers(f)' # {}}
    <3>1. RefcountsExact'
        BY <2>1, <2>5, <1>1, Zenon DEF Counted, RefcountsExact
    <3>2. HolesClear'
        BY <2>2, <1>1, SMTT(30) DEF Counted, HolesClear
    <3>3. WritableSole'
        BY <2>2, <1>1, Zenon DEF Counted, WritableSole, Mappers
    <3>4. used' = {f \in Frames : Mappers(f)' # {}}
        BY <2>1, <2>5, <1>1, SMTT(30) DEF Counted
    <3> QED
        BY <3>1, <3>2, <3>3, <3>4, SMTT(30)
  <2>7. Counted'
    BY <2>1, <2>2, <2>4, <2>6, <1>1, Zenon DEF Counted
  <2> QED
    BY <2>1, <2>2, <2>5, <2>7, Zenon
<1> QED
    BY <1>4, <1>5, SMTT(30)

-----------------------------------------------------------------------------
(* The TLB *)

TlbEntries == [frame : Frames \cup {0}, w : BOOLEAN]

\* What an empty TLB holds.
LEMMA EmptyTlb == NoEntry \in TlbEntries /\ NoEntry.frame = 0 /\ Flushed \in [Pages -> TlbEntries]
                  /\ \A p \in Pages : Flushed[p].frame = 0
    BY SMTT(30) DEF NoEntry, TlbEntries, Flushed

\* Entries that a step neither flushes nor makes wrong.
LEMMA TlbKeeps ==
    ASSUME VmInv, active' = active, tlb' \in [Pages -> TlbEntries],
           \A p \in Pages :
              \/ tlb'[p] = NoEntry
              \/ /\ tlb'[p] = tlb[p]
                 /\ Cached(p) => pt'[active][p].frame = pt[active][p].frame
                 /\ \A f \in Frames : tlb[p].frame = f /\ tlb[p].w => Mappers(f)' = Mappers(f)
    PROVE  TlbSafe'
<1> SUFFICES ASSUME NEW p \in Pages, Cached(p)', NEW f, f = tlb'[p].frame
             PROVE  /\ active # NoSpace /\ f = pt'[active][p].frame
                    /\ tlb'[p].w => Mappers(f)' = {<<active, p>>}
    BY Zenon DEF TlbSafe
<1>1. tlb'[p].frame # 0 /\ f \in Frames
    BY SMTT(30) DEF Cached, TlbEntries
<1>2. /\ tlb'[p] = tlb[p] /\ pt'[active][p].frame = pt[active][p].frame
      /\ tlb[p].w => Mappers(f)' = Mappers(f)
    BY <1>1, EmptyTlb, Zenon DEF Cached
<1>3. Cached(p) /\ f = tlb[p].frame
    BY <1>1, <1>2, SMTT(30) DEF Cached
<1>4. active # NoSpace /\ f = pt[active][p].frame /\ (tlb[p].w => Mappers(f) = {<<active, p>>})
    BY <1>3, Zenon DEF VmInv, TlbSafe
<1> QED
    BY <1>2, <1>4, SMTT(30)

\* A TLB that has been flushed is safe.
LEMMA FlushedSafe ==
    ASSUME tlb' = Flushed
    PROVE  TlbSafe' /\ tlb' \in [Pages -> [frame : Frames \cup {0}, w : BOOLEAN]]
    BY EmptyTlb, SMTT(30) DEF TlbSafe, Cached, TlbEntries

\* What invlpg leaves.
LEMMA InvlpgLeaves ==
    ASSUME VmInv, NEW Q, Invlpg(Q)
    PROVE  /\ tlb' \in [Pages -> TlbEntries]
           /\ \A p \in Pages : tlb'[p] = IF p \in Q THEN NoEntry ELSE tlb[p]
    BY EmptyTlb, Zenon DEF Invlpg, VmInv, FramesCounted, TypeOK, TlbEntries

-----------------------------------------------------------------------------
(* Steps that change flags *)

\* A step that changes only flags, and makes writable only entries that are alone.
LEMMA FlagsKeep ==
    ASSUME VmInv, UNCHANGED <<physical, live, table, brk_cur, mmap_cur, active>>,
           pt' \in [Spaces -> [Pages -> Ptes]], HolesClear',
           \A u \in Spaces, p \in Pages : pt'[u][p].frame = pt[u][p].frame,
           \A u \in Spaces, p \in Pages :
              pt'[u][p].w => pt[u][p].w \/ Mappers(pt[u][p].frame) = {<<u, p>>},
           tlb' \in [Pages -> TlbEntries],
           \A p \in Pages : tlb'[p] = NoEntry \/ tlb'[p] = tlb[p]
    PROVE  VmInv'
<1>1. Counted /\ Placed
    BY TwoParts, SMTT(30)
<1>2. /\ \A f : Mappers(f)' = Mappers(f)
      /\ \A u \in Spaces : Present(u)' = Present(u)
    BY SameFrames, SMTT(30)
<1>3. /\ used' = used /\ tables' = tables /\ refcount' = refcount /\ data' = data
      /\ live' = live /\ table' = table /\ brk_cur' = brk_cur /\ mmap_cur' = mmap_cur
      /\ active' = active
    BY Zenon DEF physical
<1>4. Counted'
  <2>1. RefcountsExact'
    BY <1>1, <1>2, <1>3, ZenonT(60) DEF Counted, RefcountsExact
  <2>2. WritableSole'
    <3> SUFFICES ASSUME NEW u \in Spaces, NEW p \in Pages, pt'[u][p].w,
                        NEW f, f = pt'[u][p].frame
                 PROVE  Mappers(f)' = {<<u, p>>}
        BY Zenon DEF WritableSole
    <3>1. f = pt[u][p].frame
        BY Zenon
    <3>2. Mappers(f) = {<<u, p>>}
        BY <3>1, <1>1, ZenonT(60) DEF Counted, WritableSole
    <3> QED
        BY <3>2, <1>2, SMTT(30)
  <2>3. used' = {f \in Frames : Mappers(f)' # {}}
    BY <1>1, <1>2, <1>3, SMTT(30) DEF Counted
  <2>4. Tabled' = Tabled
    BY <1>3, SMTT(30) DEF Tabled
  <2> QED
    BY <2>1, <2>2, <2>3, <2>4, <1>1, <1>3, ZenonT(60) DEF Counted
<1>5. TlbSafe'
  <2>1. active \in Spaces \cup {NoSpace}
    BY SMTT(30) DEF VmInv, FramesCounted, TypeOK
  <2>2. \A p \in Pages :
              \/ tlb'[p] = NoEntry
              \/ /\ tlb'[p] = tlb[p]
                 /\ Cached(p) => pt'[active][p].frame = pt[active][p].frame
                 /\ \A f \in Frames : tlb[p].frame = f /\ tlb[p].w => Mappers(f)' = Mappers(f)
    BY <2>1, <1>2, SMTT(30) DEF VmInv, TlbSafe
  <2> QED
    BY <2>2, <1>3, TlbKeeps, SMTT(30)
<1>6. AboveFree'
    BY <1>1, <1>2, <1>3, SMTT(30) DEF Placed, AboveFree
<1>7. Placed'
    BY <1>1, <1>2, <1>3, <1>5, <1>6, SMTT(30) DEF Placed, TlbEntries
<1> QED
    BY <1>4, <1>7, PartsJoin, SMTT(30)

\* A copied leaf keeps its frame and is read-only.
LEMMA CopyLeafFacts ==
    ASSUME NEW e \in Ptes
    PROVE  /\ copy_leaf(e) \in Ptes /\ copy_leaf(e).frame = e.frame /\ copy_leaf(e).w = FALSE
           /\ e = NotPresent => copy_leaf(e) = NotPresent
<1>1. e.frame \in Frames \cup {0} /\ (e.cow \/ e.w) \in BOOLEAN
    BY Zenon DEF Ptes
<1>2. copy_leaf(e) \in Ptes /\ copy_leaf(e).frame = e.frame /\ copy_leaf(e).w = FALSE
    BY <1>1, PteTypes, Zenon DEF copy_leaf
<1>3. ASSUME e = NotPresent PROVE copy_leaf(e) = NotPresent
  <2>1. (e.cow \/ e.w) = FALSE /\ e.frame = 0
    BY <1>3, PteTypes, SMTT(30)
  <2> QED
    BY <2>1, Zenon DEF copy_leaf, NotPresent
<1> QED
    BY <1>2, <1>3, Zenon

\* A fork that runs out of frames (vmspace_fork_fails).
LEMMA ForkFailsKeeps ==
    ASSUME VmInv, NEW c \in Spaces, vmspace_fork_fails(c)
    PROVE  VmInv'
<1> DEFINE A == IF Left(used, tables) > 1 THEN {"heap"} ELSE {}
<1>1. /\ active \in Spaces /\ pt' = [pt EXCEPT ![active] = Copied(active, A)]
      /\ UNCHANGED <<physical, live, table, brk_cur, mmap_cur, active>> /\ tlb' = tlb
    BY Zenon DEF vmspace_fork_fails, VmInv, FramesCounted, TypeOK
<1> HIDE DEF A
<1>2. /\ pt \in [Spaces -> [Pages -> Ptes]] /\ HolesClear /\ tlb \in [Pages -> TlbEntries]
    BY Zenon DEF VmInv, FramesCounted, TypeOK, Ptes, TlbEntries
<1>3. \A u \in Spaces, p \in Pages :
         pt'[u][p] = IF u = active /\ Arena(p) \in A THEN copy_leaf(pt[u][p]) ELSE pt[u][p]
    BY <1>1, <1>2, Zenon DEF Copied
<1>4. \A u \in Spaces, p \in Pages :
         /\ copy_leaf(pt[u][p]) \in Ptes /\ copy_leaf(pt[u][p]).frame = pt[u][p].frame
         /\ copy_leaf(pt[u][p]).w = FALSE
         /\ pt[u][p] = NotPresent => copy_leaf(pt[u][p]) = NotPresent
    BY <1>2, CopyLeafFacts, ZenonT(60)
<1>5. Copied(active, A) \in [Pages -> Ptes]
    BY <1>1, <1>2, <1>4, Zenon DEF Copied
<1>6. pt' \in [Spaces -> [Pages -> Ptes]]
    BY <1>1, <1>2, <1>5, SMTT(30)
<1>7. \A u \in Spaces, p \in Pages :
         pt'[u][p].frame = pt[u][p].frame /\ (pt'[u][p].w => pt[u][p].w)
    BY <1>3, <1>4, SMTT(30)
<1>8. HolesClear'
    BY <1>2, <1>3, <1>4, <1>7, SMTT(30) DEF HolesClear
<1> QED
    BY <1>1, <1>2, <1>6, <1>7, <1>8, FlagsKeep, SMTT(30)

\* A frame with one reference has one mapper.
LEMMA SoleMapper ==
    ASSUME VmInv, NEW s \in Spaces, NEW p \in Pages, pt[s][p].frame # 0,
           refcount[pt[s][p].frame] <= 1
    PROVE  Mappers(pt[s][p].frame) = {<<s, p>>} /\ pt[s][p].frame \in Frames
<1>1. PICK f \in Frames : f = pt[s][p].frame
    BY DEF VmInv, FramesCounted, TypeOK
<1>2. <<s, p>> \in Mappers(f)
    BY <1>1, SMTT(30) DEF Mappers
<1>3. refcount[f] = Cardinality(Mappers(f)) /\ IsFiniteSet(Mappers(f)) /\ refcount[f] <= 1
    BY <1>1, FiniteSpaces, SMTT(30) DEF VmInv, FramesCounted, RefcountsExact
<1>4. /\ Cardinality(Mappers(f)) \in Nat
      /\ Cardinality({<<s, p>>}) = 1 /\ Cardinality(Mappers(f) \ {<<s, p>>}) \in Nat
      /\ IsFiniteSet(Mappers(f) \ {<<s, p>>})
      /\ Cardinality(Mappers(f) \ {<<s, p>>}) = Cardinality(Mappers(f)) - Cardinality({<<s, p>>})
  <2> DEFINE D == {<<s, p>>}
  <2>1. D \subseteq Mappers(f) /\ Cardinality(D) = 1
    BY <1>2, FS_Singleton, Zenon
  <2> HIDE DEF D
  <2>2. /\ Cardinality(Mappers(f)) \in Nat /\ IsFiniteSet(Mappers(f) \ D)
        /\ Cardinality(Mappers(f) \ D) \in Nat
        /\ Cardinality(Mappers(f) \ D) = Cardinality(Mappers(f)) - Cardinality(D)
    BY <2>1, <1>3, CountLess, ZenonT(60)
  <2> QED
    BY <2>1, <2>2, Zenon DEF D
<1>5. Cardinality(Mappers(f) \ {<<s, p>>}) = 0
    BY <1>3, <1>4, SMTT(30)
<1>6. Mappers(f) \ {<<s, p>>} = {}
    BY <1>4, <1>5, FS_EmptySet, SMTT(30)
<1> QED
    BY <1>1, <1>2, <1>6, Zenon

\* What vmspace_protect makes of an entry.
LEMMA ProtectFacts ==
    ASSUME NEW e \in Ptes, NEW w \in BOOLEAN
    PROVE  /\ vmspace_protect(e, w) \in Ptes /\ vmspace_protect(e, w).frame = e.frame
           /\ vmspace_protect(e, w).w = (w /\ ~e.cow) /\ vmspace_protect(e, w).cow = e.cow
    BY SMTT(30) DEF vmspace_protect, Pte, Ptes

\* mprotect, where no fork has shared the pages.
LEMMA MprotectKeeps ==
    ASSUME VmInv, MprotectUnshared, NEW P \in SUBSET Pages, NEW w \in BOOLEAN, uvm_mprotect(P, w)
    PROVE  VmInv'
<1> DEFINE C == {p \in P : \A q \in P : q <= p => q \in Present(active)}
<1>1. /\ active \in Spaces
      /\ \A p \in C : IF w THEN pt[active][p].cow \/ refcount[pt[active][p].frame] = 1
                      ELSE ~pt[active][p].cow
      /\ pt' = [pt EXCEPT ![active] = [p \in Pages |->
                                         IF p \in C THEN vmspace_protect(pt[active][p], w)
                                         ELSE pt[active][p]]]
      /\ Invlpg(C) /\ UNCHANGED <<physical, live, table, brk_cur, mmap_cur, active>>
    BY Zenon DEF uvm_mprotect, VmInv, FramesCounted, TypeOK
<1>2. /\ pt \in [Spaces -> [Pages -> Ptes]] /\ HolesClear
    BY Zenon DEF VmInv, FramesCounted, TypeOK, Ptes
<1>3. \A p \in C : p \in Pages /\ pt[active][p].frame # 0
  <2>1. \A p \in Pages : p <= p
    BY VmAssumption, SMTT(30) DEF Pages
  <2> QED
    BY <2>1, Zenon DEF Present
<1> HIDE DEF C
<1>4. \A u \in Spaces, p \in Pages :
         pt'[u][p] = IF u = active /\ p \in C THEN vmspace_protect(pt[u][p], w) ELSE pt[u][p]
    BY <1>1, <1>2, Zenon
<1>5. \A u \in Spaces, p \in Pages :
         /\ vmspace_protect(pt[u][p], w) \in Ptes
         /\ vmspace_protect(pt[u][p], w).frame = pt[u][p].frame
         /\ vmspace_protect(pt[u][p], w).w = (w /\ ~pt[u][p].cow)
    BY <1>2, ProtectFacts, SMTT(30)
<1>6. pt' \in [Spaces -> [Pages -> Ptes]]
    BY <1>1, <1>2, <1>5, SMTT(30)
<1>7. \A u \in Spaces, p \in Pages : pt'[u][p].frame = pt[u][p].frame
    BY <1>4, <1>5, SMTT(30)
<1>8. HolesClear'
    BY <1>2, <1>3, <1>4, <1>7, SMTT(30) DEF HolesClear
<1>9. ASSUME NEW u \in Spaces, NEW p \in Pages, pt'[u][p].w
      PROVE  pt[u][p].w \/ Mappers(pt[u][p].frame) = {<<u, p>>}
  <2>1. CASE u = active /\ p \in C
    <3>1. w /\ ~pt[u][p].cow
        BY <2>1, <1>4, <1>5, <1>9, ZenonT(60)
    <3>2. refcount[pt[u][p].frame] = 1 /\ pt[u][p].frame # 0
        BY <3>1, <2>1, <1>1, <1>3, ZenonT(60)
    <3> QED
        BY <3>2, SoleMapper
  <2>2. CASE ~(u = active /\ p \in C)
    BY <2>2, <1>4, <1>9, SMTT(30)
  <2> QED
    BY <2>1, <2>2, SMTT(30)
<1>10. /\ tlb' \in [Pages -> TlbEntries]
       /\ \A p \in Pages : tlb'[p] = NoEntry \/ tlb'[p] = tlb[p]
    BY <1>1, InvlpgLeaves, Zenon
<1> QED
    BY <1>1, <1>6, <1>7, <1>8, <1>9, <1>10, FlagsKeep, SMTT(30)

-----------------------------------------------------------------------------
(* Steps that leave the page tables alone *)

\* Nothing but the TLB, the contents of frames and CR3 changes.
LEMMA CpuKeeps ==
    ASSUME VmInv, UNCHANGED <<used, tables, refcount, live, table, pt, brk_cur, mmap_cur>>,
           data' \in [Frames -> Values], active' \in live \cup {NoSpace},
           tlb' \in [Pages -> TlbEntries], TlbSafe'
    PROVE  VmInv'
<1>1. Counted /\ Placed
    BY TwoParts, Zenon
<1>2. /\ \A f : Mappers(f)' = Mappers(f)
      /\ \A u \in Spaces : Present(u)' = Present(u)
    BY SameFrames, SMTT(30)
<1>3. Counted'
  <2>1. RefcountsExact' /\ HolesClear'
    BY <1>1, <1>2, SMTT(30) DEF Counted, RefcountsExact, HolesClear
  <2>2. WritableSole'
    BY <1>1, Zenon DEF Counted, WritableSole, Mappers
  <2>3. used' = {f \in Frames : Mappers(f)' # {}}
    BY <1>1, <1>2, Zenon DEF Counted
  <2>4. Tabled' = Tabled
    BY Zenon DEF Tabled
  <2> QED
    BY <2>1, <2>2, <2>3, <2>4, <1>1, SMTT(30) DEF Counted
<1>4. AboveFree'
    BY <1>1, <1>2, Zenon DEF Placed, AboveFree
<1>5. Placed'
    BY <1>1, <1>2, <1>4, Zenon DEF Placed, TlbEntries
<1> QED
    BY <1>3, <1>5, PartsJoin, Zenon

\* A context switch.
LEMMA SwitchKeeps ==
    ASSUME VmInv, NEW s \in Spaces, context_switch(s)
    PROVE  VmInv'
<1>1. /\ UNCHANGED <<used, tables, refcount, live, table, pt, brk_cur, mmap_cur>>
      /\ data' = data /\ active' \in live \cup {NoSpace} /\ tlb' = Flushed
    BY Zenon DEF context_switch, physical
<1>2. data \in [Frames -> Values]
    BY Zenon DEF VmInv, FramesCounted, TypeOK
<1> QED
    BY <1>1, <1>2, FlushedSafe, EmptyTlb, CpuKeeps, Zenon

\* Caching what the page table says of p.
LEMMA FillSafe ==
    ASSUME VmInv, NEW p \in Pages, active # NoSpace, active' = active, pt' = pt,
           tlb' = [tlb EXCEPT ![p] = [frame |-> pt[active][p].frame, w |-> pt[active][p].w]]
    PROVE  TlbSafe' /\ tlb' \in [Pages -> TlbEntries]
<1>1. /\ pt \in [Spaces -> [Pages -> Ptes]] /\ tlb \in [Pages -> TlbEntries] /\ active \in Spaces
    BY SMTT(30) DEF VmInv, FramesCounted, TypeOK, Ptes, TlbEntries
<1> DEFINE e == [frame |-> pt[active][p].frame, w |-> pt[active][p].w]
<1>2. e \in TlbEntries /\ e.frame = pt[active][p].frame /\ e.w = pt[active][p].w
  <2>1. pt[active][p] \in Ptes
    BY <1>1, Zenon
  <2> QED
    BY <2>1, Zenon DEF TlbEntries, Ptes
<1>3. tlb' = [tlb EXCEPT ![p] = e]
    BY Zenon
<1> HIDE DEF e
<1>4. tlb' \in [Pages -> TlbEntries] /\ tlb'[p] = e /\ \A q \in Pages : q # p => tlb'[q] = tlb[q]
    BY <1>1, <1>2, <1>3, SMTT(30)
<1>5. \A f : Mappers(f)' = Mappers(f)
    BY SameFrames, SMTT(30)
<1>6. ASSUME NEW q \in Pages, Cached(q)', NEW f, f = tlb'[q].frame
      PROVE  /\ active # NoSpace /\ f = pt'[active][q].frame
             /\ tlb'[q].w => Mappers(f)' = {<<active, q>>}
  <2>1. CASE q = p
    <3>1. f = pt[active][p].frame /\ (tlb'[q].w => pt[active][p].w)
        BY <2>1, <1>2, <1>4, <1>6, SMTT(30)
    <3>2. pt[active][p].w => Mappers(f) = {<<active, p>>}
        BY <3>1, <1>1, WritablePresent, SMTT(30)
    <3> QED
        BY <3>1, <3>2, <2>1, <1>5, SMTT(30)
  <2>2. CASE q # p
    <3>1. Cached(q) /\ f = tlb[q].frame /\ tlb'[q] = tlb[q]
        BY <2>2, <1>4, <1>6, SMTT(30) DEF Cached
    <3>2. f = pt[active][q].frame /\ (tlb[q].w => Mappers(f) = {<<active, q>>})
        BY <3>1, SMTT(30) DEF VmInv, TlbSafe
    <3> QED
        BY <3>1, <3>2, <1>5, SMTT(30)
  <2> QED
    BY <2>1, <2>2, SMTT(30)
<1>7. TlbSafe'
    BY <1>6, SMTT(30) DEF TlbSafe
<1> QED
    BY <1>4, <1>7, Zenon

\* A load.
LEMMA LoadKeeps ==
    ASSUME VmInv, NEW p \in Pages, Load(p)
    PROVE  VmInv'
<1>1. /\ UNCHANGED <<used, tables, refcount, live, table, pt, brk_cur, mmap_cur>>
      /\ data' = data /\ active' = active /\ active # NoSpace /\ pt' = pt
      /\ tlb' = [tlb EXCEPT ![p] = [frame |-> pt[active][p].frame, w |-> pt[active][p].w]]
    BY Zenon DEF Load, physical
<1>2. data \in [Frames -> Values] /\ active \in live \cup {NoSpace}
    BY Zenon DEF VmInv, FramesCounted, TypeOK
<1>3. TlbSafe' /\ tlb' \in [Pages -> TlbEntries]
    BY <1>1, FillSafe, ZenonT(60)
<1> QED
    BY <1>1, <1>2, <1>3, CpuKeeps, SMTT(30)

\* A store.
LEMMA StoreKeeps ==
    ASSUME VmInv, NEW p \in Pages, NEW v \in Values, Store(p, v)
    PROVE  VmInv'
<1>1. /\ data \in [Frames -> Values] /\ active \in live \cup {NoSpace}
      /\ tlb \in [Pages -> TlbEntries]
    BY Zenon DEF VmInv, FramesCounted, TypeOK, TlbEntries
<1>2. /\ UNCHANGED <<used, tables, refcount, live, table, pt, brk_cur, mmap_cur>>
      /\ active' = active /\ active # NoSpace /\ pt' = pt
      /\ data' \in [Frames -> Values]
    BY <1>1, ZenonT(60) DEF Store
<1>3. CASE Cached(p)
  <2>1. tlb' = tlb
    BY <1>1, <1>3, ZenonT(60) DEF Store
  <2>2. TlbSafe'
    BY <2>1, <1>2, ZenonT(60) DEF VmInv, TlbSafe, Cached, Mappers
  <2> QED
    BY <2>1, <2>2, <1>1, <1>2, CpuKeeps, Zenon
<1>4. CASE ~Cached(p)
  <2>1. tlb' = [tlb EXCEPT ![p] = [frame |-> pt[active][p].frame, w |-> pt[active][p].w]]
    BY <1>4, Zenon DEF Store
  <2>2. TlbSafe' /\ tlb' \in [Pages -> TlbEntries]
    BY <2>1, <1>2, FillSafe, ZenonT(60)
  <2> QED
    BY <2>2, <1>1, <1>2, CpuKeeps, Zenon
<1> QED
    BY <1>3, <1>4, Zenon

-----------------------------------------------------------------------------
(* Creating and destroying a space *)

\* A new space has a PML4 and nothing else.
LEMMA CreateKeeps ==
    ASSUME VmInv, NEW s \in Spaces, vmspace_create(s)
    PROVE  VmInv'
<1>1. Counted /\ Placed
    BY TwoParts, Zenon
<1>2. /\ s \notin live /\ Left(used, tables) > 0 /\ live' = live \cup {s} /\ tables' = tables + 1
      /\ UNCHANGED <<used, refcount, data, table, pt, brk_cur, mmap_cur, active, tlb>>
    BY Zenon DEF vmspace_create
<1>3. /\ \A f : Mappers(f)' = Mappers(f)
      /\ \A u \in Spaces : Present(u)' = Present(u)
    BY <1>2, SameFrames, SMTT(30)
<1>4. /\ table[s] = {} /\ Present(s) = {} /\ live \subseteq Spaces
      /\ table \in [Spaces -> SUBSET Arenas] /\ table' = table
    BY <1>1, <1>2, SMTT(30) DEF Counted, Placed
<1>5. /\ IsFiniteSet(live) /\ Cardinality(live') = Cardinality(live) + 1
      /\ Cardinality(live) \in Nat
    BY <1>2, <1>4, FiniteSpaces, FS_Subset, FS_AddElement, FS_CardinalityType, SMTT(30)
<1>6. tables' = Cardinality(live') + Cardinality(Tabled') /\ tables' \in Nat
  <2> DEFINE T == table[s]
  <2>1. table' = [table EXCEPT ![s] = T] /\ T \in SUBSET Arenas
    BY <1>4, Zenon
  <2>2. live' \subseteq Spaces /\ live' \ {s} = live \ {s} /\ (s \notin live' => T = {})
    BY <1>2, <1>4, Zenon
  <2>3. /\ Cardinality(Tabled') \in Nat /\ Cardinality(Tabled) \in Nat /\ Cardinality(T) \in Nat
        /\ Cardinality(Tabled') = Cardinality(Tabled) - Cardinality(table[s]) + Cardinality(T)
    <3> HIDE DEF T
    <3> QED
        BY <2>1, <2>2, <1>4, TablesMove, ZenonT(60)
  <2> QED
    BY <2>3, <1>1, <1>2, <1>5 DEF Counted
<1>7. tables' \in 0..(NFrames - Cardinality(used'))
  <2>1. IsFiniteSet(used) /\ Cardinality(used) \in Nat /\ NFrames \in Nat
    BY <1>1, FiniteSpaces, FS_Subset, FS_CardinalityType, VmAssumption, SMTT(30) DEF Counted
  <2> QED
    BY <2>1, <1>1, <1>2, <1>6, SMTT(30) DEF Left, Counted
<1>8. Counted'
  <2>1. RefcountsExact' /\ HolesClear'
    BY <1>1, <1>2, <1>3, ZenonT(60) DEF Counted, RefcountsExact, HolesClear
  <2>2. WritableSole'
    BY <1>1, <1>2, SMTT(30) DEF Counted, WritableSole, Mappers
  <2>3. used' = {f \in Frames : Mappers(f)' # {}}
    BY <1>1, <1>2, <1>3, SMTT(30) DEF Counted
  <2>4. \A u \in Spaces \ live' : table'[u] = {}
    BY <1>1, <1>2, SMTT(30) DEF Counted
  <2> QED
    BY <2>1, <2>2, <2>3, <2>4, <1>1, <1>2, <1>6, <1>7, ZenonT(60) DEF Counted
<1>9. AboveFree'
    BY <1>1, <1>2, <1>3, SMTT(30) DEF Placed, AboveFree
<1>10. TlbSafe'
    BY <1>1, <1>2, SMTT(30) DEF Placed, TlbSafe, Cached, Mappers
<1>11. Placed'
    BY <1>1, <1>2, <1>3, <1>9, <1>10, SMTT(30) DEF Placed
<1> QED
    BY <1>8, <1>11, PartsJoin, Zenon

\* Releasing a space: every other space's entries and contents stay.
LEMMA DestroyKeeps ==
    ASSUME VmInv, NEW s \in Spaces, vmspace_destroy(s)
    PROVE  /\ VmInv'
           /\ \A u \in Spaces, p \in Pages : pt'[u][p] = IF u = s THEN NotPresent ELSE pt[u][p]
           /\ \A f \in used' : data'[f] = data[f]
<1> DEFINE P == Present(s)
<1>1. Counted /\ Placed /\ s \in live /\ P \in SUBSET Pages
    BY TwoParts, SMTT(30) DEF vmspace_destroy, Present
<1>2. /\ refcount' = vmspace_unmap(Memory(s), P).refcount
      /\ used' = vmspace_unmap(Memory(s), P).used
      /\ data' = vmspace_unmap(Memory(s), P).data
      /\ tables' = tables - 1 - Cardinality(table[s])
      /\ pt' = [pt EXCEPT ![s] = [p \in Pages |-> NotPresent]]
      /\ table' = [table EXCEPT ![s] = {}] /\ live' = live \ {s}
      /\ brk_cur' = [brk_cur EXCEPT ![s] = 0] /\ mmap_cur' = [mmap_cur EXCEPT ![s] = HeapMax]
      /\ active' = NoSpace /\ tlb' = Flushed
    BY Zenon DEF vmspace_destroy
<1>3. /\ pt \in [Spaces -> [Pages -> Ptes]] /\ HolesClear
      /\ table \in [Spaces -> SUBSET Arenas] /\ live \subseteq Spaces
    BY <1>1, Zenon DEF Counted, Placed
<1>4. pt' = [pt EXCEPT ![s] = vmspace_unmap(Memory(s), P).pt]
  <2>1. [p \in Pages |-> NotPresent] = [p \in Pages |-> IF p \in P THEN NotPresent ELSE pt[s][p]]
    BY <1>3, Zenon DEF Present, HolesClear
  <2>2. vmspace_unmap(Memory(s), P).pt =
           [p \in Pages |-> IF p \in P THEN NotPresent ELSE pt[s][p]]
    BY <1>1, UnmapResult, ZenonT(60)
  <2> QED
    BY <2>1, <2>2, <1>2, Zenon
<1> HIDE DEF P
<1>5. /\ refcount' \in [Frames -> Nat] /\ data' \in [Frames -> Values]
      /\ pt' \in [Spaces -> [Pages -> Ptes]]
      /\ RefcountsExact' /\ HolesClear' /\ WritableSole'
      /\ used' = InUse' /\ used' \subseteq used
    BY <1>1, <1>2, <1>4, UnmapKeeps, ZenonT(60)
<1>6. /\ IsFiniteSet(used) /\ IsFiniteSet(live) /\ NFrames \in Nat
      /\ Cardinality(used) \in Nat /\ Cardinality(used') \in Nat
      /\ Cardinality(used') <= Cardinality(used)
      /\ Cardinality(live) \in Nat /\ Cardinality(live \ {s}) \in Nat
      /\ Cardinality(live \ {s}) = Cardinality(live) - 1
  <2>1. IsFiniteSet(used) /\ IsFiniteSet(live)
    BY <1>1, <1>3, FiniteSpaces, FS_Subset, SMTT(30) DEF Counted
  <2>2. /\ Cardinality(used') <= Cardinality(used) /\ IsFiniteSet(used')
    BY <2>1, <1>5, FS_Subset, Zenon
  <2>3. Cardinality(live \ {s}) = Cardinality(live) - 1 /\ IsFiniteSet(live \ {s})
    BY <2>1, <1>1, FS_RemoveElement, SMTT(30)
  <2> QED
    BY <2>1, <2>2, <2>3, FS_CardinalityType, VmAssumption, SMTT(30)
<1>7. /\ Cardinality(Tabled') \in Nat /\ Cardinality(Tabled) \in Nat
      /\ Cardinality(table[s]) \in Nat
      /\ Cardinality(Tabled') = Cardinality(Tabled) - Cardinality(table[s])
      /\ table' \in [Spaces -> SUBSET Arenas]
  <2> DEFINE T == {}
  <2>1. table' = [table EXCEPT ![s] = T] /\ T \in SUBSET Arenas /\ Cardinality(T) = 0
    BY <1>2, FS_EmptySet, SMTT(30)
  <2>2. /\ live' \subseteq Spaces /\ live' \ {s} = live \ {s} /\ (s \notin live' => T = {})
        /\ (s \notin live => table[s] = {})
    BY <1>1, <1>2, <1>3, Zenon
  <2>3. /\ Cardinality(Tabled') \in Nat /\ Cardinality(Tabled) \in Nat
        /\ Cardinality(table[s]) \in Nat
        /\ Cardinality(Tabled') = Cardinality(Tabled) - Cardinality(table[s]) + Cardinality(T)
        /\ table' \in [Spaces -> SUBSET Arenas]
    <3> HIDE DEF T
    <3> QED
        BY <2>1, <2>2, <1>3, TablesMove, ZenonT(60)
  <2> QED
    BY <2>1, <2>3, SMTT(30)
<1>8. /\ tables' = Cardinality(live') + Cardinality(Tabled')
      /\ tables' \in 0..(NFrames - Cardinality(used'))
    BY <1>1, <1>2, <1>6, <1>7, SMTT(30) DEF Counted
<1>9. Counted'
  <2>1. \A u \in Spaces \ live' : table'[u] = {}
    BY <1>1, <1>2, <1>3, Zenon DEF Counted
  <2> QED
    BY <2>1, <1>5, <1>7, <1>8, Zenon DEF Counted, InUse
<1>10. \A u \in Spaces, p \in Pages : pt'[u][p] = IF u = s THEN NotPresent ELSE pt[u][p]
    BY <1>2, <1>3, SMTT(30)
<1>11. /\ \A u \in Spaces \ live' : Present(u)' = {}
       /\ \A u \in Spaces : u # s => Present(u)' = Present(u)
       /\ Present(s)' = {}
    BY <1>1, <1>2, <1>10, PteTypes, SMTT(30) DEF Placed, Present
<1>12. AboveFree'
    BY <1>1, <1>2, <1>11, SMTT(30) DEF Placed, AboveFree
<1>13. /\ brk_cur' \in [Spaces -> 0..HeapMax] /\ mmap_cur' \in [Spaces -> HeapMax..ArenaEnd]
    BY <1>1, <1>2, VmAssumption, SMTT(30) DEF Placed
<1>14. Placed'
    BY <1>1, <1>2, <1>11, <1>12, <1>13, FlushedSafe, SMTT(30) DEF Placed
<1>15. VmInv'
    BY <1>9, <1>14, PartsJoin, Zenon
<1>16. \A f \in used' : data'[f] = data[f]
    BY <1>1, <1>2, <1>4, UnmapKeeps, Zenon
<1> QED
    BY <1>10, <1>15, <1>16, SMTT(30)

\* A fork: every frame of the parent gets as many references more as it has entries there.
LEMMA ForkKeeps ==
    ASSUME VmInv, NEW c \in Spaces, vmspace_fork(c)
    PROVE  VmInv'
<1>1. Counted /\ Placed
    BY TwoParts, Zenon
<1>2. PICK s \in live : s = active
    BY <1>1, SMTT(30) DEF vmspace_fork, Placed
<1>3. /\ c \notin live /\ Left(used, tables) > Cardinality(table[s])
      /\ live' = live \cup {c} /\ table' = [table EXCEPT ![c] = table[s]]
      /\ tables' = tables + 1 + Cardinality(table[s])
      /\ refcount' = [f \in Frames |-> refcount[f] + Cardinality({p \in Pages : pt[s][p].frame = f})]
      /\ pt' = [pt EXCEPT ![s] = Copied(s, Arenas), ![c] = Copied(s, Arenas)]
      /\ brk_cur' = [brk_cur EXCEPT ![c] = brk_cur[s]]
      /\ mmap_cur' = [mmap_cur EXCEPT ![c] = mmap_cur[s]]
      /\ tlb' = Flushed /\ UNCHANGED <<used, data, active>>
    BY <1>2, SMTT(30) DEF vmspace_fork
<1>4. /\ s \in Spaces /\ c # s /\ live \subseteq Spaces /\ pt \in [Spaces -> [Pages -> Ptes]]
      /\ table \in [Spaces -> SUBSET Arenas] /\ table[c] = {} /\ Present(c) = {} /\ HolesClear
      /\ refcount \in [Frames -> Nat]
    BY <1>1, <1>2, <1>3, SMTT(30) DEF Counted, Placed
<1>5. \A u \in Spaces, p \in Pages :
         pt'[u][p] = IF u = s \/ u = c THEN copy_leaf(pt[s][p]) ELSE pt[u][p]
    BY <1>3, <1>4, SMTT(30) DEF Copied, Arena, Arenas
<1>6. \A u \in Spaces, p \in Pages :
         /\ copy_leaf(pt[u][p]) \in Ptes /\ copy_leaf(pt[u][p]).frame = pt[u][p].frame
         /\ copy_leaf(pt[u][p]).w = FALSE
         /\ pt[u][p] = NotPresent => copy_leaf(pt[u][p]) = NotPresent
  <2> TAKE u \in Spaces, p \in Pages
  <2>1. pt[u][p] \in Ptes
    BY <1>4, Zenon
  <2> QED
    BY <2>1, CopyLeafFacts, Zenon
<1>7. pt' \in [Spaces -> [Pages -> Ptes]]
  <2>1. Copied(s, Arenas) \in [Pages -> Ptes]
    BY <1>4, <1>6, Zenon DEF Copied
  <2> QED
    BY <2>1, <1>3, <1>4, Zenon
<1> DEFINE h == [p \in Pages |-> pt[s][p].frame]
<1>8. Resends(c, Pages, h)
    BY <1>4, <1>5, <1>6 DEF Resends
<1>9. ASSUME NEW f \in Frames
      PROVE  /\ Mappers(f)' = Mappers(f) \cup ({c} \X At(s, Pages, f))
             /\ Cardinality(Mappers(f)) \in Nat /\ Cardinality(At(s, Pages, f)) \in Nat
             /\ Cardinality(Mappers(f)') = Cardinality(Mappers(f)) + Cardinality(At(s, Pages, f))
  <2>1. At(c, Pages, f) = {} /\ Cardinality({}) = 0
    BY <1>4, PteTypes, FS_EmptySet DEF At, Present
  <2>2. Sent(Pages, h, f) = At(s, Pages, f)
    BY Zenon DEF Sent, At
  <2> HIDE DEF h
  <2>3. /\ Mappers(f)' = (Mappers(f) \ ({c} \X At(c, Pages, f))) \cup ({c} \X Sent(Pages, h, f))
        /\ Cardinality(Mappers(f)) \in Nat /\ Cardinality(Sent(Pages, h, f)) \in Nat
        /\ Cardinality(Mappers(f)') = Cardinality(Mappers(f)) - Cardinality(At(c, Pages, f))
                                      + Cardinality(Sent(Pages, h, f))
    <3>1. Pages \in SUBSET Pages
        BY Zenon
    <3> QED
        BY <3>1, <1>8, Remap
  <2>4. Mappers(f)' = Mappers(f) \cup ({c} \X At(s, Pages, f))
    BY <2>1, <2>2, <2>3, SMTT(30)
  <2> QED
    BY <2>1, <2>2, <2>3, <2>4
<1>10. RefcountsExact' /\ refcount' \in [Frames -> Nat]
  <2>1. ASSUME NEW f \in Frames
        PROVE  refcount'[f] = Cardinality(Mappers(f)') /\ refcount'[f] \in Nat
    <3>1. refcount'[f] = refcount[f] + Cardinality(At(s, Pages, f))
        BY <1>3, Zenon DEF At
    <3>2. refcount[f] = Cardinality(Mappers(f))
        BY <1>1, SMTT(30) DEF Counted, RefcountsExact
    <3> QED
        BY <3>1, <3>2, <1>9, SMTT(30)
  <2> QED
    BY <2>1, <1>3, SMTT(30) DEF RefcountsExact
<1>11. used' = {f \in Frames : Mappers(f)' # {}}
  <2>1. ASSUME NEW f \in Frames
        PROVE  Mappers(f)' # {} <=> Mappers(f) # {}
    <3>1. ASSUME NEW p \in At(s, Pages, f) PROVE <<s, p>> \in Mappers(f)
        BY <1>4, Zenon DEF At, Mappers
    <3> QED
        BY <3>1, <1>9, ZenonT(60)
  <2> QED
    BY <2>1, <1>1, <1>3, Zenon DEF Counted
<1>12. HolesClear'
  <2> SUFFICES ASSUME NEW u \in Spaces, NEW p \in Pages, pt'[u][p].frame = 0
               PROVE  pt'[u][p] = NotPresent
    BY ZenonT(60) DEF HolesClear
  <2>1. CASE u = s \/ u = c
    BY <2>1, <1>4, <1>5, <1>6, SMTT(30) DEF HolesClear
  <2>2. CASE ~(u = s \/ u = c)
    BY <2>2, <1>4, <1>5, ZenonT(60) DEF HolesClear
  <2> QED
    BY <2>1, <2>2, Zenon
<1>13. WritableSole'
  <2> SUFFICES ASSUME NEW u \in Spaces, NEW p \in Pages, pt'[u][p].w,
                      NEW f, f = pt'[u][p].frame
               PROVE  Mappers(f)' = {<<u, p>>}
    BY SMTT(30) DEF WritableSole
  <2>1. u # s /\ u # c
    BY <1>4, <1>5, <1>6, SMTT(30)
  <2>2. pt'[u][p] = pt[u][p]
    BY <2>1, <1>5, SMTT(30)
  <2>3. f \in Frames /\ Mappers(f) = {<<u, p>>}
    BY <2>2, WritablePresent, Zenon
  <2>4. At(s, Pages, f) = {}
    <3> SUFFICES ASSUME NEW q \in At(s, Pages, f) PROVE FALSE
        BY SMTT(30)
    <3>1. <<s, q>> \in Mappers(f)
        BY <1>4, SMTT(30) DEF At, Mappers
    <3> QED
        BY <3>1, <2>1, <2>3, Zenon
  <2> QED
    BY <2>3, <2>4, <1>9, SMTT(30)
<1>14. /\ IsFiniteSet(used) /\ Cardinality(used) \in Nat /\ NFrames \in Nat
       /\ IsFiniteSet(live) /\ Cardinality(live) \in Nat
       /\ Cardinality(live') = Cardinality(live) + 1
  <2>1. IsFiniteSet(used) /\ IsFiniteSet(live)
    BY <1>1, <1>4, FiniteSpaces, FS_Subset, Zenon DEF Counted
  <2> QED
    BY <2>1, <1>3, FS_CardinalityType, FS_AddElement, VmAssumption, SMTT(30)
<1>15. /\ tables' = Cardinality(live') + Cardinality(Tabled')
       /\ tables' \in 0..(NFrames - Cardinality(used'))
       /\ table' \in [Spaces -> SUBSET Arenas]
  <2> DEFINE T == table[s]
  <2>1. table' = [table EXCEPT ![c] = T] /\ T \in SUBSET Arenas
    BY <1>3, <1>4, SMTT(30)
  <2>2. /\ live' \subseteq Spaces /\ live' \ {c} = live \ {c} /\ c \in live'
    BY <1>3, <1>4, Zenon
  <2> HIDE DEF T
  <2>3. /\ Cardinality(Tabled') \in Nat /\ Cardinality(Tabled) \in Nat
        /\ Cardinality(table[c]) \in Nat /\ Cardinality(T) \in Nat
        /\ Cardinality(Tabled') = Cardinality(Tabled) - Cardinality(table[c]) + Cardinality(T)
        /\ table' \in [Spaces -> SUBSET Arenas]
    BY <2>1, <2>2, <1>4, TablesMove, ZenonT(60)
  <2>4. Cardinality(table[c]) = 0
    BY <1>4, FS_EmptySet, SMTT(30)
  <2>5. tables' = tables + 1 + Cardinality(T) /\ Left(used, tables) > Cardinality(T)
    BY <1>3, SMTT(30) DEF T
  <2>6. /\ tables = Cardinality(live) + Cardinality(Tabled)
        /\ tables \in 0..(NFrames - Cardinality(used)) /\ used' = used
    BY <1>1, <1>3, SMTT(30) DEF Counted
  <2>7. tables' = Cardinality(live') + Cardinality(Tabled')
    BY <2>3, <2>4, <2>5, <2>6, <1>14, SMTT(30)
  <2>8. tables' \in 0..(NFrames - Cardinality(used'))
    BY <2>3, <2>5, <2>6, <1>14, SMTT(30) DEF Left
  <2> QED
    BY <2>3, <2>7, <2>8, SMTT(30)
<1>16. Counted'
  <2>1. \A u \in Spaces \ live' : table'[u] = {}
    BY <1>1, <1>3, <1>4, SMTT(30) DEF Counted
  <2>2. data' \in [Frames -> Values]
    BY <1>1, <1>3, SMTT(30) DEF Counted
  <2> QED
    BY <2>1, <2>2, <1>7, <1>10, <1>11, <1>12, <1>13, <1>15, ZenonT(60) DEF Counted
<1>17. /\ \A u \in Spaces : u # c => Present(u)' = Present(u)
       /\ Present(c)' = Present(s)
  <2>1. ASSUME NEW u \in Spaces, NEW p \in Pages
        PROVE  pt'[u][p].frame = IF u = c THEN pt[s][p].frame ELSE pt[u][p].frame
    BY <1>4, <1>5, <1>6, SMTT(30)
  <2> QED
    BY <2>1, <1>4, SMTT(30) DEF Present
<1>18. AboveFree'
  <2> SUFFICES ASSUME NEW u \in Spaces, NEW p \in Present(u)'
               PROVE  p <= (IF Arena(p) = "heap" THEN brk_cur'[u] ELSE mmap_cur'[u])
    BY SMTT(30) DEF AboveFree
  <2>1. CASE u = c
    BY <2>1, <1>1, <1>3, <1>4, <1>17, ZenonT(60) DEF Placed, AboveFree
  <2>2. CASE u # c
    BY <2>2, <1>1, <1>3, <1>4, <1>17, ZenonT(60) DEF Placed, AboveFree
  <2> QED
    BY <2>1, <2>2, SMTT(30)
<1>19. Placed'
    BY <1>1, <1>3, <1>4, <1>17, <1>18, FlushedSafe, SMTT(30) DEF Placed
<1> QED
    BY <1>16, <1>19, PartsJoin, SMTT(30)

-----------------------------------------------------------------------------
(* brk, mmap and munmap *)

\* Unmapping pages of s keeps the counts exact, and the contents of what is still in use.
LEMMA UnmapCounted ==
    ASSUME VmInv, NEW s \in live, NEW P \in SUBSET Pages, live' = live,
           Commit(s, vmspace_unmap(Memory(s), P))
    PROVE  /\ Counted'
           /\ \A f \in Frames : Mappers(f)' = Mappers(f) \ ({s} \X At(s, P, f))
           /\ \A u \in Spaces, p \in Pages :
                 pt'[u][p] = IF u = s /\ p \in P THEN NotPresent ELSE pt[u][p]
           /\ \A f \in used' : data'[f] = data[f]
<1>1. Counted /\ Placed /\ s \in Spaces
    BY TwoParts, SMTT(30) DEF Placed
<1>2. /\ refcount' = vmspace_unmap(Memory(s), P).refcount
      /\ used' = vmspace_unmap(Memory(s), P).used
      /\ data' = vmspace_unmap(Memory(s), P).data
      /\ pt' = [pt EXCEPT ![s] = vmspace_unmap(Memory(s), P).pt]
    BY Zenon DEF Commit
<1>3. /\ tables' = tables /\ table' = [table EXCEPT ![s] = table[s]]
  <2>1. /\ vmspace_unmap(Memory(s), P).tables = tables
        /\ vmspace_unmap(Memory(s), P).table = table[s]
    BY <1>1, UnmapResult, ZenonT(60)
  <2> QED
    BY <2>1, Zenon DEF Commit
<1>4. /\ refcount' \in [Frames -> Nat] /\ data' \in [Frames -> Values]
      /\ pt' \in [Spaces -> [Pages -> Ptes]]
      /\ RefcountsExact' /\ HolesClear' /\ WritableSole'
      /\ used' = InUse' /\ used' \subseteq used
    BY <1>1, <1>2, UnmapKeeps, ZenonT(60)
<1>5. \A f \in Frames : Mappers(f)' = Mappers(f) \ ({s} \X At(s, P, f))
    BY <1>1, <1>2, UnmapKeeps, ZenonT(60)
<1>6. \A u \in Spaces, p \in Pages :
         pt'[u][p] = IF u = s /\ p \in P THEN NotPresent ELSE pt[u][p]
  <2>1. Unmaps(s, P)
    BY <1>1, <1>2, UnmapKeeps, ZenonT(60)
  <2> QED
    BY <2>1, Zenon DEF Unmaps
<1>7. table' = table /\ Tabled' = Tabled
  <2>1. table' = table
    BY <1>1, <1>3, SMTT(30) DEF Counted
  <2> QED
    BY <2>1, ZenonT(60) DEF Tabled
<1>8. tables' \in 0..(NFrames - Cardinality(used'))
  <2>1. IsFiniteSet(used) /\ NFrames \in Nat
    BY <1>1, FiniteSpaces, FS_Subset, VmAssumption, SMTT(30) DEF Counted
  <2>2. /\ Cardinality(used') <= Cardinality(used)
        /\ Cardinality(used') \in Nat /\ Cardinality(used) \in Nat
    BY <2>1, <1>4, FS_Subset, FS_CardinalityType, Zenon
  <2> QED
    BY <2>1, <2>2, <1>1, <1>3, SMTT(30) DEF Counted
<1>9. Counted'
    BY <1>1, <1>3, <1>4, <1>7, <1>8, ZenonT(60) DEF Counted, InUse
<1>10. \A f \in used' : data'[f] = data[f]
    BY <1>1, <1>2, UnmapKeeps, Zenon
<1> QED
    BY <1>5, <1>6, <1>9, <1>10, ZenonT(60)

\* The running process unmaps the pages P, and the TLB keeps nothing of them.
LEMMA UnmapSafe ==
    ASSUME VmInv, active # NoSpace, NEW P \in SUBSET Pages, live' = live, active' = active,
           Commit(active, vmspace_unmap(Memory(active), P)),
           NEW Q, Invlpg(Q), \A p \in P : p \in Q \/ ~Cached(p),
           brk_cur' \in [Spaces -> 0..HeapMax], mmap_cur' = mmap_cur,
           \A u \in Spaces, p \in Pages :
              /\ brk_cur'[u] = brk_cur[u] \/ (u = active /\ p \in P)
                 \/ p <= brk_cur'[u] \/ p > brk_cur[u]
    PROVE  VmInv'
<1>1. Counted /\ Placed
    BY TwoParts, SMTT(30)
<1>2. PICK s \in live : s = active
    BY <1>1, SMTT(30) DEF Placed
<1>3. s \in Spaces
    BY <1>1, SMTT(30) DEF Placed
<1>4. Commit(s, vmspace_unmap(Memory(s), P))
    BY <1>2, Zenon
<1>5. /\ Counted'
      /\ \A f \in Frames : Mappers(f)' = Mappers(f) \ ({s} \X At(s, P, f))
      /\ \A u \in Spaces, p \in Pages :
            pt'[u][p] = IF u = s /\ p \in P THEN NotPresent ELSE pt[u][p]
    BY <1>4, UnmapCounted, ZenonT(60)
<1>6. /\ tlb' \in [Pages -> TlbEntries]
      /\ \A p \in Pages : tlb'[p] = IF p \in Q THEN NoEntry ELSE tlb[p]
    BY InvlpgLeaves, Zenon
<1>7. TlbSafe'
  <2>1. ASSUME NEW p \in Pages
        PROVE  \/ tlb'[p] = NoEntry
               \/ /\ tlb'[p] = tlb[p]
                  /\ Cached(p) => pt'[active][p].frame = pt[active][p].frame
                  /\ \A f \in Frames : tlb[p].frame = f /\ tlb[p].w => Mappers(f)' = Mappers(f)
    <3>1. CASE p \in Q
        BY <3>1, <1>6, ZenonT(60)
    <3>2. CASE p \notin Q
      <4>1. tlb'[p] = tlb[p] /\ (p \in P => ~Cached(p))
        BY <3>2, <1>6, SMTT(30)
      <4>2. Cached(p) => pt'[active][p].frame = pt[active][p].frame
        BY <4>1, <1>2, <1>3, <1>5, Zenon
      <4>3. ASSUME NEW f \in Frames, tlb[p].frame = f, tlb[p].w
            PROVE  Mappers(f)' = Mappers(f)
        <5>1. Cached(p)
            BY <4>3, PteTypes, Zenon DEF Cached
        <5>2. Mappers(f) = {<<s, p>>} /\ p \notin P
            BY <5>1, <4>1, <4>3, <1>2, ZenonT(60) DEF VmInv, TlbSafe
        <5>3. <<s, p>> \notin {s} \X At(s, P, f)
            BY <5>2, SMTT(30) DEF At
        <5> QED
            BY <5>2, <5>3, <1>5, ZenonT(60)
      <4> QED
        BY <4>1, <4>2, <4>3, SMTT(30)
    <3> QED
        BY <3>1, <3>2, ZenonT(60)
  <2> QED
    BY <2>1, <1>6, TlbKeeps, ZenonT(60)
<1>8. \A u \in Spaces : Present(u)' = {p \in Present(u) : ~(u = s /\ p \in P)}
  <2>1. ASSUME NEW u \in Spaces, NEW p \in Pages
        PROVE  pt'[u][p].frame # 0 <=> pt[u][p].frame # 0 /\ ~(u = s /\ p \in P)
    BY <1>5, PteTypes, ZenonT(60)
  <2> QED
    BY <2>1, ZenonT(60) DEF Present
<1>9. AboveFree'
  <2> SUFFICES ASSUME NEW u \in Spaces, NEW p \in Present(u)'
               PROVE  p <= (IF Arena(p) = "heap" THEN brk_cur'[u] ELSE mmap_cur'[u])
    BY ZenonT(60) DEF AboveFree
  <2>1. p \in Present(u) /\ ~(u = s /\ p \in P) /\ p \in Pages
    BY <1>8, SMTT(30) DEF Present
  <2>2. p <= (IF Arena(p) = "heap" THEN brk_cur[u] ELSE mmap_cur[u])
    BY <2>1, <1>1, SMTT(30) DEF Placed, AboveFree
  <2>3. brk_cur[u] \in Nat /\ brk_cur'[u] \in Nat /\ p \in Nat
    BY <2>1, <1>1, VmAssumption, SMTT(30) DEF Placed, Pages
  <2> QED
    BY <2>1, <2>2, <2>3, <1>2
<1>10. Placed'
    BY <1>1, <1>6, <1>7, <1>8, <1>9, Zenon DEF Placed, TlbEntries
<1> QED
    BY <1>5, <1>10, PartsJoin, ZenonT(60)

\* munmap.
LEMMA MunmapKeeps ==
    ASSUME VmInv, NEW P \in SUBSET Pages, uvm_munmap(P)
    PROVE  VmInv'
<1>1. /\ active # NoSpace /\ Commit(active, vmspace_unmap(Memory(active), P))
      /\ Invlpg(P \cap Present(active)) /\ live' = live /\ active' = active
      /\ brk_cur' = brk_cur /\ mmap_cur' = mmap_cur
    BY Zenon DEF uvm_munmap
<1>2. brk_cur \in [Spaces -> 0..HeapMax]
    BY SMTT(30) DEF VmInv, FramesCounted, TypeOK
<1>3. \A p \in P : p \in P \cap Present(active) \/ ~Cached(p)
    BY Zenon DEF VmInv, TlbSafe, Cached, Present
<1> DEFINE Q == P \cap Present(active)
<1>4. Invlpg(Q) /\ \A p \in P : p \in Q \/ ~Cached(p)
    BY <1>1, <1>3, SMTT(30)
<1> HIDE DEF Q
<1> QED
    BY <1>1, <1>2, <1>4, UnmapSafe, ZenonT(60)

\* The running process maps fresh pages above its break or its last mapping.
LEMMA MapSafe ==
    ASSUME VmInv, active # NoSpace, NEW P \in SUBSET Pages, P \cap Present(active) = {},
           NEW w \in BOOLEAN, live' = live, active' = active,
           Commit(active, map_anon(Memory(active), P, w)),
           tlb' \in [Pages -> TlbEntries],
           \A p \in Pages : tlb'[p] = NoEntry \/ tlb'[p] = tlb[p],
           brk_cur' \in [Spaces -> 0..HeapMax], mmap_cur' \in [Spaces -> HeapMax..ArenaEnd],
           \A u \in Spaces : brk_cur[u] <= brk_cur'[u] /\ mmap_cur[u] <= mmap_cur'[u],
           map_anon(Memory(active), P, w).ok =>
              \A p \in P : p <= (IF Arena(p) = "heap" THEN brk_cur'[active] ELSE mmap_cur'[active])
    PROVE  VmInv'
<1>1. Counted /\ Placed
    BY TwoParts, Zenon
<1>2. PICK s \in live : s = active
    BY <1>1, ZenonT(60) DEF Placed
<1>3. s \in Spaces
    BY <1>1, Zenon DEF Placed
<1>4. Commit(s, map_anon(Memory(s), P, w)) /\ P \cap Present(s) = {}
    BY <1>2, ZenonT(60)
<1>5. /\ Counted'
      /\ \A f \in used : Mappers(f)' = Mappers(f)
      /\ \A u \in Spaces, p \in Pages : u # s \/ p \notin P => pt'[u][p] = pt[u][p]
      /\ ~map_anon(Memory(s), P, w).ok => pt' = pt
    BY <1>4, MapKeeps, ZenonT(60)
<1>6. TlbSafe'
  <2>1. ASSUME NEW p \in Pages
        PROVE  \/ tlb'[p] = NoEntry
               \/ /\ tlb'[p] = tlb[p]
                  /\ Cached(p) => pt'[active][p].frame = pt[active][p].frame
                  /\ \A f \in Frames : tlb[p].frame = f /\ tlb[p].w => Mappers(f)' = Mappers(f)
    <3>1. Cached(p) => p \in Present(s)
        BY <1>2, Zenon DEF VmInv, TlbSafe, Cached, Present
    <3>2. Cached(p) => pt'[active][p].frame = pt[active][p].frame
        BY <3>1, <1>2, <1>3, <1>4, <1>5, ZenonT(60)
    <3>3. ASSUME NEW f \in Frames, tlb[p].frame = f, tlb[p].w
          PROVE  Mappers(f)' = Mappers(f)
      <4>1. Cached(p)
        BY <3>3, PteTypes, ZenonT(60) DEF Cached
      <4>2. Mappers(f) = {<<s, p>>}
        BY <4>1, <3>3, <1>2, ZenonT(60) DEF VmInv, TlbSafe
      <4>3. f \in used
        BY <4>2, <1>1, ZenonT(60) DEF Counted
      <4> QED
        BY <4>3, <1>5, ZenonT(60)
    <3> QED
        BY <3>2, <3>3, ZenonT(60)
  <2> QED
    BY <2>1, TlbKeeps, ZenonT(60)
<1>7. ASSUME NEW u \in Spaces, NEW p \in Present(u)'
      PROVE  /\ p \in Present(u) \/ (u = s /\ p \in P /\ map_anon(Memory(s), P, w).ok)
             /\ p \in Pages
    BY <1>5, <1>7, ZenonT(60) DEF Present
<1>8. AboveFree'
  <2> SUFFICES ASSUME NEW u \in Spaces, NEW p \in Present(u)'
               PROVE  p <= (IF Arena(p) = "heap" THEN brk_cur'[u] ELSE mmap_cur'[u])
    BY ZenonT(60) DEF AboveFree
  <2>1. CASE p \in Present(u)
    <3>1. p <= (IF Arena(p) = "heap" THEN brk_cur[u] ELSE mmap_cur[u])
        BY <2>1, <1>1, ZenonT(60) DEF Placed, AboveFree
    <3>2. /\ brk_cur[u] \in Int /\ mmap_cur[u] \in Int /\ brk_cur'[u] \in Int
          /\ mmap_cur'[u] \in Int /\ p \in Int
        BY <1>1, <1>7, VmAssumption DEF Placed, Pages
    <3> QED
        BY <3>1, <3>2
  <2>2. CASE u = s /\ p \in P /\ map_anon(Memory(s), P, w).ok
    BY <2>2, <1>2, ZenonT(60)
  <2> QED
    BY <2>1, <2>2, <1>7, ZenonT(60)
<1>9. \A u \in Spaces \ live' : Present(u)' = {}
    BY <1>1, <1>2, <1>7, ZenonT(60) DEF Placed
<1>10. Placed'
    BY <1>1, <1>6, <1>8, <1>9, ZenonT(60) DEF Placed, TlbEntries
<1> QED
    BY <1>5, <1>10, PartsJoin, ZenonT(60)

\* Nothing is mapped where brk and mmap go next.
LEMMA RoomAbove ==
    ASSUME VmInv, active # NoSpace, NEW P \in SUBSET Pages,
           \/ \A p \in P : p > HeapMax /\ p > mmap_cur[active]
           \/ \A p \in P : p <= HeapMax /\ p > brk_cur[active]
    PROVE  P \cap Present(active) = {}
<1>1. /\ active \in Spaces /\ HeapMax \in Nat /\ ArenaEnd \in Nat
      /\ brk_cur[active] \in 0..HeapMax /\ mmap_cur[active] \in HeapMax..ArenaEnd
    BY VmAssumption, SMTT(30) DEF VmInv, FramesCounted, TypeOK
<1> SUFFICES ASSUME NEW p \in P, p \in Present(active) PROVE FALSE
    BY Zenon
<1>2. p \in Nat
    BY <1>1, SMTT(30) DEF Pages
<1>3. p <= (IF Arena(p) = "heap" THEN brk_cur[active] ELSE mmap_cur[active])
    BY <1>1, SMTT(30) DEF VmInv, FramesCounted, AboveFree
<1> QED
    BY <1>1, <1>2, <1>3, SMTT(30) DEF Arena

\* mmap, whether or not there are frames enough.
LEMMA MmapKeeps ==
    ASSUME VmInv, NEW len \in 1..ArenaEnd, NEW w \in BOOLEAN, uvm_mmap(len, w)
    PROVE  VmInv'
<1>1. Counted /\ Placed
    BY TwoParts, SMTT(30)
<1>2. active \in live /\ active \in Spaces
    BY <1>1, SMTT(30) DEF Placed, uvm_mmap
<1>3. /\ mmap_cur[active] \in HeapMax..ArenaEnd /\ HeapMax \in Nat /\ ArenaEnd \in Nat
      /\ len \in 1..ArenaEnd /\ mmap_cur[active] + len <= ArenaEnd
    BY <1>1, <1>2, VmAssumption, SMTT(30) DEF Placed, uvm_mmap
<1> DEFINE P == (mmap_cur[active] + 1)..(mmap_cur[active] + len)
           m == map_anon(Memory(active), P, w)
<1>4. /\ active # NoSpace /\ Commit(active, m)
      /\ mmap_cur' = [mmap_cur EXCEPT ![active] = IF m.ok THEN mmap_cur[active] + len
                                                  ELSE mmap_cur[active]]
      /\ live' = live /\ brk_cur' = brk_cur /\ active' = active /\ tlb' = tlb
    BY Zenon DEF uvm_mmap
<1>5. P \in SUBSET Pages /\ \A p \in P : p > HeapMax /\ p > mmap_cur[active]
    BY <1>3 DEF Pages
<1>6. P \cap Present(active) = {}
  <2> HIDE DEF P
  <2> QED
    BY <1>4, <1>5, RoomAbove, SMTT(30)
<1>7. m.ok => \A p \in P : p <= (IF Arena(p) = "heap" THEN brk_cur'[active] ELSE mmap_cur'[active])
  <2> SUFFICES ASSUME m.ok, NEW p \in P
               PROVE  p <= (IF Arena(p) = "heap" THEN brk_cur'[active] ELSE mmap_cur'[active])
    BY Zenon
  <2>1. Arena(p) = "mmap"
    BY <1>3, <1>5, SMTT(30) DEF Arena
  <2>2. mmap_cur'[active] = mmap_cur[active] + len
    BY <1>1, <1>2, <1>4, SMTT(30) DEF Placed
  <2> QED
    BY <2>1, <2>2, <1>3, SMTT(30)
<1>8. /\ mmap_cur' \in [Spaces -> HeapMax..ArenaEnd]
      /\ \A u \in Spaces : brk_cur[u] <= brk_cur'[u] /\ mmap_cur[u] <= mmap_cur'[u]
      /\ brk_cur' \in [Spaces -> 0..HeapMax]
  <2> HIDE DEF m
  <2>1. mmap_cur \in [Spaces -> HeapMax..ArenaEnd] /\ brk_cur \in [Spaces -> 0..HeapMax]
    BY <1>1, Zenon DEF Placed
  <2>2. mmap_cur'[active] \in HeapMax..ArenaEnd /\ mmap_cur[active] <= mmap_cur'[active]
    BY <2>1, <1>2, <1>3, <1>4, SMTT(30)
  <2>3. \A u \in Spaces : u # active => mmap_cur'[u] = mmap_cur[u]
    BY <2>1, <1>4, Zenon
  <2>4. mmap_cur' \in [Spaces -> HeapMax..ArenaEnd]
    BY <2>1, <2>2, <1>3, <1>4, ZenonT(60)
  <2> QED
    BY <2>1, <2>2, <2>3, <2>4, <1>3, <1>4, SMTT(30)
<1>9. /\ tlb' \in [Pages -> TlbEntries]
      /\ \A p \in Pages : tlb'[p] = NoEntry \/ tlb'[p] = tlb[p]
    BY <1>1, <1>4, SMTT(30) DEF Placed, TlbEntries
<1>10. Commit(active, map_anon(Memory(active), P, w))
    BY <1>4, Zenon
<1> HIDE DEF P
<1> QED
    BY <1>4, <1>5, <1>6, <1>7, <1>8, <1>9, <1>10, MapSafe, ZenonT(60)

\* brk, up or down.
LEMMA BrkKeeps ==
    ASSUME VmInv, NEW newbrk \in 0..HeapMax, uvm_brk(newbrk)
    PROVE  VmInv'
<1>1. Counted /\ Placed
    BY TwoParts, SMTT(30)
<1>2. active \in live /\ active \in Spaces /\ active # NoSpace /\ newbrk # brk_cur[active]
    BY <1>1 DEF Placed, uvm_brk
<1>3. /\ brk_cur[active] \in 0..HeapMax /\ HeapMax \in Nat /\ ArenaEnd \in Nat
      /\ HeapMax <= ArenaEnd /\ brk_cur \in [Spaces -> 0..HeapMax]
    BY <1>1, <1>2, VmAssumption DEF Placed
<1> DEFINE G == (brk_cur[active] + 1)..newbrk
           S == (newbrk + 1)..brk_cur[active]
<1>4. CASE newbrk > brk_cur[active]
  <2> DEFINE m == map_anon(Memory(active), G, TRUE)
  <2>1. /\ Commit(active, m) /\ Invlpg(S)
        /\ brk_cur' = [brk_cur EXCEPT ![active] = IF m.ok THEN newbrk ELSE brk_cur[active]]
        /\ live' = live /\ mmap_cur' = mmap_cur /\ active' = active
    BY <1>4, ZenonT(60) DEF uvm_brk
  <2>2. G \in SUBSET Pages /\ \A p \in G : p <= HeapMax /\ p > brk_cur[active]
    BY <1>3 DEF Pages
  <2>3. \A p \in G : Arena(p) = "heap"
    BY <2>2, SMTT(30) DEF Arena
  <2>4. G \cap Present(active) = {}
    <3> HIDE DEF G
    <3> QED
        BY <2>2, <1>2, RoomAbove, SMTT(30)
  <2>5. m.ok => \A p \in G : p <= (IF Arena(p) = "heap" THEN brk_cur'[active]
                                   ELSE mmap_cur'[active])
    <3> SUFFICES ASSUME m.ok, NEW p \in G
                 PROVE  p <= (IF Arena(p) = "heap" THEN brk_cur'[active] ELSE mmap_cur'[active])
        BY ZenonT(60)
    <3>1. brk_cur'[active] = newbrk
        BY <1>2, <1>3, <2>1, SMTT(30)
    <3> QED
        BY <3>1, <2>3, <1>3
  <2>6. /\ brk_cur' \in [Spaces -> 0..HeapMax]
        /\ \A u \in Spaces : brk_cur[u] <= brk_cur'[u]
    <3> HIDE DEF m
    <3>1. brk_cur'[active] \in 0..HeapMax /\ brk_cur[active] <= brk_cur'[active]
        BY <1>2, <1>3, <1>4, <2>1, SMTT(30)
    <3>2. \A u \in Spaces : u # active => brk_cur'[u] = brk_cur[u]
        BY <1>3, <2>1, Zenon
    <3>3. brk_cur' \in [Spaces -> 0..HeapMax]
        BY <3>1, <1>3, <2>1, ZenonT(60)
    <3> QED
        BY <3>1, <3>2, <3>3, <1>3, SMTT(30)
  <2>7. /\ mmap_cur' \in [Spaces -> HeapMax..ArenaEnd]
        /\ \A u \in Spaces : mmap_cur[u] <= mmap_cur'[u]
    BY <1>1, <1>3, <2>1, SMTT(30) DEF Placed
  <2>8. /\ tlb' \in [Pages -> TlbEntries]
        /\ \A p \in Pages : tlb'[p] = NoEntry \/ tlb'[p] = tlb[p]
    <3> HIDE DEF S
    <3> QED
        BY <2>1, InvlpgLeaves, Zenon
  <2>9. Commit(active, map_anon(Memory(active), G, TRUE)) /\ TRUE \in BOOLEAN
    BY <2>1, ZenonT(60)
  <2> HIDE DEF G, S
  <2> QED
    BY <1>2, <2>1, <2>2, <2>4, <2>5, <2>6, <2>7, <2>8, <2>9, MapSafe, ZenonT(60)
<1>5. CASE ~(newbrk > brk_cur[active])
  <2> DEFINE m == vmspace_unmap(Memory(active), S)
  <2>1. /\ Commit(active, m) /\ Invlpg(S)
        /\ brk_cur' = [brk_cur EXCEPT ![active] = IF m.ok THEN newbrk ELSE brk_cur[active]]
        /\ live' = live /\ mmap_cur' = mmap_cur /\ active' = active
    BY <1>5, Zenon DEF uvm_brk
  <2>2. S \in SUBSET Pages
    BY <1>3 DEF Pages
  <2>3. m.ok = TRUE
    <3> HIDE DEF S
    <3> QED
        BY <1>2, <2>2, UnmapResult, Zenon
  <2>4. /\ brk_cur' = [brk_cur EXCEPT ![active] = newbrk]
    BY <2>1, <2>3, Zenon
  <2>5. brk_cur' \in [Spaces -> 0..HeapMax]
    BY <2>4, <1>3, ZenonT(60)
  <2>6. ASSUME NEW u \in Spaces, NEW p \in Pages
        PROVE  brk_cur'[u] = brk_cur[u] \/ (u = active /\ p \in S)
               \/ p <= brk_cur'[u] \/ p > brk_cur[u]
    <3>1. CASE u = active
      <4>1. brk_cur'[u] = newbrk /\ p \in Int
        BY <3>1, <2>4, <1>2, <1>3, SMTT(30) DEF Pages
      <4> QED
        BY <4>1, <3>1, <1>3
    <3>2. CASE u # active
        BY <3>2, <2>4, <1>3, SMTT(30)
    <3> QED
        BY <3>1, <3>2, Zenon
  <2>7. Commit(active, vmspace_unmap(Memory(active), S)) /\ \A p \in S : p \in S \/ ~Cached(p)
    BY <2>1, SMTT(30)
  <2> HIDE DEF S
  <2> QED
    BY <1>2, <2>1, <2>2, <2>5, <2>6, <2>7, UnmapSafe, SMTT(30)
<1> QED
    BY <1>4, <1>5, Zenon

-----------------------------------------------------------------------------
(* The copy-on-write fault *)

\* The entry of p comes to lead to a copy nf of its frame.
CopyOf(m, s, p, nf) ==
    /\ m.ok = TRUE /\ m.tables = tables /\ m.table = table[s]
    /\ m.used = used \cup {nf}
    /\ m.data = [data EXCEPT ![nf] = data[pt[s][p].frame]]
    /\ m.refcount = [f \in Frames |-> IF f = nf THEN 1
                                      ELSE IF f = pt[s][p].frame THEN refcount[f] - 1
                                      ELSE refcount[f]]
    /\ m.pt = [pt[s] EXCEPT ![p] = Pte(nf, TRUE, FALSE)]

\* A COW fault on a shared page, when there is a frame left, makes a copy.
LEMMA CowCopy ==
    ASSUME VmInv, NEW s \in Spaces, NEW p \in Pages, pt[s][p].cow,
           pt[s][p].frame \in Frames, refcount[pt[s][p].frame] > 1, Left(used, tables) # 0
    PROVE  \E nf \in Frames \ used : CopyOf(vmspace_cow_fault(Memory(s), p), s, p, nf)
<1> DEFINE nf == pmm_alloc_page(Memory(s), {p})[p]
           old == pt[s][p].frame
           c == [Memory(s) EXCEPT !.used = @ \cup {nf}, !.data[nf] = data[old],
                                  !.refcount[nf] = 1]
<1>1. Counted
    BY TwoParts, Zenon
<1>2. /\ refcount \in [Frames -> Nat] /\ data \in [Frames -> Values]
      /\ used = {f \in Frames : Mappers(f) # {}} /\ tables \in 0..(NFrames - Cardinality(used))
    BY <1>1, SMTT(30) DEF Counted
<1>3. nf \in Frames \ used
  <2>1. Cardinality({p}) = 1 /\ {p} \in SUBSET Pages
    BY FS_Singleton, ZenonT(60)
  <2>2. used \subseteq Frames
    BY <1>2, Zenon
  <2>3. Left(used, tables) >= Cardinality({p})
    BY <2>1, <2>2, <1>2, SomeLeft, Zenon
  <2>4. pmm_alloc_page(Memory(s), {p}) \in Injection({p}, Frames \ used)
    BY <2>1, <2>3, AllocFacts, SMTT(30)
  <2> QED
    BY <2>4, Zenon DEF Injection
<1>4. old \in used /\ old \in Frames
  <2>1. <<s, p>> \in Mappers(old)
    BY Zenon DEF Mappers
  <2> QED
    BY <2>1, <1>2, SMTT(30)
<1> HIDE DEF nf
<1>5. vmspace_cow_fault(Memory(s), p) =
         [page_decref(c, {p}) EXCEPT !.pt[p] = Pte(nf, TRUE, FALSE)]
  <2>1. /\ Memory(s).pt[p].cow /\ Memory(s).pt[p].frame = old
        /\ Memory(s).refcount[old] = refcount[old] /\ Memory(s).used = used
        /\ Memory(s).tables = tables /\ Memory(s).data[old] = data[old]
    BY ZenonT(60) DEF Memory
  <2>2. ~(refcount[old] <= 1)
    BY <1>2, <1>4
  <2> QED
    BY <2>1, <2>2, Zenon DEF vmspace_cow_fault, nf
<1>6. /\ c.ok = TRUE /\ c.tables = tables /\ c.table = table[s] /\ c.pt = pt[s]
      /\ c.used = used \cup {nf} /\ c.data = [data EXCEPT ![nf] = data[old]]
      /\ c.refcount = [refcount EXCEPT ![nf] = 1]
    BY Zenon DEF Memory
<1> DEFINE dropped == [f \in Frames |-> Cardinality({q \in {p} : c.pt[q].frame = f})]
           freed == {f \in Frames : dropped[f] > 0 /\ c.refcount[f] <= dropped[f]}
<1>7. \A f \in Frames : dropped[f] = IF f = old THEN 1 ELSE 0
  <2>1. ASSUME NEW f \in Frames, f = old
        PROVE  Cardinality({q \in {p} : c.pt[q].frame = f}) = 1
    <3>1. {q \in {p} : c.pt[q].frame = f} = {p}
        BY <2>1, <1>6, Zenon
    <3> QED
        BY <3>1, FS_Singleton, Zenon
  <2>2. ASSUME NEW f \in Frames, f # old
        PROVE  Cardinality({q \in {p} : c.pt[q].frame = f}) = 0
    <3>1. {q \in {p} : c.pt[q].frame = f} = {}
        BY <2>2, <1>6, Zenon
    <3> QED
        BY <3>1, FS_EmptySet, ZenonT(60)
  <2> QED
    BY <2>1, <2>2, Zenon
<1> HIDE DEF dropped
<1>8. freed = {}
  <2> SUFFICES ASSUME NEW f \in freed PROVE FALSE
    BY Zenon
  <2>1. f \in Frames /\ dropped[f] > 0 /\ c.refcount[f] <= dropped[f]
    BY Zenon
  <2> HIDE DEF c, freed
  <2>2. f = old
    BY <2>1, <1>7, SMTT(30)
  <2>3. c.refcount[f] = refcount[f] /\ refcount[f] \in Nat
    BY <2>2, <1>2, <1>3, <1>4, <1>6, SMTT(30)
  <2> QED
    BY <2>1, <2>2, <2>3, <1>4, <1>7
<1> DEFINE z == [f \in Frames |-> IF f \in freed THEN 0 ELSE c.refcount[f] - dropped[f]]
           u == c.used \ freed
           v == [f \in Frames |-> IF f \in freed THEN Garbage ELSE c.data[f]]
<1>9. page_decref(c, {p}) = [c EXCEPT !.refcount = z, !.used = u, !.data = v]
    BY Zenon DEF page_decref, dropped
<1> HIDE DEF z, u, v, freed
<1> DEFINE r == [page_decref(c, {p}) EXCEPT !.pt[p] = Pte(nf, TRUE, FALSE)]
<1>10. /\ r.ok = TRUE /\ r.tables = tables /\ r.table = table[s]
       /\ r.used = u /\ r.data = v /\ r.refcount = z
       /\ r.pt = [pt[s] EXCEPT ![p] = Pte(nf, TRUE, FALSE)]
    BY <1>9, ZenonT(60) DEF Memory
<1> HIDE DEF r, c
<1>12. r.data = [data EXCEPT ![nf] = data[old]]
    BY <1>2, <1>6, <1>8, <1>10, Zenon DEF u, v
<1>13. r.used = used \cup {nf}
    BY <1>6, <1>8, <1>10, Zenon DEF u, v
<1>14. r.refcount = [f \in Frames |-> IF f = nf THEN 1 ELSE IF f = old THEN refcount[f] - 1
                                      ELSE refcount[f]]
  <2>1. r.refcount = [f \in Frames |-> c.refcount[f] - dropped[f]]
    BY <1>8, <1>10, ZenonT(60) DEF z
  <2>2. ASSUME NEW f \in Frames
        PROVE  c.refcount[f] - dropped[f] = IF f = nf THEN 1 ELSE IF f = old THEN refcount[f] - 1
                                            ELSE refcount[f]
    BY <1>2, <1>3, <1>4, <1>6, <1>7, SMTT(30)
  <2> QED
    BY <2>1, <2>2, ZenonT(60)
<1>15. CopyOf(r, s, p, nf)
    BY <1>10, <1>12, <1>13, <1>14, Zenon DEF CopyOf
<1>16. vmspace_cow_fault(Memory(s), p) = r
    BY <1>5, SMTT(30) DEF r
<1> QED
    BY <1>3, <1>15, <1>16, SMTT(30)

\* The faulting process gets a copy of a shared page.
LEMMA CopyKeeps ==
    ASSUME VmInv, active # NoSpace, NEW p \in Pages, NEW m, NEW nf \in Frames \ used,
           pt[active][p].frame \in Frames, refcount[pt[active][p].frame] > 1,
           CopyOf(m, active, p, nf), Commit(active, m), Invlpg({p}),
           UNCHANGED <<live, brk_cur, mmap_cur, active>>, Left(used, tables) # 0
    PROVE  VmInv'
<1>1. Counted /\ Placed
    BY TwoParts, Zenon
<1>2. PICK s \in Spaces : s = active /\ s \in live
    BY <1>1, ZenonT(60) DEF Placed
<1>3. PICK old \in Frames : old = pt[s][p].frame
    BY <1>2, ZenonT(60)
<1>4. /\ refcount \in [Frames -> Nat] /\ data \in [Frames -> Values]
      /\ pt \in [Spaces -> [Pages -> Ptes]] /\ table \in [Spaces -> SUBSET Arenas]
      /\ used = {f \in Frames : Mappers(f) # {}} /\ HolesClear
    BY <1>1, ZenonT(60) DEF Counted
<1>5. /\ tables' = tables /\ table' = [table EXCEPT ![s] = table[s]]
      /\ used' = used \cup {nf} /\ data' = [data EXCEPT ![nf] = data[old]]
      /\ refcount' = [f \in Frames |-> IF f = nf THEN 1
                                       ELSE IF f = old THEN refcount[f] - 1 ELSE refcount[f]]
      /\ pt' = [pt EXCEPT ![s] = [pt[s] EXCEPT ![p] = Pte(nf, TRUE, FALSE)]]
    BY <1>2, <1>3, SMTT(30) DEF CopyOf, Commit
<1>6. <<s, p>> \in Mappers(old) /\ old \in used /\ nf # old /\ Mappers(nf) = {}
  <2>1. <<s, p>> \in Mappers(old)
    BY <1>3, Zenon DEF Mappers
  <2> QED
    BY <2>1, <1>4, SMTT(30)
<1>7. /\ Pte(nf, TRUE, FALSE) \in Ptes /\ Pte(nf, TRUE, FALSE).frame = nf
      /\ Pte(nf, TRUE, FALSE).w = TRUE
    BY PteTypes, ZenonT(60)
<1>8. \A v \in Spaces, q \in Pages :
         pt'[v][q] = IF v = s /\ q = p THEN Pte(nf, TRUE, FALSE) ELSE pt[v][q]
    BY <1>4, <1>5, Zenon
<1>9. pt' \in [Spaces -> [Pages -> Ptes]]
    BY <1>4, <1>5, <1>7, Zenon
<1> DEFINE h == [q \in {p} |-> nf]
<1>10. Resends(s, {p}, h) /\ {p} \in SUBSET Pages
    BY <1>7, <1>8, ZenonT(60) DEF Resends
<1>11. ASSUME NEW f \in Frames
       PROVE  /\ Mappers(f)' = (Mappers(f) \ ({s} \X At(s, {p}, f))) \cup ({s} \X Sent({p}, h, f))
              /\ Cardinality(Mappers(f)) \in Nat /\ Cardinality(Mappers(f)') \in Nat
              /\ Cardinality(Mappers(f)') = Cardinality(Mappers(f)) - Cardinality(At(s, {p}, f))
                                            + Cardinality(Sent({p}, h, f))
  <2> HIDE DEF h
  <2> QED
    BY <1>10, Remap, SMTT(30)
<1>12. \A f \in Frames : /\ At(s, {p}, f) = IF f = old THEN {p} ELSE {}
                         /\ Sent({p}, h, f) = IF f = nf THEN {p} ELSE {}
    BY <1>3, Zenon DEF At, Sent
<1>13. Cardinality({p}) = 1 /\ Cardinality({}) = 0
    BY FS_Singleton, FS_EmptySet, ZenonT(60)
<1> HIDE DEF h
<1>14. ASSUME NEW f \in Frames
       PROVE  /\ f = nf => Mappers(f)' = {<<s, p>>}
              /\ f # nf /\ f # old => Mappers(f)' = Mappers(f)
              /\ f = old => Mappers(f)' = Mappers(f) \ {<<s, p>>}
              /\ Cardinality(Mappers(f)') =
                    IF f = nf THEN 1 ELSE IF f = old THEN Cardinality(Mappers(f)) - 1
                    ELSE Cardinality(Mappers(f))
  <2>1. CASE f = nf
    <3>1. Mappers(f) = {} /\ At(s, {p}, f) = {} /\ Sent({p}, h, f) = {p}
        BY <2>1, <1>6, <1>12, ZenonT(60)
    <3>2. Mappers(f)' = {s} \X {p}
        BY <3>1, <1>11, ZenonT(60)
    <3>3. Mappers(f)' = {<<s, p>>}
        BY <3>2
    <3>4. Cardinality(Mappers(f)') = 1
        BY <3>3, FS_Singleton, ZenonT(60)
    <3> QED
        BY <3>3, <3>4, <2>1, <1>6, ZenonT(60)
  <2>2. CASE f = old
    <3>1. At(s, {p}, f) = {p} /\ Sent({p}, h, f) = {}
        BY <2>2, <1>6, <1>12, ZenonT(60)
    <3>2. Mappers(f)' = Mappers(f) \ ({s} \X {p})
        BY <3>1, <1>11, ZenonT(60)
    <3>3. Mappers(f)' = Mappers(f) \ {<<s, p>>}
        BY <3>2, OnePair, Zenon
    <3>4. Cardinality(Mappers(f)') = Cardinality(Mappers(f)) - 1
      <4>1. Cardinality(At(s, {p}, f)) = 1 /\ Cardinality(Sent({p}, h, f)) = 0
        BY <3>1, <1>13, ZenonT(60)
      <4>2. /\ Cardinality(Mappers(f)) \in Nat /\ Cardinality(Mappers(f)') \in Nat
            /\ Cardinality(Mappers(f)') = Cardinality(Mappers(f)) - Cardinality(At(s, {p}, f))
                                          + Cardinality(Sent({p}, h, f))
        BY <1>11, Zenon
      <4> QED
        BY <4>1, <4>2, OneLess, Zenon
    <3> QED
        BY <3>3, <3>4, <2>2, <1>6, ZenonT(60)
  <2>3. CASE f # nf /\ f # old
    <3>1. At(s, {p}, f) = {} /\ Sent({p}, h, f) = {}
        BY <2>3, <1>12, ZenonT(60)
    <3>2. Mappers(f)' = Mappers(f)
        BY <3>1, <1>11, ZenonT(60)
    <3> QED
        BY <3>2, <2>3, ZenonT(60)
  <2> QED
    BY <2>1, <2>2, <2>3, Zenon
<1>15. refcount[old] > 1 /\ refcount[old] = Cardinality(Mappers(old))
    BY <1>1, <1>2, <1>3, ZenonT(60) DEF Counted, RefcountsExact
<1>16. RefcountsExact' /\ refcount' \in [Frames -> Nat]
  <2>1. ASSUME NEW f \in Frames
        PROVE  refcount'[f] = Cardinality(Mappers(f)') /\ refcount'[f] \in Nat
    <3>1. refcount[f] = Cardinality(Mappers(f)) /\ refcount[f] \in Nat
        BY <1>1, <1>4, Zenon DEF Counted, RefcountsExact
    <3>2. refcount'[f] = IF f = nf THEN 1 ELSE IF f = old THEN refcount[f] - 1 ELSE refcount[f]
        BY <1>5, Zenon
    <3>3. refcount'[f] = Cardinality(Mappers(f)')
        BY <3>1, <3>2, <1>14, Zenon
    <3>4. refcount'[f] \in Nat
        BY <3>1, <3>2, <1>15, Numbers, Zenon
    <3> QED
        BY <3>3, <3>4, Zenon
  <2> QED
    BY <2>1, <1>5, SMTT(30) DEF RefcountsExact
<1>17. Mappers(old)' # {}
  <2>1. Cardinality(Mappers(old)') = Cardinality(Mappers(old)) - 1
    BY <1>6, <1>14, Zenon
  <2>2. Cardinality(Mappers(old)) \in Nat
    BY <1>11, Zenon
  <2>3. Cardinality(Mappers(old)') > 0
    BY <2>1, <2>2, <1>15, Numbers, Zenon
  <2> QED
    BY <2>3, FS_EmptySet, Numbers, Zenon
<1>18. used' = {f \in Frames : Mappers(f)' # {}}
  <2>1. ASSUME NEW f \in Frames PROVE f \in used' <=> Mappers(f)' # {}
    <3>1. CASE f = nf
        BY <3>1, <1>5, <1>14, ZenonT(60)
    <3>2. CASE f = old
        BY <3>2, <1>5, <1>6, <1>17, SMTT(30)
    <3>3. CASE f # nf /\ f # old
        BY <3>3, <1>4, <1>5, <1>14, Zenon
    <3> QED
        BY <3>1, <3>2, <3>3, ZenonT(60)
  <2> QED
    BY <2>1, <1>4, <1>5, ZenonT(60)
<1>19. HolesClear'
  <2> SUFFICES ASSUME NEW v \in Spaces, NEW q \in Pages, pt'[v][q].frame = 0
               PROVE  pt'[v][q] = NotPresent
    BY ZenonT(60) DEF HolesClear
  <2>1. ~(v = s /\ q = p)
    <3> SUFFICES ASSUME v = s /\ q = p PROVE FALSE
        BY ZenonT(60)
    <3>1. pt'[v][q].frame = nf
        BY <1>7, <1>8, ZenonT(60)
    <3> QED
        BY <3>1, PteTypes, Zenon
  <2> QED
    BY <2>1, <1>4, <1>8, ZenonT(60) DEF HolesClear
<1>20. WritableSole'
  <2> SUFFICES ASSUME NEW v \in Spaces, NEW q \in Pages, pt'[v][q].w,
                      NEW f, f = pt'[v][q].frame
               PROVE  Mappers(f)' = {<<v, q>>}
    BY Zenon DEF WritableSole
  <2>1. CASE v = s /\ q = p
    BY <2>1, <1>7, <1>8, <1>14, ZenonT(60)
  <2>2. CASE ~(v = s /\ q = p)
    <3>1. pt'[v][q] = pt[v][q]
        BY <2>2, <1>8, ZenonT(60)
    <3>2. f \in Frames /\ Mappers(f) = {<<v, q>>}
        BY <3>1, WritablePresent, ZenonT(60)
    <3>3. f # old /\ f # nf
      <4>1. <<s, p>> \notin Mappers(f) /\ Mappers(f) # {}
        BY <3>2, <2>2, ZenonT(60)
      <4> QED
        BY <4>1, <1>6, Zenon
    <3> QED
        BY <3>2, <3>3, <1>14, ZenonT(60)
  <2> QED
    BY <2>1, <2>2, ZenonT(60)
<1>21. table' = table /\ Tabled' = Tabled
  <2>1. table' = table
    BY <1>4, <1>5, SMTT(30)
  <2> QED
    BY <2>1, SMTT(30) DEF Tabled
<1>22. tables' \in 0..(NFrames - Cardinality(used'))
  <2>1. used \subseteq Frames /\ tables \in 0..(NFrames - Cardinality(used))
    BY <1>1, <1>4, Zenon DEF Counted
  <2>2. IsFiniteSet(used) /\ tables \in 0..(NFrames - (Cardinality(used) + 1))
    BY <2>1, SomeLeft, Zenon
  <2>3. Cardinality(used') = Cardinality(used) + 1
    BY <2>2, <1>5, FS_AddElement, Zenon
  <2> QED
    BY <2>2, <2>3, <1>5, Zenon
<1>23. Counted'
  <2>1. data' \in [Frames -> Values]
    BY <1>4, <1>5, Zenon
  <2> QED
    BY <2>1, <1>1, <1>5, <1>9, <1>16, <1>18, <1>19, <1>20, <1>21, <1>22, ZenonT(60) DEF Counted
<1>24. /\ tlb' \in [Pages -> TlbEntries]
       /\ \A q \in Pages : tlb'[q] = IF q \in {p} THEN NoEntry ELSE tlb[q]
    BY InvlpgLeaves, ZenonT(60)
<1>25. TlbSafe'
  <2>1. ASSUME NEW q \in Pages
        PROVE  \/ tlb'[q] = NoEntry
               \/ /\ tlb'[q] = tlb[q]
                  /\ Cached(q) => pt'[active][q].frame = pt[active][q].frame
                  /\ \A f \in Frames : tlb[q].frame = f /\ tlb[q].w => Mappers(f)' = Mappers(f)
    <3>1. CASE q = p
        BY <3>1, <1>24, ZenonT(60)
    <3>2. CASE q # p
      <4>1. tlb'[q] = tlb[q] /\ pt'[active][q] = pt[active][q]
        BY <3>2, <1>2, <1>8, <1>24, ZenonT(60)
      <4>2. ASSUME NEW f \in Frames, tlb[q].frame = f, tlb[q].w
            PROVE  Mappers(f)' = Mappers(f)
        <5>1. Cached(q)
            BY <4>2, PteTypes, ZenonT(60) DEF Cached
        <5>2. Mappers(f) = {<<s, q>>}
            BY <5>1, <4>2, <1>2, ZenonT(60) DEF VmInv, TlbSafe
        <5>3. f # old /\ f # nf
          <6>1. <<s, p>> \notin Mappers(f) /\ Mappers(f) # {}
            BY <5>2, <3>2, Zenon
          <6> QED
            BY <6>1, <1>6, ZenonT(60)
        <5> QED
            BY <5>3, <1>14, ZenonT(60)
      <4> QED
        BY <4>1, <4>2, ZenonT(60)
    <3> QED
        BY <3>1, <3>2, ZenonT(60)
  <2> QED
    BY <2>1, <1>24, TlbKeeps, ZenonT(60)
<1>26. \A v \in Spaces : Present(v)' = Present(v)
  <2>1. ASSUME NEW v \in Spaces, NEW q \in Pages
        PROVE  pt'[v][q].frame # 0 <=> pt[v][q].frame # 0
    <3>1. CASE v = s /\ q = p
      <4>1. pt'[v][q].frame = nf /\ pt[v][q].frame = old
        BY <3>1, <1>3, <1>7, <1>8, ZenonT(60)
      <4> QED
        BY <4>1, PteTypes, ZenonT(60)
    <3>2. CASE ~(v = s /\ q = p)
      <4>1. pt'[v][q] = pt[v][q]
        BY <3>2, <1>8, ZenonT(60)
      <4> QED
        BY <4>1, ZenonT(60)
    <3> QED
        BY <3>1, <3>2, Zenon
  <2> QED
    BY <2>1, ZenonT(60) DEF Present
<1>27. AboveFree'
    BY <1>1, <1>26, Zenon DEF Placed, AboveFree
<1>28. Placed'
    BY <1>1, <1>24, <1>25, <1>26, <1>27, ZenonT(60) DEF Placed, TlbEntries
<1> QED
    BY <1>23, <1>28, PartsJoin, ZenonT(60)

\* The entry of p is its frame's only one: it becomes writable where it is.
LEMMA ReuseKeeps ==
    ASSUME VmInv, active # NoSpace, NEW p \in Pages, NEW m,
           pt[active][p].frame \in Frames, refcount[pt[active][p].frame] <= 1,
           m.used = used, m.tables = tables, m.refcount = refcount, m.data = data,
           m.table = table[active],
           m.pt = [pt[active] EXCEPT ![p] = Pte(pt[active][p].frame, TRUE, FALSE)],
           Commit(active, m), Invlpg({p}), UNCHANGED <<live, brk_cur, mmap_cur, active>>
    PROVE  VmInv'
<1>1. /\ pt \in [Spaces -> [Pages -> Ptes]] /\ HolesClear /\ active \in Spaces
      /\ table \in [Spaces -> SUBSET Arenas]
    BY ZenonT(60) DEF VmInv, FramesCounted, TypeOK, Ptes
<1> DEFINE e == Pte(pt[active][p].frame, TRUE, FALSE)
<1>2. e \in Ptes /\ e.frame = pt[active][p].frame /\ e.frame # 0
    BY PteTypes, ZenonT(60)
<1>3. pt' = [pt EXCEPT ![active] = [pt[active] EXCEPT ![p] = e]]
    BY Zenon DEF Commit
<1>4. UNCHANGED <<physical, live, table, brk_cur, mmap_cur, active>>
    BY <1>1, ZenonT(60) DEF Commit, physical
<1> HIDE DEF e
<1>5. \A u \in Spaces, q \in Pages :
         pt'[u][q] = IF u = active /\ q = p THEN e ELSE pt[u][q]
    BY <1>1, <1>3, ZenonT(60)
<1>6. pt' \in [Spaces -> [Pages -> Ptes]]
    BY <1>1, <1>2, <1>3, ZenonT(60)
<1>7. \A u \in Spaces, q \in Pages : pt'[u][q].frame = pt[u][q].frame
  <2> TAKE u \in Spaces, q \in Pages
  <2>1. CASE u = active /\ q = p
    BY <2>1, <1>2, <1>5, Zenon
  <2>2. CASE ~(u = active /\ q = p)
    BY <2>2, <1>5, Zenon
  <2> QED
    BY <2>1, <2>2, Zenon
<1>8. HolesClear'
    BY <1>1, <1>2, <1>5, SMTT(30) DEF HolesClear
<1>9. \A u \in Spaces, q \in Pages :
         pt'[u][q].w => pt[u][q].w \/ Mappers(pt[u][q].frame) = {<<u, q>>}
  <2>1. Mappers(pt[active][p].frame) = {<<active, p>>}
    BY <1>1, PteTypes, SoleMapper, ZenonT(60)
  <2> QED
    BY <2>1, <1>5, Zenon
<1>10. /\ tlb' \in [Pages -> TlbEntries]
       /\ \A q \in Pages : tlb'[q] = NoEntry \/ tlb'[q] = tlb[q]
    BY InvlpgLeaves, Zenon
<1> QED
    BY <1>4, <1>6, <1>7, <1>8, <1>9, <1>10, FlagsKeep, ZenonT(60)

\* What the fault handler makes of an entry that is not COW, or is alone, or finds no frame.
LEMMA CowElse ==
    ASSUME NEW s \in Spaces, NEW p \in Pages
    PROVE  /\ ~pt[s][p].cow => ~vmspace_cow_fault(Memory(s), p).ok
           /\ pt[s][p].cow /\ refcount[pt[s][p].frame] <= 1 =>
                 /\ vmspace_cow_fault(Memory(s), p).used = used
                 /\ vmspace_cow_fault(Memory(s), p).tables = tables
                 /\ vmspace_cow_fault(Memory(s), p).refcount = refcount
                 /\ vmspace_cow_fault(Memory(s), p).data = data
                 /\ vmspace_cow_fault(Memory(s), p).table = table[s]
                 /\ vmspace_cow_fault(Memory(s), p).pt =
                       [pt[s] EXCEPT ![p] = Pte(pt[s][p].frame, TRUE, FALSE)]
           /\ pt[s][p].cow /\ ~(refcount[pt[s][p].frame] <= 1) /\ Left(used, tables) = 0 =>
                 ~vmspace_cow_fault(Memory(s), p).ok
<1>1. /\ Memory(s).pt[p] = pt[s][p] /\ Memory(s).refcount = refcount
      /\ Memory(s).used = used /\ Memory(s).tables = tables
    BY Zenon DEF Memory
<1>2. ASSUME ~pt[s][p].cow PROVE ~vmspace_cow_fault(Memory(s), p).ok
  <2>1. vmspace_cow_fault(Memory(s), p) = [Memory(s) EXCEPT !.ok = FALSE]
    BY <1>1, <1>2, Zenon DEF vmspace_cow_fault
  <2> QED
    BY <2>1, Zenon DEF Memory
<1>3. ASSUME pt[s][p].cow, refcount[pt[s][p].frame] <= 1
      PROVE  /\ vmspace_cow_fault(Memory(s), p).used = used
             /\ vmspace_cow_fault(Memory(s), p).tables = tables
             /\ vmspace_cow_fault(Memory(s), p).refcount = refcount
             /\ vmspace_cow_fault(Memory(s), p).data = data
             /\ vmspace_cow_fault(Memory(s), p).table = table[s]
             /\ vmspace_cow_fault(Memory(s), p).pt =
                   [pt[s] EXCEPT ![p] = Pte(pt[s][p].frame, TRUE, FALSE)]
  <2>1. vmspace_cow_fault(Memory(s), p) =
           [Memory(s) EXCEPT !.pt[p] = Pte(pt[s][p].frame, TRUE, FALSE)]
    BY <1>1, <1>3, Zenon DEF vmspace_cow_fault
  <2> QED
    BY <2>1, ZenonT(60) DEF Memory
<1>4. ASSUME pt[s][p].cow, ~(refcount[pt[s][p].frame] <= 1), Left(used, tables) = 0
      PROVE  ~vmspace_cow_fault(Memory(s), p).ok
  <2>1. vmspace_cow_fault(Memory(s), p) = [Memory(s) EXCEPT !.ok = FALSE]
    BY <1>1, <1>4, ZenonT(60) DEF vmspace_cow_fault
  <2> QED
    BY <2>1, Zenon DEF Memory
<1> QED
    BY <1>2, <1>3, <1>4, ZenonT(60)

\* The page-fault handler: it copies, reuses or kills.
LEMMA FaultKeeps ==
    ASSUME VmInv, NEW p \in Pages, exception_handler(p)
    PROVE  VmInv'
<1> DEFINE m == vmspace_cow_fault(Memory(active), p)
<1>1. active # NoSpace /\ active \in Spaces
    BY SMTT(30) DEF exception_handler, VmInv, FramesCounted, TypeOK
<1>2. CASE ~m.ok /\ vmspace_destroy(active)
    BY <1>1, <1>2, DestroyKeeps, SMTT(30)
<1>3. CASE m.ok /\ Commit(active, m) /\ Invlpg({p}) /\ UNCHANGED <<live, brk_cur, mmap_cur, active>>
  <2>1. pt[active][p].cow
    BY <1>1, <1>3, CowElse, ZenonT(60)
  <2>2. pt[active][p].frame \in Frames
    BY <2>1, <1>1, PteTypes, SMTT(30) DEF VmInv, FramesCounted, TypeOK, HolesClear
  <2>3. refcount[pt[active][p].frame] \in Nat
    BY <2>2, Zenon DEF VmInv, FramesCounted, TypeOK
  <2>4. CASE refcount[pt[active][p].frame] <= 1
    <3>1. /\ m.used = used /\ m.tables = tables /\ m.refcount = refcount /\ m.data = data
          /\ m.table = table[active]
          /\ m.pt = [pt[active] EXCEPT ![p] = Pte(pt[active][p].frame, TRUE, FALSE)]
        BY <2>1, <2>4, <1>1, CowElse, ZenonT(60)
    <3> HIDE DEF m
    <3> QED
        BY <3>1, <2>2, <2>4, <1>1, <1>3, ReuseKeeps, ZenonT(60)
  <2>5. CASE ~(refcount[pt[active][p].frame] <= 1)
    <3>1. Left(used, tables) # 0 /\ refcount[pt[active][p].frame] > 1
      <4>1. Left(used, tables) = 0 => ~m.ok
        BY <2>1, <2>5, <1>1, CowElse, ZenonT(60)
      <4> HIDE DEF m
      <4> QED
        BY <4>1, <2>3, <2>5, <1>3
    <3>2. PICK nf \in Frames \ used : CopyOf(m, active, p, nf)
        BY <3>1, <2>1, <2>2, <1>1, CowCopy, ZenonT(60)
    <3> HIDE DEF m
    <3> QED
        BY <3>1, <3>2, <2>2, <1>1, <1>3, CopyKeeps, Zenon
  <2> QED
    BY <2>4, <2>5, Zenon
<1> QED
    BY <1>2, <1>3, SMTT(30) DEF exception_handler

-----------------------------------------------------------------------------
(* The theorems *)

\* The invariant holds at boot.
LEMMA VmInvInit ==
    ASSUME Init
    PROVE  VmInv
<1>1. /\ \A s \in Spaces, p \in Pages : pt[s][p] = NotPresent
      /\ \A s \in Spaces : table[s] = {}
    BY SMTT(30) DEF Init
<1>2. \A f \in Frames : Mappers(f) = {}
  <2> SUFFICES ASSUME NEW f \in Frames, NEW x \in Mappers(f) PROVE FALSE
    BY Zenon
  <2>1. PICK s \in Spaces, p \in Pages : x = <<s, p>> /\ pt[s][p].frame = f
    BY DEF Mappers
  <2> QED
    BY <2>1, <1>1, PteTypes, Zenon
<1>3. Cardinality({}) = 0 /\ Cardinality(used) = 0 /\ NFrames \in Nat
    BY FS_EmptySet, VmAssumption, SMTT(30) DEF Init
<1>4. TypeOK
  <2>1. pt \in [Spaces -> [Pages -> Ptes]]
    BY PteTypes, Zenon DEF Init
  <2>2. tlb \in [Pages -> TlbEntries]
    BY EmptyTlb, Zenon DEF Init
  <2> QED
    BY <2>1, <2>2, <1>3, VmAssumption, SMTT(30) DEF Init, TypeOK, Ptes, TlbEntries
<1>5. RefcountsExact
    BY <1>2, <1>3, SMTT(30) DEF RefcountsExact, Init
<1>6. FramesExact
  <2>1. Tabled = {}
    BY Zenon DEF Tabled, Init
  <2>2. \A s \in Spaces : Present(s) = {}
    BY <1>1, PteTypes, ZenonT(60) DEF Present
  <2> QED
    BY <2>1, <2>2, <1>1, <1>2, <1>3, SMTT(30) DEF FramesExact, Init
<1>7. AboveFree
    BY <1>1, PteTypes, ZenonT(60) DEF AboveFree, Present
<1>8. HolesClear /\ WritableSole
    BY <1>1, PteTypes, SMTT(30) DEF HolesClear, WritableSole
<1>9. TlbSafe
    BY EmptyTlb, SMTT(30) DEF TlbSafe, Cached, Init
<1> QED
    BY <1>4, <1>5, <1>6, <1>7, <1>8, <1>9, SMTT(30) DEF VmInv, FramesCounted, Init

\* Every step keeps it.
LEMMA VmInvNext ==
    ASSUME VmInv, MprotectUnshared, [Next]_vars
    PROVE  VmInv'
<1>1. CASE UNCHANGED vars
  <2>1. /\ UNCHANGED <<used, tables, refcount, live, table, pt, brk_cur, mmap_cur>>
        /\ data' = data /\ active' = active /\ tlb' = tlb
    BY <1>1, SMTT(30) DEF vars
  <2>2. data \in [Frames -> Values] /\ active \in live \cup {NoSpace} /\ tlb \in [Pages -> TlbEntries]
    BY SMTT(30) DEF VmInv, FramesCounted, TypeOK, TlbEntries
  <2>3. TlbSafe'
    BY <2>1, ZenonT(60) DEF VmInv, TlbSafe, Cached, Mappers
  <2> QED
    BY <2>1, <2>2, <2>3, CpuKeeps, SMTT(30)
<1>2. ASSUME NEW s \in Spaces,
             vmspace_create(s) \/ context_switch(s) \/ vmspace_fork(s) \/ vmspace_fork_fails(s)
      PROVE  VmInv'
    BY <1>2, CreateKeeps, SwitchKeeps, ForkKeeps, ForkFailsKeeps, ZenonT(60)
<1>3. CASE active # NoSpace /\ vmspace_destroy(active)
  <2>1. active \in Spaces
    BY <1>3, Zenon DEF VmInv, FramesCounted, TypeOK
  <2> QED
    BY <2>1, <1>3, DestroyKeeps, SMTT(30)
<1>4. ASSUME NEW n \in 0..HeapMax, uvm_brk(n) PROVE VmInv'
    BY <1>4, BrkKeeps, Zenon
<1>5. ASSUME NEW n \in 1..ArenaEnd, NEW w \in BOOLEAN, uvm_mmap(n, w) PROVE VmInv'
    BY <1>5, MmapKeeps, Zenon
<1>6. ASSUME NEW lo \in Pages, NEW hi \in Pages, uvm_munmap(lo..hi) PROVE VmInv'
  <2>1. lo..hi \in SUBSET Pages
    BY VmAssumption DEF Pages
  <2> QED
    BY <2>1, <1>6, MunmapKeeps, ZenonT(60)
<1>7. ASSUME NEW lo \in Pages, NEW hi \in Pages, NEW w \in BOOLEAN, uvm_mprotect(lo..hi, w)
      PROVE  VmInv'
  <2>1. lo..hi \in SUBSET Pages
    BY VmAssumption DEF Pages
  <2> QED
    BY <2>1, <1>7, MprotectKeeps, ZenonT(60)
<1>8. ASSUME NEW p \in Pages, Load(p) \/ exception_handler(p) PROVE VmInv'
    BY <1>8, LoadKeeps, FaultKeeps, Zenon
<1>9. ASSUME NEW p \in Pages, NEW v \in Values, Store(p, v) PROVE VmInv'
    BY <1>9, StoreKeeps, Zenon
<1> QED
    BY <1>1, <1>2, <1>3, <1>4, <1>5, <1>6, <1>7, <1>8, <1>9, ZenonT(60) DEF Next

\* The inductive invariant holds in every reachable state.
LEMMA VmInvAlways == MprotectUnshared => (Spec => []VmInv)
<1> SUFFICES ASSUME MprotectUnshared PROVE Spec => []VmInv
    BY Zenon
<1>1. Init => VmInv
    BY VmInvInit, Zenon
<1>2. VmInv /\ [Next]_vars => VmInv'
    BY VmInvNext, Zenon
<1> QED
    BY <1>1, <1>2, PTL DEF Spec

\* Through every sequence of forks, faults, calls and failed allocations, each frame's count
\* (page.c) is the number of entries that map it, and the allocator's used frames are exactly
\* the mapped ones and the tables of the live spaces (vmspace.c, page_decref, map_anon), for
\* any number of processes, frames and pages.
THEOREM FramesStayCounted == MprotectUnshared => (Spec => []FramesCounted)
<1> SUFFICES ASSUME MprotectUnshared PROVE Spec => []FramesCounted
    BY Zenon
<1>1. VmInv => FramesCounted
    BY Zenon DEF VmInv
<1> QED
    BY <1>1, VmInvAlways, PTL

\* The TLB never leads to a frame that the page table does not give the page, and never lets
\* a program write to a frame that another page maps, although vmspace_fork's failure path
\* does not flush it (vmspace.c, vmspace_fork_fails).
THEOREM TlbStaysSafe == MprotectUnshared => (Spec => []TlbSafe)
<1> SUFFICES ASSUME MprotectUnshared PROVE Spec => []TlbSafe
    BY Zenon
<1>1. VmInv => TlbSafe
    BY Zenon DEF VmInv
<1> QED
    BY <1>1, VmInvAlways, PTL
=============================================================================
