------------------------------- MODULE KHeap --------------------------------
(***************************************************************************)
(* The kernel heap of kernel/mm/kheap.c: blocks with boundary tags that     *)
(* tile the heap, a doubly linked free list through their headers, first    *)
(* fit, splitting and coalescing.                                           *)
(*                                                                         *)
(* An address is counted in units of HEAP_ALIGNMENT.  A header or a footer  *)
(* stands at the address where it begins; what is written elsewhere is not  *)
(* modelled, except that the owner of a block overwrites what its data area *)
(* held.  kmalloc and kfree disable interrupts; krealloc is preemptible     *)
(* between the two.                                                         *)
(***************************************************************************)
EXTENDS Integers, Sequences, FiniteSets, FiniteSetsExt

CONSTANTS
    Threads,
    HDR, FTR, HEAP_MIN_BLOCK, PAGE_SIZE,        \* in units of HEAP_ALIGNMENT
    HEAP_INITIAL_PAGES, FRAMES,                 \* FRAMES: those the PMM can still give
    Requests,                                   \* the sizes asked for
    NULL

Mem == 0..((HEAP_INITIAL_PAGES + FRAMES) * PAGE_SIZE - 1)

VARIABLES
    hdr, ftr,               \* memory: the headers and footers at their addresses
    free_list_head,
    heap_end, heap_used,
    frames,
    live,                   \* history: the size asked for of each block handed out
    moving                  \* of a thread in krealloc: its old block and its new one

heapVars == <<hdr, ftr, free_list_head, heap_end, heap_used, frames, live, moving>>

Header(magic, size) == [magic |-> magic, size |-> size, next |-> NULL, prev |-> NULL]
NoHeader == Header("none", 0)
NoFooter == [size |-> 0, header |-> NULL]

\* The state of the heap, as the operators below pass it on.
Heap == [hdr |-> hdr, ftr |-> ftr, head |-> free_list_head, end |-> heap_end, used |-> heap_used]

get_footer(h, b) == b + h.hdr[b].size - FTR
WithFooter(h, b) == [h EXCEPT !.ftr[get_footer(h, b)] = [size |-> h.hdr[b].size, header |-> b]]

-----------------------------------------------------------------------------
(* The free list *)

Unlinked(h, b) ==
    LET p == h.hdr[b].prev
        n == h.hdr[b].next
        h1 == IF p = NULL THEN [h EXCEPT !.head = n] ELSE [h EXCEPT !.hdr[p].next = n]
    IN  IF n = NULL THEN h1 ELSE [h1 EXCEPT !.hdr[n].prev = p]

\* Mutant: the block is unlinked in one direction only.
UnlinkForward(h, b) ==
    LET p == h.hdr[b].prev
        n == h.hdr[b].next
        h1 == IF p = NULL THEN [h EXCEPT !.head = n] ELSE [h EXCEPT !.hdr[p].next = n]
    IN  [h1 EXCEPT !.hdr[b].next = NULL, !.hdr[b].prev = NULL]

remove_from_free_list(h, b) == [Unlinked(h, b) EXCEPT !.hdr[b].next = NULL, !.hdr[b].prev = NULL]

add_to_free_list(h, b) ==
    LET h1 == [h EXCEPT !.hdr[b].next = h.head, !.hdr[b].prev = NULL]
    IN  [(IF h.head = NULL THEN h1 ELSE [h1 EXCEPT !.hdr[h.head].prev = b]) EXCEPT !.head = b]

\* The blocks of the free list from b on; more than there are addresses means a cycle.
RECURSIVE Listed(_, _, _)
Listed(h, b, fuel) ==
    IF b = NULL \/ fuel = 0 THEN <<>> ELSE <<b>> \o Listed(h, h.hdr[b].next, fuel - 1)
FreeList(h) == Listed(h, h.head, Cardinality(Mem))

\* find_free_block: first fit; NULL if there is none.
find_free_block(h, size) ==
    LET l == FreeList(h)
        fits == {i \in 1..Len(l) : h.hdr[l[i]].magic = "FREE" /\ h.hdr[l[i]].size >= size}
    IN  IF fits = {} THEN NULL ELSE l[CHOOSE i \in fits : \A j \in fits : i <= j]

-----------------------------------------------------------------------------
(* Splitting and coalescing *)

\* A free block of a size at b, with its footer, linked.
NewFree(h, b, size) ==
    add_to_free_list(WithFooter([h EXCEPT !.hdr[b] = Header("FREE", size)], b), b)

split_block(h, b, size) ==
    LET remaining == h.hdr[b].size - size
    IN  IF remaining < HDR + FTR + HEAP_MIN_BLOCK THEN h
        ELSE WithFooter([NewFree(h, b + size, remaining) EXCEPT !.hdr[b].size = size], b)

\* b takes in the block n right after it.
Absorb(h, b, n) == WithFooter([h EXCEPT !.hdr[b].size = @ + h.hdr[n].size], b)

CoalesceNext(h, b) ==
    LET n == b + h.hdr[b].size
    IN  IF n < h.end /\ h.hdr[n].magic = "FREE" THEN Absorb(remove_from_free_list(h, n), b, n) ELSE h

CoalescePrev(h, b) ==
    LET p == h.ftr[b - FTR].header
    IN  IF b > 0 /\ p # NULL /\ h.hdr[p].magic = "FREE" THEN Absorb(remove_from_free_list(h, b), p, b)
        ELSE h

coalesce_block(h, b) ==
    LET h1 == CoalesceNext(h, b) IN IF b = 0 THEN h1 ELSE CoalescePrev(h1, b)

-----------------------------------------------------------------------------
(* kmalloc and kfree *)

\* The block size for a request.
Total(size) == LET t == HDR + size + FTR IN IF t < HEAP_MIN_BLOCK THEN HEAP_MIN_BLOCK ELSE t

Pages(total) == (total + PAGE_SIZE - 1) \div PAGE_SIZE

\* kheap_expand, all or nothing, and the free block made of the region.
Expanded(h, pages) ==
    NewFree([h EXCEPT !.end = @ + pages * PAGE_SIZE], h.end, pages * PAGE_SIZE)

\* The block leaves the list, is split, and marked.
Take(h, b, total) ==
    LET h1 == split_block(remove_from_free_list(h, b), b, total)
    IN  WithFooter([h1 EXCEPT !.hdr[b].magic = "USED", !.used = @ + h1.hdr[b].size], b)

\* What the owner writes covers the tags that lay in its data.
Scribbled(h, b) ==
    LET data == (b + HDR)..(get_footer(h, b) - 1)
    IN  [h EXCEPT !.hdr = [a \in Mem |-> IF a \in data THEN NoHeader ELSE h.hdr[a]],
                  !.ftr = [a \in Mem |-> IF a \in data THEN NoFooter ELSE h.ftr[a]]]

Set(h) ==
    /\ hdr' = h.hdr /\ ftr' = h.ftr /\ free_list_head' = h.head
    /\ heap_end' = h.end /\ heap_used' = h.used

\* kmalloc: the block handed out, NULL if the heap cannot grow, and the heap then.
Allocation(size) ==
    LET total == Total(size)
        fit == find_free_block(Heap, total)
        pages == Pages(total)
    IN  IF fit # NULL
        THEN [b |-> fit, heap |-> Scribbled(Take(Heap, fit, total), fit), left |-> frames]
        ELSE IF pages <= frames
        THEN [b |-> heap_end, left |-> frames - pages,
              heap |-> Scribbled(Take(Expanded(Heap, pages), heap_end, total), heap_end)]
        ELSE [b |-> NULL, heap |-> Heap, left |-> frames]

\* kfree_locked: only a block whose header says that it is in use, with its footer in place.
Valid(b) ==
    /\ hdr[b].magic = "USED"
    /\ ftr[get_footer(Heap, b)].header = b

Freed(b) ==
    LET h1 == [Heap EXCEPT !.used = @ - hdr[b].size, !.hdr[b].magic = "FREE"]
    IN  coalesce_block(add_to_free_list(h1, b), b)

-----------------------------------------------------------------------------
(* The calls.  A block is known by the address of its header. *)

Live == DOMAIN live
Busy == {moving[t].old : t \in Threads} \cup {moving[t].new : t \in Threads}
Still == [old |-> NULL, new |-> NULL]
Without(b) == [x \in Live \ {b} |-> live[x]]
With(b, size) == [x \in Live \cup {b} |-> IF x = b THEN size ELSE live[x]]

\* kheap_init: one free block.
Init ==
    LET size == HEAP_INITIAL_PAGES * PAGE_SIZE
    IN  /\ hdr = [a \in Mem |-> IF a = 0 THEN Header("FREE", size) ELSE NoHeader]
        /\ ftr = [a \in Mem |-> IF a = size - FTR THEN [size |-> size, header |-> 0] ELSE NoFooter]
        /\ free_list_head = 0 /\ heap_end = size /\ heap_used = 0
        /\ frames = FRAMES /\ live = <<>> /\ moving = [t \in Threads |-> Still]

\* kmalloc; also kcalloc and kmalloc_aligned, which differ in how they use the block.
kmalloc(size) ==
    \E r \in {Allocation(size)} :
        /\ r.b # NULL /\ Set(r.heap) /\ frames' = r.left
        /\ live' = With(r.b, size) /\ UNCHANGED moving

kfree(b) ==
    /\ b \in Live \ Busy /\ Valid(b)
    /\ \E h \in {Freed(b)} : Set(h)
    /\ live' = Without(b) /\ UNCHANGED <<frames, moving>>

\* krealloc of a block that is large enough returns it.
KreallocInPlace(b, size) ==
    /\ b \in Live \ Busy /\ size <= hdr[b].size - HDR - FTR
    /\ live' = With(b, size)
    /\ UNCHANGED <<hdr, ftr, free_list_head, heap_end, heap_used, frames, moving>>

\* Otherwise it allocates, copies, and frees the old block; if it cannot, the old one stays.
krealloc(t, b, size) ==
    /\ moving[t] = Still /\ b \in Live \ Busy /\ size > hdr[b].size - HDR - FTR
    /\ \E r \in {Allocation(size)} :
          /\ r.b # NULL /\ Set(r.heap) /\ frames' = r.left
          /\ live' = With(r.b, size) /\ moving' = [moving EXCEPT ![t] = [old |-> b, new |-> r.b]]

KreallocFree(t) ==
    /\ moving[t] # Still /\ Valid(moving[t].old)
    /\ \E h \in {Freed(moving[t].old)} : Set(h)
    /\ live' = Without(moving[t].old) /\ moving' = [moving EXCEPT ![t] = Still] /\ UNCHANGED frames

Next ==
    \/ \E size \in Requests : \/ kmalloc(size)
                             \/ \E b \in Live : \/ KreallocInPlace(b, size)
                                               \/ \E t \in Threads : krealloc(t, b, size)
    \/ \E b \in Live : kfree(b)
    \/ \E t \in Threads : KreallocFree(t)

Spec == Init /\ [][Next]_heapVars

-----------------------------------------------------------------------------

\* Headers, the list and the counts keep their ranges (block_header_t).
TypeOK ==
    /\ \A a \in Mem : hdr[a].magic \in {"none", "FREE", "USED"} /\ hdr[a].size \in 0..heap_end
    /\ free_list_head \in Mem \cup {NULL} /\ heap_end - 1 \in Mem /\ frames \in 0..FRAMES
    /\ Live \subseteq Mem

\* The addresses the walk of kheap_check visits from a on.
RECURSIVE Walk(_)
Walk(a) == IF a >= heap_end \/ hdr[a].size = 0 THEN {a} ELSE {a} \cup Walk(a + hdr[a].size)
Blocks == Walk(0) \ {heap_end}

\* What kheap_check looks for, and more: the blocks tile the heap, each between its tags, the
\* list holds the free ones, each once and linked both ways, the use is counted, and no two
\* free blocks are neighbours (split_block, coalesce_block, kheap_expand).
HeapSound ==
    LET free == {b \in Blocks : hdr[b].magic = "FREE"}
        list == FreeList(Heap)
    IN  /\ heap_end \in Walk(0)
        /\ \A b \in Blocks : /\ hdr[b].magic \in {"FREE", "USED"} /\ hdr[b].size >= HEAP_MIN_BLOCK
                            /\ ftr[get_footer(Heap, b)] = [size |-> hdr[b].size, header |-> b]
        /\ {list[i] : i \in 1..Len(list)} = free /\ Len(list) = Cardinality(free)
        /\ \A i \in 1..Len(list) : hdr[list[i]].prev = IF i = 1 THEN NULL ELSE list[i - 1]
        /\ heap_used = MapThenSumSet(LAMBDA b : hdr[b].size, Blocks \ free)
        /\ \A b \in free : b + hdr[b].size \notin free

\* The blocks in use are those handed out and not freed, each at least as large as asked for,
\* and kfree accepts them; no other memory looks like one, so a second kfree is refused
\* (kmalloc_locked, kfree_locked, krealloc between its two calls).
LiveSound ==
    /\ {b \in Blocks : hdr[b].magic = "USED"} = Live
    /\ \A b \in Live : Valid(b) /\ live[b] <= hdr[b].size - HDR - FTR
    /\ \A a \in Mem : hdr[a].magic = "USED" => a \in Live
=============================================================================
