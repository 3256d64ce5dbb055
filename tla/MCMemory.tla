----------------------------- MODULE MCMemory -------------------------------
(***************************************************************************)
(* Memory, a part at a time: address spaces with copy on write, the heap of *)
(* the kernel, and the bitmap of physical pages below both.  The part above *)
(* takes pages from the one below and knows nothing else of it, so one      *)
(* behaviour is of one part: VmSpace has frames of its own, KHeap a number  *)
(* of frames that are left, and Pmm callers who take and release pages in   *)
(* any order.                                                               *)
(***************************************************************************)
EXTENDS VmSpace, TLC

CONSTANTS
    Parts, NULL, Threads,
    HDR, FTR, HEAP_MIN_BLOCK, PAGE_SIZE, HEAP_INITIAL_PAGES, FRAMES, Requests,
    PMM_PAGE_SIZE, RESERVED_LOW_MEMORY, MAX_MEMORY_SIZE, Maps, Modules, RunLengths

VARIABLES
    part,
    hdr, ftr, free_list_head, heap_end, heap_used, heap_frames, heap_live, moving,
    map, module, bitmap, max_page_num, used_pages, held

heap_vars == <<hdr, ftr, free_list_head, heap_end, heap_used, heap_frames, heap_live, moving>>
page_vars == <<map, module, bitmap, max_page_num, used_pages, held>>
memoryVars == <<part, vars, heap_vars, page_vars>>

Heap == INSTANCE KHeap WITH frames <- heap_frames, live <- heap_live
PageMap == INSTANCE Pmm WITH PAGE_SIZE <- PMM_PAGE_SIZE

MemoryInit ==
    /\ part \in Parts /\ Init /\ Heap!Init /\ PageMap!PmmInit
    /\ part # "pmm" => map = CHOOSE m \in Maps : TRUE
    /\ part # "pmm" => module = CHOOSE m \in Modules : TRUE

MemoryNext ==
    \/ part = "vm" /\ Next /\ UNCHANGED <<part, heap_vars, page_vars>>
    \/ part = "heap" /\ Heap!Next /\ UNCHANGED <<part, vars, page_vars>>
    \/ part = "pmm" /\ PageMap!PmmNext /\ UNCHANGED <<part, vars, heap_vars>>

MemorySpec == MemoryInit /\ [][MemoryNext]_memoryVars

-----------------------------------------------------------------------------
(* The properties of the parts besides those of VmSpace; each has its comment in its module. *)

\* The blocks of the heap tile it and the free list holds the free ones; a block is handed out
\* to one caller, as large as asked for, and freed once (kmalloc, kfree).
HeapExact == part = "heap" => Heap!TypeOK /\ Heap!HeapSound /\ Heap!LiveSound
\* Only pages that exist and are not reserved are handed out, each once, and a run of pages is
\* refused only if there is none of its length (pmm_init, pmm_alloc_pages).
PagesExact == part = "pmm" => PageMap!TypeOK /\ PageMap!PagesExact /\ PageMap!FirstFit

-----------------------------------------------------------------------------
(* The instance for TLC. *)
\* Spaces are interchangeable; frames are not, since allocation is first fit.
Symmetry == Permutations(Spaces)

AllParts == {"vm", "heap", "pmm"}
VmPart == {"vm"}

Region(addr, len) == [addr |-> addr, len |-> len]
\* Maps with holes: regions that end within a page, or leave a page between them.
MC_Maps == {{Region(0, 5), Region(6, 20)}, {Region(0, 3), Region(8, 6), Region(16, 9)}}
MC_Modules == {{}, {Region(9, 2)}, {Region(9, 2), Region(18, 1)}}
=============================================================================
