-------------------------------- MODULE Pmm --------------------------------
(***************************************************************************)
(* The physical page allocator (kernel/mm/pmm.c): the bitmap built from    *)
(* the boot loader's memory map, the reservation of boot modules, and the  *)
(* allocation and release of pages and of contiguous runs.  Each operation *)
(* holds interrupts off, so it is one action.  Addresses are bytes, with   *)
(* pages of PAGE_SIZE.                                                     *)
(***************************************************************************)
EXTENDS Integers, FiniteSets, FiniteSetsExt

CONSTANTS PAGE_SIZE,
          RESERVED_LOW_MEMORY,  \* bytes the kernel and the firmware own
          MAX_MEMORY_SIZE,
          Maps,                 \* memory maps: sets of [addr, len] that are available
          Modules,              \* boot modules: sets of [addr, len]
          RunLengths            \* the lengths pmm_alloc_pages is called with

VARIABLES map, module,          \* what the boot loader reported
          bitmap,               \* the pages marked used (of 0 .. max_page_num-1)
          max_page_num, used_pages,
          held                  \* the runs handed out and not yet released

pmm_vars == <<map, module, bitmap, max_page_num, used_pages, held>>

Pages == 0 .. max_page_num - 1
Run(start, n) == start .. start + n - 1
bitmap_test(page) == page >= max_page_num \/ page \in bitmap

Lesser(a, b) == IF a < b THEN a ELSE b

\* The pages pmm_init frees: from the page an available region starts in to
\* the last whole one.
Freed(m, max) == UNION {(e.addr \div PAGE_SIZE) .. Lesser((e.addr + e.len) \div PAGE_SIZE, max) - 1 : e \in m}

pmm_init(m) ==
  LET top == Lesser(Max({e.addr + e.len : e \in m}), MAX_MEMORY_SIZE)
      max == top \div PAGE_SIZE
      low == 0 .. (RESERVED_LOW_MEMORY \div PAGE_SIZE) - 1
  IN /\ max_page_num = max
     /\ bitmap = ((0 .. max - 1) \ Freed(m, max)) \cup (low \cap 0 .. max - 1)
     /\ used_pages = Cardinality(Freed(m, max) \cap low)

PmmInit == /\ map \in Maps /\ module \in Modules
           /\ pmm_init(map)
           /\ held = {}

\* Rounds outward to whole pages, clamped to the pages there are.
Reserved(addr, len) ==
  IF len = 0 THEN {}
  ELSE (addr \div PAGE_SIZE) .. Lesser((addr + len + PAGE_SIZE - 1) \div PAGE_SIZE, max_page_num) - 1

\* Called for a boot module right after pmm_init, before any allocation.
pmm_reserve_region ==
  /\ held = {}
  /\ \E e \in module :
       LET new == Reserved(e.addr, e.len) \ bitmap
       IN /\ new # {}
          /\ bitmap' = bitmap \cup new
          /\ used_pages' = used_pages + Cardinality(new)
  /\ UNCHANGED <<map, module, max_page_num, held>>

ModulesReserved == \A e \in module : Reserved(e.addr, e.len) \subseteq bitmap

RECURSIVE FreeLength(_, _, _), Scan(_, _)

\* k: the free pages from start on, n at most.
FreeLength(start, k, n) ==
  IF k < n /\ ~bitmap_test(start + k) THEN FreeLength(start, k + 1, n) ELSE k

\* Mutant: the scan steps over the page after the one that broke the run.
ScanTooFar(start, n) ==
  IF start + n > max_page_num THEN -1
  ELSE IF FreeLength(start, 0, n) = n THEN start
  ELSE IF start + FreeLength(start, 0, n) + 2 + n > max_page_num THEN -1
  ELSE start + FreeLength(start, 0, n) + 2

\* First fit with a window that skips past the used page that broke the run;
\* -1 when there is no run of n pages.
Scan(start, n) ==
  IF start + n > max_page_num THEN -1
  ELSE LET k == FreeLength(start, 0, n)
       IN IF k = n THEN start ELSE Scan(start + k + 1, n)

pmm_alloc_page ==
  /\ ModulesReserved
  /\ LET free == {p \in Pages : ~bitmap_test(p)}
     IN /\ free # {}
        /\ bitmap' = bitmap \cup {Min(free)} /\ used_pages' = used_pages + 1
        /\ held' = held \cup {<<Min(free), 1>>}
  /\ UNCHANGED <<map, module, max_page_num>>

pmm_alloc_pages ==
  /\ ModulesReserved
  /\ \E n \in RunLengths : \E start \in {Scan(0, n)} :
       /\ n > 1 /\ start # -1
       /\ bitmap' = bitmap \cup Run(start, n) /\ used_pages' = used_pages + n
       /\ held' = held \cup {<<start, n>>}
  /\ UNCHANGED <<map, module, max_page_num>>

\* Pages that are already free are passed over.
pmm_free_pages ==
  /\ \E r \in held :
       LET gone == Run(r[1], r[2]) \cap bitmap
       IN /\ bitmap' = bitmap \ gone
          /\ used_pages' = used_pages - Cardinality(gone)
          /\ held' = held \ {r}
  /\ UNCHANGED <<map, module, max_page_num>>

PmmNext == pmm_reserve_region \/ pmm_alloc_page \/ pmm_alloc_pages \/ pmm_free_pages
PmmSpec == PmmInit /\ [][PmmNext]_pmm_vars

-----------------------------------------------------------------------------
TypeOK == /\ max_page_num \in Nat /\ used_pages \in 0 .. max_page_num
          /\ bitmap \subseteq Pages
          /\ held \subseteq Pages \X (RunLengths \cup {1})

Available(page) ==
  \E e \in map : Run(page * PAGE_SIZE, PAGE_SIZE) \subseteq Run(e.addr, e.len)

InModule(page) ==
  \E e \in module : Run(page * PAGE_SIZE, PAGE_SIZE) \cap Run(e.addr, e.len) # {}

\* What is handed out is RAM that the memory map offers, above the low memory,
\* outside every boot module and in no other run; and used_pages counts those
\* runs and the reservations (pmm_init, pmm_reserve_region and the allocators).
PagesExact ==
  /\ \A r \in held : \A p \in Run(r[1], r[2]) :
       /\ Available(p) /\ ~InModule(p)
       /\ p * PAGE_SIZE >= RESERVED_LOW_MEMORY
       /\ p \in bitmap
  /\ \A r, s \in held : r # s => Run(r[1], r[2]) \cap Run(s[1], s[2]) = {}
  /\ used_pages = Cardinality(bitmap \cap Freed(map, max_page_num))

\* pmm_alloc_pages finds the lowest run of n free pages, and one whenever there
\* is one: its skipping window misses nothing.
FirstFit ==
  \A n \in RunLengths :
    LET fits == {s \in Pages : s + n <= max_page_num /\ Run(s, n) \cap bitmap = {}}
    IN Scan(0, n) = IF fits = {} THEN -1 ELSE Min(fits)

=============================================================================
