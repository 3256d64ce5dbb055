------------------------------ MODULE Ext2Map ------------------------------
(***************************************************************************)
(* The block map of one ext2 inode (kernel/fs/ext2.c): NDIR direct slots   *)
(* followed by a single-, a double- and a triple-indirect tree of pointer  *)
(* blocks with PER pointers each, the block bitmap they are allocated from *)
(* and i_blocks.  Offsets and lengths are whole blocks; sizes of a block   *)
(* and of a sector, and the three copies of the free count, are left out   *)
(* (Ext2 has the counts).  The disk does not fail here: the only error is  *)
(* a full bitmap.                                                          *)
(***************************************************************************)
EXTENDS Integers, FiniteSets, FiniteSetsExt

CONSTANTS NB,        \* blocks of the file system: 1 .. NB, 0 is "no block"
          NDIR,      \* EXT2_NDIR, the direct slots
          PER,       \* pointers in a pointer block: block_size / 4
          MAXWRITE,  \* the longest write, in blocks
          Offsets,   \* the file blocks a write may start at
          Lengths    \* the lengths a file is cut to

VARIABLES bitmap,    \* the blocks marked in use
          ptr,       \* what each block holds when it is read as pointers
          i_block,   \* the inode's map: slots 0 .. NDIR+2
          blocks512, \* i_blocks, in blocks
          size,      \* i_size, in blocks
          written    \* history: the file blocks written since they were cut off

map_vars == <<bitmap, ptr, i_block, blocks512, size, written>>

Blocks == 1 .. NB
Slots == 0 .. NDIR + 2
Zeroed == [i \in 0 .. PER - 1 |-> 0]

\* per^(level-1): the file blocks that one pointer at `level` spans.
span_of(level) == PER ^ (level - 1)

Base(level) == CASE level = 1 -> NDIR
                 [] level = 2 -> NDIR + PER
                 [] level = 3 -> NDIR + PER + PER * PER

Reach == Base(3) + PER ^ 3

RECURSIVE map_indirect(_, _, _, _)

map_indirect(p, root, level, idx) ==
  IF root = 0 THEN 0
  ELSE IF level = 1 THEN p[root][idx]
  ELSE map_indirect(p, p[root][idx \div span_of(level)], level - 1, idx % span_of(level))

\* The tree a file block beyond the direct slots is found in.
Level(fblk) == CHOOSE l \in 1 .. 3 : Base(l) <= fblk /\ fblk < Base(l) + PER ^ l

map_block(p, ib, fblk) ==
  IF fblk < NDIR THEN ib[fblk]
  ELSE IF fblk >= Reach THEN 0
  ELSE LET l == Level(fblk) IN map_indirect(p, ib[NDIR + l - 1], l, fblk - Base(l))

-----------------------------------------------------------------------------
\* The work of one call: the disk and the in-memory inode it changes.
Disk == [bm |-> bitmap, ptr |-> ptr, ib |-> i_block, n |-> blocks512, got |-> 0]

\* bitmap_alloc takes the first clear bit; alloc_block zeroes the block.
alloc_block(w) ==
  LET clear == Blocks \ w.bm
      b == Min(clear)
  IN IF clear = {} THEN [w EXCEPT !.got = 0]
     ELSE [w EXCEPT !.bm = @ \cup {b}, !.ptr[b] = Zeroed, !.got = b]

free_block(w, b) == [w EXCEPT !.bm = @ \ {b}]

RECURSIVE alloc_indirect(_, _, _, _)

\* Allocates the data block `idx` of the tree at `root`: the result has the
\* block in got (0: the disk is full) and the possibly new root in root.
alloc_indirect(w, root, level, idx) ==
  LET made == IF root # 0 THEN [w EXCEPT !.got = root]
              ELSE LET a == alloc_block(w) IN [a EXCEPT !.n = @ + (IF a.got = 0 THEN 0 ELSE 1)]
      top  == made.got
  IN IF top = 0 THEN [w |-> made, root |-> 0]
     ELSE IF level = 1
     THEN LET data == alloc_block(made)
          IN [root |-> top,
              w |-> IF data.got = 0 THEN data
                    ELSE [data EXCEPT !.n = @ + 1, !.ptr[top][idx] = data.got]]
     ELSE LET slot  == idx \div span_of(level)
              below == alloc_indirect(made, made.ptr[top][slot], level - 1, idx % span_of(level))
          IN [root |-> top, w |-> [below.w EXCEPT !.ptr[top][slot] = below.root]]

alloc_file_block(w, fblk) ==
  IF fblk < NDIR
  THEN LET a == alloc_block(w)
       IN IF a.got = 0 THEN a ELSE [a EXCEPT !.ib[fblk] = a.got, !.n = @ + 1]
  ELSE IF fblk >= Reach THEN [w EXCEPT !.got = 0]
  ELSE LET l == Level(fblk)
           slot == NDIR + l - 1
           r == alloc_indirect(w, w.ib[slot], l, fblk - Base(l))
       IN [r.w EXCEPT !.ib[slot] = r.root]

RECURSIVE FreeLeaves(_, _, _), FreeChildren(_, _, _, _, _), free_indirect_from(_, _, _, _)

FreeLeaves(w, root, i) ==
  IF i = PER THEN w
  ELSE LET d == w.ptr[root][i]
       IN FreeLeaves(IF d = 0 THEN w ELSE [free_block(w, d) EXCEPT !.n = @ - 1, !.ptr[root][i] = 0],
                     root, i + 1)

\* A child past `start` goes whole and its slot is cleared; the one that
\* straddles it is trimmed and kept.
FreeChildren(w, root, level, start, s) ==
  IF s = PER THEN w
  ELSE LET child == w.ptr[root][s]
           base  == s * span_of(level)
       IN FreeChildren(
            IF child = 0 THEN w
            ELSE IF base >= start
                 THEN [free_indirect_from(w, child, level - 1, 0).w EXCEPT !.ptr[root][s] = 0]
            ELSE IF base + span_of(level) > start
                 THEN free_indirect_from(w, child, level - 1, start - base).w
            ELSE w,
            root, level, start, s + 1)

free_indirect_from(w, root, level, start) ==
  IF root = 0 THEN [w |-> w, root |-> 0]
  ELSE LET below == IF level = 1 THEN FreeLeaves(w, root, IF start > PER THEN PER ELSE start)
                    ELSE FreeChildren(w, root, level, start, 0)
       IN IF start = 0
          \* The cleared slots of a root that is released never reach the disk.
          THEN [w |-> [free_block(below, root) EXCEPT !.n = @ - 1, !.ptr[root] = w.ptr[root]],
                root |-> 0]
          ELSE [w |-> below, root |-> root]

RECURSIVE FreeDirect(_, _)

FreeDirect(w, b) ==
  IF b >= NDIR THEN w
  ELSE FreeDirect(IF w.ib[b] = 0 THEN w
                  ELSE [free_block(w, w.ib[b]) EXCEPT !.n = @ - 1, !.ib[b] = 0], b + 1)

FreeTree(w, level, from) ==
  LET slot  == NDIR + level - 1
      start == IF from <= Base(level) THEN 0 ELSE from - Base(level)
      r     == free_indirect_from(w, w.ib[slot], level, start)
  IN IF level < 3 /\ from >= Base(level) + PER ^ level THEN w
     ELSE [r.w EXCEPT !.ib[slot] = r.root]

free_from(w, from) == FreeTree(FreeTree(FreeTree(FreeDirect(w, from), 1, from), 2, from), 3, from)

-----------------------------------------------------------------------------
MapInit == /\ bitmap = {} /\ ptr = [b \in Blocks |-> Zeroed]
           /\ i_block = [s \in Slots |-> 0]
           /\ blocks512 = 0 /\ size = 0 /\ written = {}

Store(w) == /\ bitmap' = w.bm /\ ptr' = w.ptr /\ i_block' = w.ib /\ blocks512' = w.n

RECURSIVE WriteLoop(_, _, _)

\* The loop of ext2_write from block k to block end: the work done and the
\* block it stopped at.
WriteLoop(w, k, end) ==
  IF k = end THEN [w |-> w, at |-> k]
  ELSE IF map_block(w.ptr, w.ib, k) # 0 THEN WriteLoop(w, k + 1, end)
  ELSE LET a == alloc_file_block(w, k)
       IN IF a.got = 0 THEN [w |-> a, at |-> k] ELSE WriteLoop(a, k + 1, end)

\* A write that runs out of blocks keeps what it allocated and leaves the size.
ext2_write ==
  \E k \in Offsets, n \in 1 .. MAXWRITE :
    /\ k + n <= Reach
    /\ \E r \in {WriteLoop(Disk, k, k + n)} :
       /\ Store(r.w)
       /\ written' = written \cup k .. r.at - 1
       /\ size' = IF r.at = k + n /\ k + n > size THEN k + n ELSE size

ext2_truncate ==
  \E len \in Lengths :
    \E w \in {IF len < size THEN free_from(Disk, len) ELSE Disk} :
       /\ Store(w) /\ size' = len
       /\ written' = IF len < size THEN {k \in written : k < len} ELSE written

MapNext == ext2_write \/ ext2_truncate
MapSpec == MapInit /\ [][MapNext]_map_vars

-----------------------------------------------------------------------------
TypeOK == /\ bitmap \subseteq Blocks
          /\ ptr \in [Blocks -> [0 .. PER - 1 -> 0 .. NB]]
          /\ i_block \in [Slots -> 0 .. NB]
          /\ blocks512 \in 0 .. NB /\ size \in 0 .. Reach /\ written \subseteq 0 .. Reach - 1

RECURSIVE Pointers(_, _)

\* The pointer blocks of the tree at root.
Pointers(root, level) ==
  IF root = 0 THEN {}
  ELSE {root} \cup IF level = 1 THEN {}
                   ELSE UNION {Pointers(ptr[root][s], level - 1) : s \in 0 .. PER - 1}

PointerBlocks == UNION {Pointers(i_block[NDIR + l - 1], l) : l \in 1 .. 3}
DataBlock(k) == map_block(ptr, i_block, k)
DataBlocks == {DataBlock(k) : k \in written}

\* The block map finds a block for exactly the file blocks that were written
\* and not cut off again, a different one for each, and none that is used as a
\* pointer block: reads never see another place's data, and a hole stays a hole
\* (map_block, alloc_indirect and free_from agree on the geometry).
MapExact ==
  /\ {k \in 0 .. Reach - 1 : DataBlock(k) # 0} = written
  /\ Cardinality(DataBlocks) = Cardinality(written)
  /\ DataBlocks \cap PointerBlocks = {}

\* The bitmap marks exactly the blocks of the file and i_blocks counts them:
\* neither a truncate nor a write that runs out of space leaks a block or frees
\* one that is still mapped.
BlocksExact ==
  /\ bitmap = DataBlocks \cup PointerBlocks
  /\ blocks512 = Cardinality(bitmap)

=============================================================================
