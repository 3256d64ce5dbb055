------------------------------- MODULE Ext2 --------------------------------
(***************************************************************************)
(* Inodes, directories and space of the ext2 driver (kernel/fs/ext2.c) as  *)
(* the VFS calls it.  The disk is the record `disk`; every call computes   *)
(* the disk writes it makes one by one, so that the power may go after any *)
(* of them: w.d is the disk so far and w.seen every disk on the way.  An   *)
(* inode is copied into memory by each lookup and each open (make_vnode);  *)
(* only the root directory of the mount keeps one copy for good.  Files    *)
(* have direct blocks only (Ext2Map has the trees), a directory block      *)
(* holds ENTRIES names, and the disk itself does not fail.                 *)
(***************************************************************************)
EXTENDS Integers, FiniteSets, FiniteSetsExt

CONSTANTS NI,        \* inodes 1 .. NI; 1 is reserved, 2 is the root directory
          NB,        \* blocks 1 .. NB; block 1 is the root directory's
          NDIR,      \* direct slots of an inode
          ENTRIES,   \* names a directory block has room for
          Names,     \* file names
          Entered,   \* the names paths go through as a directory
          WriteAt,   \* the file blocks that are written
          Fds,       \* open descriptors
          CrashIn,   \* the calls during which the power may go
          Loose,     \* uses the driver does not guard against: "shared", "self", "inside"
          NULL

VARIABLES disk,      \* what is on the disk
          root,      \* the in-memory copy of the root directory's inode
          open,      \* descriptor -> the inode copy it holds, or NULL
          crashed    \* history: the power has gone once

ext2_vars == <<disk, root, open, crashed>>

ROOT == 2
Inos == 1 .. NI
Blocks == 1 .. NB
NoMap == [k \in 0 .. NDIR - 1 |-> 0]
NoEntries == [n \in Names \cup {".."} |-> 0]
NoInode == [mode |-> "none", links |-> 0, size |-> 0, map |-> NoMap]
Range0(f) == {f[x] : x \in DOMAIN f} \ {0}

Begin == [d |-> disk, seen |-> {disk}]

\* One write to the disk.
bwrite(w, d) == [d |-> d, seen |-> w.seen \cup {d}]

-----------------------------------------------------------------------------
\* Space: the bitmaps and the two free counts ext2 keeps in step.

\* The group descriptor's count, then the superblock's.
adj_free_counts(w, what, delta) ==
  LET gd == bwrite(w, [w.d EXCEPT !.gd[what] = IF delta < 0 /\ @ = 0 THEN @ ELSE @ + delta])
  IN bwrite(gd, [gd.d EXCEPT !.sb[what] = IF delta < 0 /\ @ = 0 THEN @ ELSE @ + delta])

\* bitmap_alloc takes the first clear bit; the new block is zeroed.
alloc_block(w) ==
  LET clear == Blocks \ w.d.blocks
      b     == Min(clear)
      bm    == bwrite(w, [w.d EXCEPT !.blocks = @ \cup {b}])
      z     == bwrite(bm, [bm.d EXCEPT !.dir[b] = NoEntries])
  IN IF clear = {} THEN [w |-> w, b |-> 0]
     ELSE [w |-> adj_free_counts(z, "blocks", -1), b |-> b]

alloc_inode(w) ==
  LET clear == Inos \ w.d.inodes
      i     == Min(clear)
      bm    == bwrite(w, [w.d EXCEPT !.inodes = @ \cup {i}])
  IN IF clear = {} THEN [w |-> w, ino |-> 0]
     ELSE [w |-> adj_free_counts(bm, "inodes", -1), ino |-> i]

free_block(w, b) ==
  adj_free_counts(bwrite(w, [w.d EXCEPT !.blocks = @ \ {b}]), "blocks", 1)

\* Mutant: the count is not given back.
FreeUncounted(w, i) == bwrite(w, [w.d EXCEPT !.inodes = @ \ {i}])

free_inode_num(w, i) ==
  adj_free_counts(bwrite(w, [w.d EXCEPT !.inodes = @ \ {i}]), "inodes", 1)

write_inode(w, ino, vi) == bwrite(w, [w.d EXCEPT !.inode[ino] = vi])

RECURSIVE FreeSlots(_, _, _)

FreeSlots(w, map, k) ==
  IF k >= NDIR THEN w
  ELSE FreeSlots(IF map[k] = 0 THEN w ELSE free_block(w, map[k]), map, k + 1)

\* free_from: the blocks from `from` on; the caller writes the inode.
free_from(w, vi, from) ==
  [w |-> FreeSlots(w, vi.map, from),
   vi |-> [vi EXCEPT !.map = [k \in DOMAIN vi.map |-> IF k >= from THEN 0 ELSE vi.map[k]]]]

-----------------------------------------------------------------------------
\* Directories, through a copy vi of the directory's inode.
DirBlocks(vi) == {vi.map[k] : k \in 0 .. vi.size - 1} \ {0}

\* dir_walk for one name: the inode, or 0.
dir_walk(d, vi, name) ==
  IF \E b \in DirBlocks(vi) : d.dir[b][name] # 0
  THEN LET b == CHOOSE b \in DirBlocks(vi) : d.dir[b][name] # 0 IN d.dir[b][name]
  ELSE 0

dir_is_empty(d, vi) == \A n \in Names : dir_walk(d, vi, n) = 0

Room(d, b) == Cardinality({n \in Names : d.dir[b][n] # 0}) < ENTRIES

\* The entry goes into the first block with room; else the directory grows.
dir_add_entry(w, ino, vi, name, child) ==
  LET slots == {k \in 0 .. vi.size - 1 : vi.map[k] # 0 /\ Room(w.d, vi.map[k])}
      here  == vi.map[Min(slots)]
      a     == alloc_block(w)
      entry == bwrite(a.w, [a.w.d EXCEPT !.dir[a.b] = [NoEntries EXCEPT ![name] = child]])
      grown == [vi EXCEPT !.map[vi.size] = a.b, !.size = @ + 1]
  IN IF slots # {}
     THEN [ok |-> TRUE, vi |-> vi,
           w |-> bwrite(w, [w.d EXCEPT !.dir[here][name] = child])]
     ELSE IF vi.size >= NDIR \/ a.b = 0 THEN [ok |-> FALSE, vi |-> vi, w |-> w]
     ELSE [ok |-> TRUE, vi |-> grown, w |-> write_inode(entry, ino, grown)]

dir_remove_entry(w, vi, name) ==
  LET b == CHOOSE b \in DirBlocks(vi) : w.d.dir[b][name] # 0
  IN IF dir_walk(w.d, vi, name) = 0 THEN w
     ELSE bwrite(w, [w.d EXCEPT !.dir[b][name] = 0])

\* ext2_create: the paths that fail keep the inode, and for a directory the
\* block, that they had allocated.
ext2_create(w, ino, vi, name, mode) ==
  LET i   == alloc_inode(w)
      b   == alloc_block(i.w)
      dot == bwrite(b.w, [b.w.d EXCEPT !.dir[b.b] = [NoEntries EXCEPT ![".."] = ino]])
      new == IF mode = "reg"
             THEN write_inode(i.w, i.ino, [NoInode EXCEPT !.mode = "reg", !.links = 1])
             ELSE write_inode(dot, i.ino, [mode |-> "dir", links |-> 2, size |-> 1,
                                           map |-> [NoMap EXCEPT ![0] = b.b]])
      e   == dir_add_entry(new, ino, vi, name, i.ino)
      up  == [e.vi EXCEPT !.links = @ + 1]
  IN IF i.ino = 0 THEN [w |-> w, vi |-> vi, ino |-> 0]
     ELSE IF mode = "dir" /\ b.b = 0
          THEN [w |-> free_inode_num(i.w, i.ino), vi |-> vi, ino |-> 0]
     ELSE IF ~e.ok THEN [w |-> e.w, vi |-> e.vi, ino |-> 0]
     ELSE IF mode = "dir" THEN [w |-> write_inode(e.w, ino, up), vi |-> up, ino |-> i.ino]
     ELSE [w |-> e.w, vi |-> e.vi, ino |-> i.ino]

\* Mutant: the blocks are freed while the name is still on the disk.
UnlinkEntryLast(w, ino, vi, name) ==
  LET child == dir_walk(w.d, vi, name)
      cvi   == w.d.inode[child]
      freed == free_inode_num(free_from(w, cvi, 0).w, child)
      down  == [vi EXCEPT !.links = IF @ > 0 THEN @ - 1 ELSE @]
  IN IF child = 0 \/ (cvi.mode = "dir" /\ ~dir_is_empty(w.d, cvi))
     THEN [ok |-> FALSE, w |-> w, vi |-> vi]
     ELSE IF cvi.mode = "dir"
     THEN [ok |-> TRUE, w |-> write_inode(dir_remove_entry(freed, vi, name), ino, down), vi |-> down]
     ELSE [ok |-> TRUE, w |-> dir_remove_entry(freed, vi, name), vi |-> vi]

\* The name goes first, then what it named.
ext2_unlink(w, ino, vi, name) ==
  LET child == dir_walk(w.d, vi, name)
      cvi   == w.d.inode[child]
      named == dir_remove_entry(w, vi, name)
      freed == free_inode_num(free_from(named, cvi, 0).w, child)
      down  == [vi EXCEPT !.links = IF @ > 0 THEN @ - 1 ELSE @]
      left  == IF cvi.links > 0 THEN cvi.links - 1 ELSE 0
  IN IF child = 0 \/ (cvi.mode = "dir" /\ ~dir_is_empty(w.d, cvi))
     THEN [ok |-> FALSE, w |-> w, vi |-> vi]
     ELSE IF cvi.mode = "dir"
     THEN [ok |-> TRUE, w |-> write_inode(freed, ino, down), vi |-> down]
     ELSE IF left = 0 THEN [ok |-> TRUE, w |-> freed, vi |-> vi]
     ELSE [ok |-> TRUE, w |-> write_inode(named, child, [cvi EXCEPT !.links = left]), vi |-> vi]

-----------------------------------------------------------------------------
\* The calls.  A directory is named by the path to it: <<>> or <<name>>; its
\* inode copy is the root's, or one made for this call.
Dirs == {<<>>} \cup {<<n>> : n \in Entered}

Dir(path) ==
  LET i == IF path = <<>> THEN ROOT ELSE dir_walk(disk, root, path[1])
  IN [ino |-> i,
      vi  |-> IF path = <<>> THEN root ELSE IF i = 0 THEN NoInode ELSE disk.inode[i]]

\* The call completes, or the power goes after one of its writes: descriptors
\* are gone and the root is read again by the next mount.
Completes(w, path, vi, fds) ==
  /\ disk' = w.d /\ open' = fds
  /\ root' = IF path = <<>> THEN vi ELSE root
  /\ UNCHANGED crashed

PowerGoes(call, w) ==
  /\ call \in CrashIn /\ ~crashed
  /\ \E d \in w.seen : disk' = d /\ root' = d.inode[ROOT]
  /\ open' = [fd \in Fds |-> NULL]
  /\ crashed' = TRUE

InUse(ino) == \E fd \in Fds : open[fd] # NULL /\ open[fd].ino = ino

Create(path, name, mode) ==
  \E dir \in {Dir(path)} :
    /\ dir.vi.mode = "dir"
    /\ dir_walk(disk, dir.vi, name) = 0
    /\ \E r \in {ext2_create(Begin, dir.ino, dir.vi, name, mode)} :
         \/ Completes(r.w, path, r.vi, open)
         \/ PowerGoes("create", r.w)

\* vfs_open of a regular file; with O_TRUNC the copy is truncated first.
Open(path, name, fd, trunc) ==
  \E dir \in {Dir(path)} : \E ino \in {dir_walk(disk, dir.vi, name)} :
    /\ open[fd] = NULL /\ dir.vi.mode = "dir" /\ ino # 0
    /\ disk.inode[ino].mode = "reg"
    /\ ~InUse(ino) \/ "shared" \in Loose
    /\ LET vi == disk.inode[ino]
           f  == IF vi.size > 0 THEN free_from(Begin, vi, 0) ELSE [w |-> Begin, vi |-> vi]
           cut == [f.vi EXCEPT !.size = 0]
           w  == IF trunc THEN write_inode(f.w, ino, cut) ELSE Begin
       IN \/ Completes(w, path, dir.vi, [open EXCEPT ![fd] = [ino |-> ino, vi |-> IF trunc THEN cut ELSE vi]])
          \/ PowerGoes("truncate", w)

Close(fd) == /\ open[fd] # NULL
             /\ open' = [open EXCEPT ![fd] = NULL]
             /\ UNCHANGED <<disk, root, crashed>>

\* ext2_write of one block; a full disk still writes the inode back.
Write(fd, k) ==
  /\ open[fd] # NULL
  /\ LET vi  == open[fd].vi
         ino == open[fd].ino
         a   == IF vi.map[k] # 0 THEN [w |-> Begin, b |-> vi.map[k]] ELSE alloc_block(Begin)
         got == [vi EXCEPT !.map[k] = a.b, !.size = IF k + 1 > @ THEN k + 1 ELSE @]
         new == IF a.b = 0 THEN vi ELSE got
         w   == write_inode(a.w, ino, new)
     IN \/ Completes(w, <<>>, root, [open EXCEPT ![fd].vi = new])
        \/ PowerGoes("write", w)

Unlink(path, name) ==
  \E dir \in {Dir(path)} :
    /\ dir.vi.mode = "dir"
    /\ ~InUse(dir_walk(disk, dir.vi, name)) \/ "shared" \in Loose
    /\ \E r \in {ext2_unlink(Begin, dir.ino, dir.vi, name)} :
         /\ r.ok
         /\ \/ Completes(r.w, path, r.vi, open)
            \/ PowerGoes("unlink", r.w)

\* ext2_rename.  The old directory's copy is the new one's only when both are
\* the root; otherwise each call has its own.
Rename(op, oname, np, nname) ==
  \E od \in {Dir(op)} : od.vi.mode = "dir" /\ \E ino \in {dir_walk(disk, od.vi, oname)} \ {0} :
  \E nd \in {Dir(np)} : nd.vi.mode = "dir" /\ \E tgt \in {dir_walk(disk, nd.vi, nname)} :
    LET isdir == disk.inode[ino].mode = "dir"
        u     == IF tgt = 0 THEN [ok |-> TRUE, w |-> Begin, vi |-> nd.vi]
                 ELSE ext2_unlink(Begin, nd.ino, nd.vi, nname)
        e     == dir_add_entry(u.w, nd.ino, u.vi, nname, ino)
        ovi   == IF op = <<>> /\ np = <<>> THEN e.vi ELSE od.vi
        r     == dir_remove_entry(e.w, ovi, oname)
        cross == isdir /\ od.ino # nd.ino
        dd    == bwrite(r, [r.d EXCEPT !.dir[disk.inode[ino].map[0]][".."] = nd.ino])
        oup   == [ovi EXCEPT !.links = IF @ > 0 THEN @ - 1 ELSE @]
        nup   == [e.vi EXCEPT !.links = @ + 1]
        w     == IF cross THEN write_inode(write_inode(dd, od.ino, oup), nd.ino, nup) ELSE r
        rootvi == IF np = <<>> THEN (IF cross THEN nup ELSE e.vi)
                  ELSE IF op = <<>> THEN (IF cross THEN oup ELSE ovi) ELSE root
    IN /\ tgt # ino \/ "self" \in Loose
       /\ nd.ino # ino \/ "inside" \in Loose
       /\ ~InUse(tgt) \/ "shared" \in Loose
       /\ u.ok
       /\ \/ ~e.ok /\ Completes(e.w, <<>>, IF np = <<>> THEN e.vi ELSE root, open)
          \/ e.ok /\ Completes(w, <<>>, rootvi, open)
          \/ PowerGoes("rename", IF e.ok THEN w ELSE e.w)

Ext2Init ==
  /\ disk = [inodes |-> {1, ROOT}, blocks |-> {1},
             gd |-> [inodes |-> NI - 2, blocks |-> NB - 1],
             sb |-> [inodes |-> NI - 2, blocks |-> NB - 1],
             inode |-> [i \in Inos |-> IF i = ROOT
                                       THEN [mode |-> "dir", links |-> 2, size |-> 1,
                                             map |-> [NoMap EXCEPT ![0] = 1]]
                                       ELSE NoInode],
             dir |-> [b \in Blocks |-> IF b = 1 THEN [NoEntries EXCEPT ![".."] = ROOT]
                                       ELSE NoEntries]]
  /\ root = disk.inode[ROOT]
  /\ open = [fd \in Fds |-> NULL]
  /\ crashed = FALSE

Ext2Next ==
  \/ \E path \in Dirs, name \in Names :
       \/ \E mode \in {"reg", "dir"} : Create(path, name, mode)
       \/ \E fd \in Fds, trunc \in BOOLEAN : Open(path, name, fd, trunc)
       \/ Unlink(path, name)
       \/ \E np \in Dirs, nname \in Names : Rename(path, name, np, nname)
  \/ \E fd \in Fds : Close(fd) \/ \E k \in WriteAt : Write(fd, k)

Ext2Spec == Ext2Init /\ [][Ext2Next]_ext2_vars

-----------------------------------------------------------------------------
Vinfo == [mode : {"none", "reg", "dir"}, links : 0 .. NI + 2, size : 0 .. NDIR,
          map : [0 .. NDIR - 1 -> 0 .. NB]]

TypeOK == /\ disk.inodes \subseteq Inos /\ disk.blocks \subseteq Blocks
          /\ disk.inode \in [Inos -> Vinfo]
          /\ disk.dir \in [Blocks -> [Names \cup {".."} -> 0 .. NI]]
          /\ root \in Vinfo
          /\ open \in [Fds -> [ino : Inos, vi : Vinfo] \cup {NULL}]
          /\ crashed \in BOOLEAN

Children(i) == {dir_walk(disk, disk.inode[i], n) : n \in Names} \ {0}

RECURSIVE Closure(_)

Closure(S) ==
  LET T == S \cup UNION {Children(i) : i \in {j \in S : disk.inode[j].mode = "dir"}}
  IN IF T = S THEN S ELSE Closure(T)

Reachable == Closure({ROOT})

\* Whatever the power interrupts, a name on the disk leads to an inode that is
\* marked in use and whose blocks are marked in use and are its own: the order
\* of the writes (bitmap before pointer, name removed before its inode) makes a
\* crash lose space at most.
OneOwner ==
  LET named == Reachable
  IN /\ named \subseteq disk.inodes
     /\ \A i \in named : /\ disk.inode[i].mode # "none"
                         /\ Range0(disk.inode[i].map) \subseteq disk.blocks
     /\ \A i, j \in named : i # j => Range0(disk.inode[i].map) \cap Range0(disk.inode[j].map) = {}

\* Until the power goes, the free counts of the group and of the superblock are
\* those of the bitmaps, and the links of every file and directory are the
\* names and the ".." entries that count as one; and the one copy of the root
\* directory that lives as long as the mount is always what the disk has.
CountsHonest ==
  /\ TypeOK
  /\ root = disk.inode[ROOT]
  /\ ~crashed =>
       /\ disk.gd = disk.sb
       /\ disk.gd.inodes = NI - Cardinality(disk.inodes)
       /\ disk.gd.blocks = NB - Cardinality(disk.blocks)
       /\ LET named == Reachable
              entries == {<<j, n, dir_walk(disk, disk.inode[j], n)>> :
                            j \in {k \in named : disk.inode[k].mode = "dir"}, n \in Names}
              refs(i) == {e \in entries : e[3] = i}
              subs(i) == {j \in Children(i) : disk.inode[j].mode = "dir"}
          IN \A i \in named :
               IF disk.inode[i].mode = "reg" THEN disk.inode[i].links = Cardinality(refs(i))
               ELSE /\ disk.inode[i].links = 2 + Cardinality(subs(i))
                    /\ \A j \in subs(i) : disk.dir[disk.inode[j].map[0]][".."] = i
=============================================================================
