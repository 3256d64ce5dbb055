----------------------------- MODULE MCStore --------------------------------
(***************************************************************************)
(* The file systems, a part at a time: the inodes and directories of ext2   *)
(* with the power going, the block map of one ext2 file, the names of tmpfs *)
(* under the VFS, the bytes of one tmpfs file, and the requests of the      *)
(* virtio disk.  Each call runs to its end in the kernel, and the parts     *)
(* meet only in the order of calls, which each leaves free; so one          *)
(* behaviour is of one part.                                                *)
(***************************************************************************)
EXTENDS Ext2, Sequences

CONSTANTS
    Parts,
    MAP_NB, MAP_NDIR, PER, MAXWRITE, Offsets, Lengths,
    Vnodes, Paths, Targets, VFS_SYMLINK_MAX, TmpFds,
    Files, Bytes, MAXN, MAXOFF, FIRSTCAP, HEAP,
    CAPACITY, MAXCOUNT, IDX, LATE

VARIABLES
    part,
    bitmap, ptr, i_block, blocks512, size, written,
    vnode, file,
    data, cap, file_size, offset, append, content,
    hdr, status, avail, used, last_used, taken, call, result, done, givenup

blockmap_vars == <<bitmap, ptr, i_block, blocks512, size, written>>
name_vars == <<vnode, file>>
byte_vars == <<data, cap, file_size, offset, append, content>>
request_vars == <<hdr, status, avail, used, last_used, taken, call, result, done, givenup>>
storeVars == <<part, ext2_vars, blockmap_vars, name_vars, byte_vars, request_vars>>

BlockMap == INSTANCE Ext2Map WITH NB <- MAP_NB, NDIR <- MAP_NDIR
Tree == INSTANCE Tmpfs WITH Fds <- TmpFds, Loose <- {}
OneFile == INSTANCE TmpFile WITH size <- file_size
Disk == INSTANCE VirtioBlk

StoreInit == part \in Parts /\ Ext2Init /\ BlockMap!MapInit /\ Tree!TmpfsInit
             /\ OneFile!TmpFileInit /\ Disk!VblkInit

StoreNext ==
    \/ part = "ext2" /\ Ext2Next
       /\ UNCHANGED <<part, blockmap_vars, name_vars, byte_vars, request_vars>>
    \/ part = "map" /\ BlockMap!MapNext
       /\ UNCHANGED <<part, ext2_vars, name_vars, byte_vars, request_vars>>
    \/ part = "tmpfs" /\ Tree!TmpfsNext
       /\ UNCHANGED <<part, ext2_vars, blockmap_vars, byte_vars, request_vars>>
    \/ part = "file" /\ OneFile!TmpFileNext
       /\ UNCHANGED <<part, ext2_vars, blockmap_vars, name_vars, request_vars>>
    \/ part = "disk" /\ Disk!VblkNext
       /\ UNCHANGED <<part, ext2_vars, blockmap_vars, name_vars, byte_vars>>

StoreSpec == StoreInit /\ [][StoreNext]_storeVars

-----------------------------------------------------------------------------
(* The properties of the parts besides those of Ext2; each has its comment in its module. *)

\* A file is what its writers made of it.  The block map reaches each block from one slot and
\* holds exactly what was written and not cut off (alloc_file_block, free_from); a vnode lives
\* while a name or a descriptor leads to it, and names form a tree (tmpfs.c, vfs.c); a read
\* returns what was written there, and zeroes in the holes (tmpfs_write, tmpfs_read).
FilesExact ==
    CASE part = "map" -> BlockMap!TypeOK /\ BlockMap!MapExact /\ BlockMap!BlocksExact
      [] part = "tmpfs" -> Tree!TypeOK /\ Tree!RefsExact /\ Tree!TreeExact
      [] part = "file" -> OneFile!TypeOK /\ OneFile!ReadsBack
      [] OTHER -> TRUE
\* A request that succeeds was carried out by the device (vblk_rw).
SuccessIsDone == part = "disk" => Disk!TypeOK /\ Disk!SuccessIsDone

-----------------------------------------------------------------------------
(* The instance for TLC. *)
AllParts == {"ext2", "map", "tmpfs", "file", "disk"}
MC_Paths == {<<"a">>, <<"b">>, <<"a", "a">>, <<"a", "b">>}
MC_Targets == {[abs |-> TRUE, path |-> <<"b">>], [abs |-> FALSE, path |-> <<"a">>]}
=============================================================================
