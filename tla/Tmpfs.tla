------------------------------- MODULE Tmpfs -------------------------------
(***************************************************************************)
(* Names, links and open descriptions of the root file system: path        *)
(* resolution and the name operations of kernel/fs/vfs.c over the          *)
(* directory lists of kernel/fs/tmpfs.c.  A system call on a name does not *)
(* block, so it is one action.  Vnodes are numbered; a freed number is NULL *)
(* and the next allocation takes any free one.  File contents are in       *)
(* TmpFile, pipes in Pipe; names are short enough not to be cut.           *)
(***************************************************************************)
EXTENDS Integers, Sequences, FiniteSets, FiniteSetsExt

CONSTANTS Vnodes,            \* vnode numbers; 0 is the root directory
          Names,
          Paths,             \* the paths programs use: sequences of names
          Targets,           \* what links hold: [abs, path]
          VFS_SYMLINK_MAX,
          Fds,               \* the descriptors of the process, from 3 up
          Loose,             \* "inside": renames of a directory into itself happen
          NULL

VARIABLES vnode,             \* number -> [type, kids, target, refcount] or NULL
          file               \* descriptor -> vnode number or NULL

tmpfs_vars == <<vnode, file>>

ROOT == 0
Vnode(type, target) == [type |-> type, kids |-> <<>>, target |-> target, refcount |-> 0]

-----------------------------------------------------------------------------
\* Directories: the list of entries <<name, vnode>>, newest first.
Entries(v) == {vnode[v].kids[i] : i \in DOMAIN vnode[v].kids}

tmpfs_lookup(t, dir, name) ==
  LET hits == {i \in DOMAIN t[dir].kids : t[dir].kids[i][1] = name}
  IN IF t[dir].type # "dir" \/ hits = {} THEN NULL ELSE t[dir].kids[Min(hits)][2]

Without(kids, name) ==
  LET hit == Min({i \in DOMAIN kids : kids[i][1] = name})
  IN SubSeq(kids, 1, hit - 1) \o SubSeq(kids, hit + 1, Len(kids))

tmpfs_link(t, dir, name, v) ==
  [t EXCEPT ![dir].kids = <<<<name, v>>>> \o @, ![v].refcount = @ + 1]

-----------------------------------------------------------------------------
\* resolve_from: [vn, leaf], with vn = NULL when there is no such path.
RECURSIVE resolve_from(_, _, _, _, _)

Nowhere == [vn |-> NULL, leaf |-> NULL]

resolve_from(cur, path, want_parent, follow_last, depth) ==
  IF depth > VFS_SYMLINK_MAX THEN Nowhere
  ELSE IF path = <<>> THEN [vn |-> cur, leaf |-> NULL]
  ELSE
    LET last  == Len(path) = 1
        child == tmpfs_lookup(vnode, cur, path[1])
        link  == vnode[child]
        deref == resolve_from(IF link.target.abs THEN ROOT ELSE cur, link.target.path,
                              FALSE, TRUE, depth + 1).vn
        next  == IF link.type = "lnk" /\ (~last \/ follow_last) THEN deref ELSE child
    IN IF vnode[cur].type # "dir" THEN Nowhere
       ELSE IF last /\ want_parent THEN [vn |-> cur, leaf |-> path[1]]
       ELSE IF child = NULL THEN Nowhere
       ELSE IF next = NULL THEN Nowhere
       ELSE resolve_from(next, Tail(path), want_parent, follow_last, depth)

vfs_resolve(path) == resolve_from(ROOT, path, FALSE, TRUE, 0).vn
vfs_resolve_parent(path) == resolve_from(ROOT, path, TRUE, TRUE, 0)

-----------------------------------------------------------------------------
\* Taking a name out frees the vnode with its last reference; a directory must
\* be empty.
Removable(t, dir, name) ==
  LET v == tmpfs_lookup(t, dir, name)
  IN v # NULL /\ (t[v].type = "dir" => t[v].kids = <<>>)

\* Mutant: the vnode goes with its name, open or not.
UnlinkFrees(t, dir, name) ==
  LET v == tmpfs_lookup(t, dir, name)
  IN [t EXCEPT ![dir].kids = Without(@, name), ![v] = NULL]

tmpfs_unlink(t, dir, name) ==
  LET v    == tmpfs_lookup(t, dir, name)
      left == IF t[v].refcount > 0 THEN t[v].refcount - 1 ELSE 0
      cut  == [t EXCEPT ![dir].kids = Without(@, name)]
  IN [cut EXCEPT ![v] = IF left = 0 THEN NULL ELSE [@ EXCEPT !.refcount = left]]

\* Creates the vnode and links it: the tables this may end in.
Created(dir, name, new) ==
  {tmpfs_link([vnode EXCEPT ![v] = new], dir, name, v) : v \in {x \in Vnodes : vnode[x] = NULL}}

\* vfs_create: an existing name is returned as it is, even a link's.
vfs_create(path, type) ==
  \E at \in {vfs_resolve_parent(path)} :
    /\ at.vn # NULL /\ at.leaf # NULL
    /\ tmpfs_lookup(vnode, at.vn, at.leaf) = NULL
    /\ vnode' \in Created(at.vn, at.leaf, Vnode(type, NULL))

vfs_mkdir(path) == vfs_create(path, "dir") /\ UNCHANGED file

vfs_symlink(target, path) ==
  \E at \in {vfs_resolve_parent(path)} :
    /\ at.vn # NULL /\ at.leaf # NULL
    /\ tmpfs_lookup(vnode, at.vn, at.leaf) = NULL
    /\ vnode' \in Created(at.vn, at.leaf, Vnode("lnk", target))
    /\ UNCHANGED file

vfs_unlink(path) ==
  \E at \in {vfs_resolve_parent(path)} :
    /\ at.vn # NULL /\ at.leaf # NULL
    /\ Removable(vnode, at.vn, at.leaf)
    /\ vnode' = tmpfs_unlink(vnode, at.vn, at.leaf)
    /\ UNCHANGED file

RECURSIVE Below(_)

Below(v) == IF vnode[v].type # "dir" THEN {v}
            ELSE {v} \cup UNION {Below(e[2]) : e \in Entries(v)}

\* tmpfs_rename: an existing destination is unlinked, then the entry is moved
\* to the front of the new directory's list.
tmpfs_rename(od, oname, nd, nname, src) ==
  LET over == IF tmpfs_lookup(vnode, nd, nname) = NULL THEN vnode
              ELSE tmpfs_unlink(vnode, nd, nname)
      cut  == [over EXCEPT ![od].kids = Without(@, oname)]
  IN [cut EXCEPT ![nd].kids = <<<<nname, src>>>> \o @]

vfs_rename(oldpath, newpath) ==
  \E o \in {vfs_resolve_parent(oldpath)}, n \in {vfs_resolve_parent(newpath)} :
    /\ o.vn # NULL /\ o.leaf # NULL /\ n.vn # NULL /\ n.leaf # NULL
    /\ LET src == tmpfs_lookup(vnode, o.vn, o.leaf)
           dst == tmpfs_lookup(vnode, n.vn, n.leaf)
       IN /\ src # NULL /\ dst # src
          /\ dst # NULL => Removable(vnode, n.vn, n.leaf)
          /\ n.vn \notin Below(src) \/ "inside" \in Loose
          /\ vnode' = tmpfs_rename(o.vn, o.leaf, n.vn, n.leaf, src)
    /\ UNCHANGED file

Live == {v \in Vnodes : vnode[v] # NULL}
FreeFds == {fd \in Fds : file[fd] = NULL}

\* vfs_open, with and without O_CREAT: what does not resolve is created first,
\* and stays when there is no descriptor left.
vfs_open(path, creat) ==
  \E v \in {vfs_resolve(path)} :
    \/ v = NULL /\ creat /\ Live = Vnodes /\ UNCHANGED <<vnode, file>>  \* no memory
    \/ /\ v # NULL /\ FreeFds # {}
       /\ vnode' = [vnode EXCEPT ![v].refcount = @ + 1]
       /\ file' = [file EXCEPT ![Min(FreeFds)] = v]
    \/ /\ v = NULL /\ creat
       /\ \E at \in {vfs_resolve_parent(path)} :
            /\ at.vn # NULL /\ at.leaf # NULL
            /\ LET there == tmpfs_lookup(vnode, at.vn, at.leaf)
                   new   == Vnode("reg", NULL)
                   fd    == Min(FreeFds)
               IN \E t \in IF there # NULL THEN {vnode} ELSE Created(at.vn, at.leaf, new) :
                    LET got == tmpfs_lookup(t, at.vn, at.leaf)
                    IN IF FreeFds = {} THEN vnode' = t /\ UNCHANGED file
                       ELSE /\ vnode' = [t EXCEPT ![got].refcount = @ + 1]
                            /\ file' = [file EXCEPT ![fd] = got]

\* vfs_close of a description with one descriptor: file_put drops the open
\* count and never frees a vnode of this file system.
vfs_close(fd) ==
  /\ file[fd] # NULL
  /\ vnode' = [vnode EXCEPT ![file[fd]].refcount = IF @ > 0 THEN @ - 1 ELSE @]
  /\ file' = [file EXCEPT ![fd] = NULL]

TmpfsInit ==
  /\ vnode = [v \in Vnodes |-> IF v = ROOT THEN [Vnode("dir", NULL) EXCEPT !.refcount = 1] ELSE NULL]
  /\ file = [fd \in Fds |-> NULL]

TmpfsNext ==
  \/ \E p \in Paths :
       \/ vfs_mkdir(p) \/ vfs_unlink(p)
       \/ \E creat \in BOOLEAN : vfs_open(p, creat)
       \/ \E t \in Targets : vfs_symlink(t, p)
       \/ \E q \in Paths : vfs_rename(p, q)
  \/ \E fd \in Fds : vfs_close(fd)

TmpfsSpec == TmpfsInit /\ [][TmpfsNext]_tmpfs_vars

-----------------------------------------------------------------------------
TypeOK ==
  /\ \A v \in Live : /\ vnode[v].type \in {"dir", "reg", "lnk"}
                     /\ vnode[v].refcount \in Nat
                     /\ \A e \in Entries(v) : e \in Names \X Vnodes
  /\ file \in [Fds -> Vnodes \cup {NULL}]

Named(v) == {<<d, i>> \in Live \X (1 .. Cardinality(Names)) :
               i \in DOMAIN vnode[d].kids /\ vnode[d].kids[i][2] = v}
Opened(v) == {fd \in Fds : file[fd] = v}

RECURSIVE Reach(_)

Reach(S) == LET T == S \cup {e[2] : e \in UNION {Entries(v) : v \in S}}
            IN IF T = S THEN S ELSE Reach(T)

\* No entry and no descriptor leads to a freed vnode, the count of a vnode is
\* its entries and its descriptors, and what neither names nor descriptors
\* reach has count 0 (file_put leaves an unlinked file that was open).
RefsExact ==
  /\ \A v \in Live : \A e \in Entries(v) : vnode[e[2]] # NULL
  /\ \A fd \in Fds : file[fd] # NULL => vnode[file[fd]] # NULL
  /\ \A v \in Live : vnode[v].refcount =
       Cardinality(Named(v)) + Cardinality(Opened(v)) + (IF v = ROOT THEN 1 ELSE 0)

\* The names form a tree: each directory has a name once, everything with a
\* name is reached from the root by one path, and resolving a path that ends
\* in a link, or in a loop of links, never yields a link.
TreeExact ==
  /\ \A v \in Live : Cardinality({e[1] : e \in Entries(v)}) = Len(vnode[v].kids)
  /\ \A v \in Live : Cardinality(Named(v)) <= IF v = ROOT THEN 0 ELSE 1
  /\ \A v \in Live : Named(v) # {} => v \in Reach({ROOT})
  /\ \A p \in Paths : LET v == vfs_resolve(p) IN v # NULL => vnode[v].type # "lnk"

=============================================================================
