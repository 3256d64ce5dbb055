-------------------------------- MODULE Pipe --------------------------------
(***************************************************************************)
(* Pipes and the descriptor tables that hold their ends (kernel/fs/vfs.c),  *)
(* with the read and write system calls that move data through them in      *)
(* pieces (do_read and do_write of kernel/syscall/syscall.c).               *)
(*                                                                         *)
(* There is one pipe at a time; its two open-file descriptions are named by *)
(* their end.  One step is one call of pipe_read or pipe_write up to where  *)
(* it sleeps or returns; a system call runs with interrupts disabled, so    *)
(* until it sleeps nobody else moves.  The wait queues are only ever woken  *)
(* whole, so a queue is the set of its nodes.  Bytes are numbered in the    *)
(* order in which they are written, modulo Mod, so that order and loss show.*)
(***************************************************************************)
EXTENDS Integers, FiniteSets

CONSTANTS
    Procs, NULL,
    Fds,            \* descriptors: 0..VFS_MAX_FDS - 1
    PIPE_CAP,
    Chunk,          \* sizeof(tmp), the piece in which do_read and do_write work
    Counts,         \* the counts of the calls
    Mod             \* bytes are told apart modulo Mod > PIPE_CAP

Ends == {"r", "w"}
Tables == Procs         \* a table is named after the process it was made for

VARIABLES
    fd_table,       \* of a process; NULL if it does not exist
    slots,          \* the description in a slot of a table
    fd_rc,          \* the processes that share a table
    refcount,       \* of the two descriptions
    readers, writers,
    buf, head, tail, count,
    rwait, wwait,
    cur,            \* the process inside a system call that has not slept; NULL for none
    call,           \* the call a process is in: n bytes to go, part of a piece gone
    blocked,
    interrupted,    \* the processes with sig_interrupt set
    first           \* the number of the next byte to be read

pipeVars == <<fd_table, slots, fd_rc, refcount, readers, writers, buf, head, tail, count,
              rwait, wwait, cur, call, blocked, interrupted, first>>
tables == <<fd_table, slots, fd_rc>>
ring == <<buf, head, tail, count, first>>

Idle == [op |-> "idle", n |-> 0, part |-> 0, fd |-> NULL]

PipeTypeOK ==
    /\ fd_table \in [Procs -> Tables \cup {NULL}]
    /\ slots \in [Tables -> [Fds -> Ends \cup {NULL}]]
    /\ fd_rc \in [Tables -> 0..Cardinality(Procs)]
    /\ refcount \in [Ends -> 0..(Cardinality(Procs) * Cardinality(Fds))]
    /\ readers \in 0..1 /\ writers \in 0..1
    /\ buf \in [0..(PIPE_CAP - 1) -> 0..(Mod - 1)] /\ first \in 0..(Mod - 1)
    /\ head \in 0..(PIPE_CAP - 1) /\ tail \in 0..(PIPE_CAP - 1) /\ count \in 0..PIPE_CAP
    /\ rwait \subseteq Procs /\ wwait \subseteq Procs /\ cur \in Procs \cup {NULL}
    /\ call \in [Procs -> [op : {"idle", "read", "write"}, n : Nat, part : 0..Chunk, fd : Fds \cup {NULL}]]
    /\ blocked \subseteq Procs /\ interrupted \subseteq Procs

Empty == /\ readers' = 0 /\ writers' = 0 /\ count' = 0 /\ head' = 0 /\ tail' = 0 /\ first' = 0
         /\ buf' = [i \in 0..(PIPE_CAP - 1) |-> 0]

\* One process, with an empty table.
PipeInit ==
    \E p \in Procs :
        /\ fd_table = [q \in Procs |-> IF q = p THEN p ELSE NULL]
        /\ slots = [t \in Tables |-> [fd \in Fds |-> NULL]]
        /\ fd_rc = [t \in Tables |-> IF t = p THEN 1 ELSE 0]
        /\ refcount = [e \in Ends |-> 0] /\ readers = 0 /\ writers = 0
        /\ buf = [i \in 0..(PIPE_CAP - 1) |-> 0] /\ head = 0 /\ tail = 0 /\ count = 0 /\ first = 0
        /\ rwait = {} /\ wwait = {} /\ cur = NULL
        /\ call = [q \in Procs |-> Idle] /\ blocked = {} /\ interrupted = {}

Alive == {p \in Procs : fd_table[p] # NULL}
\* Processes in user mode, when none is inside a system call.
UserProcs == {p \in Alive : call[p] = Idle /\ cur = NULL}
Slot(p, fd) == slots[fd_table[p]][fd]
InSlots(S, e) == Cardinality({fd \in Fds : S[fd] = e})
Smaller(a, b) == IF a < b THEN a ELSE b

-----------------------------------------------------------------------------
(* Descriptors.                                                             *)

\* Mutant: closing an end wakes nobody.
file_put_silent(new) ==
    LET gone == {e \in Ends : refcount[e] > 0 /\ new[e] = 0}
    IN  /\ refcount' = new
        /\ IF \A e \in Ends : new[e] = 0 THEN Empty
           ELSE /\ readers' = IF "r" \in gone THEN readers - 1 ELSE readers
                /\ writers' = IF "w" \in gone THEN writers - 1 ELSE writers
                /\ UNCHANGED ring
        /\ UNCHANGED <<blocked, rwait, wwait>>

\* file_put() and the counting up of descriptions, for a step that leaves them with the
\* counts new: an end without references is detached, both queues are woken, and the
\* pipe is freed with its second end.
file_put(new) ==
    LET gone == {e \in Ends : refcount[e] > 0 /\ new[e] = 0}
    IN  /\ refcount' = new
        /\ IF \A e \in Ends : new[e] = 0 THEN Empty
           ELSE /\ readers' = IF "r" \in gone THEN readers - 1 ELSE readers
                /\ writers' = IF "w" \in gone THEN writers - 1 ELSE writers
                /\ UNCHANGED ring
        /\ IF gone = {} THEN UNCHANGED <<blocked, rwait, wwait>>
           ELSE /\ blocked' = blocked \ (rwait \cup wwait)
                /\ rwait' = {} /\ wwait' = {}

\* fd_alloc() takes the lowest free descriptors; here they are any two.
vfs_pipe(p) ==
    /\ p \in UserProcs
    /\ \A e \in Ends : refcount[e] = 0              \* one pipe at a time
    /\ \E rfd, wfd \in {fd \in Fds : Slot(p, fd) = NULL} :
        /\ rfd # wfd
        /\ slots' = [slots EXCEPT ![fd_table[p]][rfd] = "r", ![fd_table[p]][wfd] = "w"]
    /\ refcount' = [e \in Ends |-> 1] /\ readers' = 1 /\ writers' = 1
    /\ UNCHANGED <<fd_table, fd_rc, ring, rwait, wwait, cur, call, blocked, interrupted>>

\* Threads that share a table do not close a descriptor another of them is using.
NotInUse(p, fd) == \A q \in Alive : fd_table[q] = fd_table[p] => call[q].fd # fd

\* vfs_dup2(), and fcntl(F_DUPFD) with newfd a free descriptor.
vfs_dup2(p, oldfd, newfd) ==
    /\ p \in UserProcs /\ Slot(p, oldfd) # NULL /\ oldfd # newfd /\ NotInUse(p, newfd)
    /\ slots' = [slots EXCEPT ![fd_table[p]][newfd] = Slot(p, oldfd)]
    /\ file_put([e \in Ends |-> refcount[e] - InSlots(slots[fd_table[p]], e)
                                            + InSlots(slots'[fd_table[p]], e)])
    /\ UNCHANGED <<fd_table, fd_rc, cur, call, interrupted>>

vfs_close(p, fd) ==
    /\ p \in UserProcs /\ Slot(p, fd) # NULL /\ NotInUse(p, fd)
    /\ slots' = [slots EXCEPT ![fd_table[p]][fd] = NULL]
    /\ file_put([refcount EXCEPT ![Slot(p, fd)] = @ - 1])
    /\ UNCHANGED <<fd_table, fd_rc, cur, call, interrupted>>

\* Mutant: the child's descriptors are not counted.
vfs_fork_fds_uncounted(p, c) ==
    /\ p \in UserProcs /\ c \notin Alive /\ fd_rc[c] = 0
    /\ fd_table' = [fd_table EXCEPT ![c] = c] /\ fd_rc' = [fd_rc EXCEPT ![c] = 1]
    /\ slots' = [slots EXCEPT ![c] = slots[fd_table[p]]]
    /\ UNCHANGED <<refcount, readers, writers, ring, rwait, wwait, cur, call, blocked, interrupted>>

\* fork: the child has a table of its own, on the same descriptions.
vfs_fork_fds(p, c) ==
    /\ p \in UserProcs /\ c \notin Alive /\ fd_rc[c] = 0
    /\ fd_table' = [fd_table EXCEPT ![c] = c] /\ fd_rc' = [fd_rc EXCEPT ![c] = 1]
    /\ slots' = [slots EXCEPT ![c] = slots[fd_table[p]]]
    /\ refcount' = [e \in Ends |-> refcount[e] + InSlots(slots[fd_table[p]], e)]
    /\ UNCHANGED <<readers, writers, ring, rwait, wwait, cur, call, blocked, interrupted>>

\* clone(CLONE_FILES): the child shares the table.
vfs_share_fds(p, c) ==
    /\ p \in UserProcs /\ c \notin Alive
    /\ fd_table' = [fd_table EXCEPT ![c] = fd_table[p]]
    /\ fd_rc' = [fd_rc EXCEPT ![fd_table[p]] = @ + 1]
    /\ UNCHANGED <<slots, refcount, readers, writers, ring, rwait, wwait, cur, call, blocked, interrupted>>

\* exit: the last process of a table closes what is in it.
vfs_close_all(p) ==
    LET t == fd_table[p]
    IN  /\ p \in UserProcs /\ Alive # {p}
        /\ fd_table' = [fd_table EXCEPT ![p] = NULL]
        /\ fd_rc' = [fd_rc EXCEPT ![t] = @ - 1]
        /\ IF fd_rc[t] > 1
           THEN UNCHANGED <<slots, refcount, readers, writers, ring, rwait, wwait, blocked>>
           ELSE /\ slots' = [slots EXCEPT ![t] = [fd \in Fds |-> NULL]]
                /\ file_put([e \in Ends |-> refcount[e] - InSlots(slots[t], e)])
        /\ UNCHANGED <<cur, call, interrupted>>

-----------------------------------------------------------------------------
(* Reading and writing.                                                     *)

\* A program reads from read ends and writes to write ends.
Enter(p, op, fd, n) ==
    /\ p \in UserProcs /\ Slot(p, fd) = IF op = "read" THEN "r" ELSE "w"
    /\ call' = [call EXCEPT ![p] = [op |-> op, n |-> n, part |-> 0, fd |-> fd]] /\ cur' = p
    /\ UNCHANGED <<tables, refcount, readers, writers, ring, rwait, wwait, blocked, interrupted>>

\* p is inside the call, or was woken in it and gets the CPU.
Runs(p, op) == call[p].op = op /\ p \notin blocked /\ cur \in {p, NULL}

\* The call is over, or goes on with n bytes still to be moved.
Return(p) == call' = [call EXCEPT ![p] = Idle] /\ cur' = NULL
Continue(p, n) ==
    IF n = 0 THEN Return(p) ELSE call' = [call EXCEPT ![p].n = n, ![p].part = 0] /\ cur' = p

\* One piece of a read: what the pipe holds, up to the size of the piece.
pipe_read(p) ==
    LET chunk == Smaller(call[p].n, Chunk)
        k == Smaller(chunk, count)
    IN  /\ Runs(p, "read") /\ interrupted' = interrupted \ {p}
        /\ \/ /\ p \in interrupted \/ (count = 0 /\ writers = 0)       \* -EINTR, end of file
              /\ Return(p) /\ rwait' = rwait \ {p}
              /\ UNCHANGED <<ring, wwait, blocked>>
           \/ /\ p \notin interrupted /\ count = 0 /\ writers > 0
              /\ rwait' = rwait \cup {p} /\ blocked' = blocked \cup {p} /\ cur' = NULL
              /\ UNCHANGED <<ring, wwait, call>>
           \/ /\ p \notin interrupted /\ count > 0
              /\ tail' = (tail + k) % PIPE_CAP /\ count' = count - k /\ first' = (first + k) % Mod
              /\ rwait' = rwait \ {p} /\ wwait' = {} /\ blocked' = blocked \ wwait
              /\ IF k < chunk THEN Return(p) ELSE Continue(p, call[p].n - k)
              /\ UNCHANGED <<buf, head>>
        /\ UNCHANGED <<tables, refcount, readers, writers>>

\* Mutant: the copy stops at the end of the ring.
Put_no_wrap(k) ==
    /\ buf' = [i \in DOMAIN buf |->
                 IF i - head \in 0..(k - 1) THEN (first + count + i - head) % Mod ELSE buf[i]]
    /\ head' = (head + k) % PIPE_CAP /\ count' = count + k
    /\ UNCHANGED <<tail, first>>

\* k bytes copied in at head, wrapping around the end of the ring.
Put(k) ==
    /\ buf' = [i \in DOMAIN buf |->
                 LET j == (i - head) % PIPE_CAP
                 IN  IF j < k THEN (first + count + j) % Mod ELSE buf[i]]
    /\ head' = (head + k) % PIPE_CAP /\ count' = count + k
    /\ UNCHANGED <<tail, first>>

\* One piece of a write.  An interrupt or a broken pipe after a part of the piece has gone
\* ends the piece, and do_write goes on with the next one; otherwise they end the call.
pipe_write(p) ==
    LET chunk == Smaller(call[p].n, Chunk)
        left == chunk - call[p].part
        k == Smaller(PIPE_CAP - count, left)
    IN  /\ Runs(p, "write") /\ interrupted' = interrupted \ {p}
        /\ \/ /\ p \in interrupted \/ readers = 0                      \* -EINTR, -EPIPE
              /\ IF call[p].part = 0 THEN Return(p) ELSE Continue(p, call[p].n - call[p].part)
              /\ wwait' = wwait \ {p}
              /\ UNCHANGED <<ring, rwait, blocked>>
           \/ /\ p \notin interrupted /\ readers > 0 /\ count = PIPE_CAP
              /\ wwait' = wwait \cup {p} /\ blocked' = blocked \cup {p} /\ cur' = NULL
              /\ UNCHANGED <<ring, rwait, call>>
           \/ /\ p \notin interrupted /\ readers > 0 /\ count < PIPE_CAP
              /\ Put(k) /\ rwait' = {}
              /\ IF k = left
                 THEN /\ Continue(p, call[p].n - chunk)
                      /\ wwait' = wwait \ {p} /\ blocked' = blocked \ rwait
                 ELSE /\ call' = [call EXCEPT ![p].part = @ + k] /\ cur' = NULL
                      /\ wwait' = wwait \cup {p} /\ blocked' = (blocked \ rwait) \cup {p}
        /\ UNCHANGED <<tables, refcount, readers, writers>>

\* A signal for a process that sleeps (signal_send).
Interrupt(p) ==
    /\ p \in blocked /\ cur = NULL
    /\ blocked' = blocked \ {p} /\ interrupted' = interrupted \cup {p}
    /\ UNCHANGED <<tables, refcount, readers, writers, ring, rwait, wwait, cur, call>>

PipeNext ==
    \E p \in Procs :
        \/ vfs_pipe(p) \/ vfs_close_all(p) \/ pipe_read(p) \/ pipe_write(p) \/ Interrupt(p)
        \/ \E fd \in Fds : vfs_close(p, fd) \/ \E new \in Fds : vfs_dup2(p, fd, new)
        \/ \E c \in Procs : vfs_fork_fds(p, c) \/ vfs_share_fds(p, c)
        \/ \E op \in {"read", "write"}, fd \in Fds, n \in Counts : Enter(p, op, fd, n)

PipeSpec == PipeInit /\ [][PipeNext]_pipeVars

-----------------------------------------------------------------------------
(* Properties.                                                              *)

\* Descriptions, ends and tables are counted exactly: a description has as many
\* references as slots hold it, the pipe has a reader or a writer exactly while that end
\* is open somewhere, and a table has as many owners as processes that use it.
EndsExact ==
    /\ \A e \in Ends : refcount[e] = Cardinality({s \in Tables \X Fds : slots[s[1]][s[2]] = e})
    /\ readers = (IF refcount["r"] > 0 THEN 1 ELSE 0) /\ writers = (IF refcount["w"] > 0 THEN 1 ELSE 0)
    /\ \A t \in Tables : /\ fd_rc[t] = Cardinality({p \in Alive : fd_table[p] = t})
                         /\ fd_rc[t] = 0 => \A fd \in Fds : slots[t][fd] = NULL

\* The ring holds the bytes written and not yet read, in the order in which they were
\* written: none is lost, doubled or overtaken, however calls interleave or are cut short.
Fifo ==
    /\ head = (tail + count) % PIPE_CAP
    /\ \A i \in 0..(count - 1) : buf[(tail + i) % PIPE_CAP] = (first + i) % Mod

\* A process sleeps in read only while the pipe is empty and has a writer, and in write
\* only while it is full and has a reader: data, space, end of file and a broken pipe
\* all wake whoever waits for them.
SleepersHaveReason ==
    \A p \in blocked :
        \/ call[p].op = "read" /\ count = 0 /\ writers > 0 /\ p \in rwait
        \/ call[p].op = "write" /\ count = PIPE_CAP /\ readers > 0 /\ p \in wwait

\* A process that is in a call on the pipe, asleep or woken, finds its end still open:
\* the pipe is not freed under it, whatever the others close.
CallsOnOpenPipe == \A p \in Procs : call[p] # Idle => p \in Alive /\ Slot(p, call[p].fd) # NULL
=============================================================================
