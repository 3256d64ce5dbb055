------------------------------- MODULE MCIo ---------------------------------
(***************************************************************************)
(* Processes at their sources of input and output, of one kind at a time:   *)
(* a process and its signals, or processes at a pipe.  The two do not share *)
(* state beyond the mark a signal leaves on a sleeper.  Signal is extended, *)
(* not instantiated, so that its properties here are those of its proofs.   *)
(***************************************************************************)
EXTENDS Signal, TLC

CONSTANTS
    Kinds,
    Trio, Pair,             \* the processes of two instances of the pipe
    NULL, Fds, PIPE_CAP, Chunk, Mod

VARIABLES
    kind,
    blocked, interrupted,
    fd_table, slots, fd_rc, refcount, readers, writers, buf, head, tail, count, rwait, wwait,
    cur, call, first

pipe_vars == <<fd_table, slots, fd_rc, refcount, readers, writers, buf, head, tail, count,
               rwait, wwait, cur, call, first>>
io_vars == <<kind, sigVars, blocked, interrupted, pipe_vars>>

\* A crowd at a pipe of one byte, all bytes alike, and two processes at one with room for several.
P3 == INSTANCE Pipe WITH Procs <- Trio, PIPE_CAP <- 1, Mod <- 1, Counts <- {1}
P2 == INSTANCE Pipe WITH Procs <- Pair, Counts <- 1..(PIPE_CAP + 1)

IoInit == kind \in Kinds /\ Init /\ IF kind = "pipe2" THEN P2!PipeInit ELSE P3!PipeInit

SignalOnly == kind = "signal" /\ UNCHANGED <<kind, blocked, interrupted, pipe_vars>>
PipeOnly(k) == kind = k /\ UNCHANGED <<kind, sigVars>>

IoNext ==
    \/ SignalOnly /\ Next
    \/ PipeOnly("pipe3") /\ P3!PipeNext
    \/ PipeOnly("pipe2") /\ P2!PipeNext

IoSpec == IoInit /\ [][IoNext]_io_vars

-----------------------------------------------------------------------------
(* The properties of the components, besides those of Signal, which hold of its *)
(* idle process when kind is another; each has its comment in its module.       *)

\* Descriptions, ends and tables are counted exactly, so a process in a call on a pipe has
\* its end open (file_put, vfs_fork_fds, vfs_share_fds, vfs_close_all).
EndsExact == /\ kind = "pipe3" => P3!PipeTypeOK /\ P3!EndsExact /\ P3!CallsOnOpenPipe
             /\ kind = "pipe2" => P2!PipeTypeOK /\ P2!EndsExact /\ P2!CallsOnOpenPipe

\* The ring holds the unread bytes in the order they were written (pipe_read, pipe_write).
Fifo == /\ kind = "pipe3" => P3!Fifo
        /\ kind = "pipe2" => P2!Fifo

\* A process sleeps at a pipe only while it has to (pipe_read, pipe_write, pipe_detach).
SleepersHaveReason == /\ kind = "pipe3" => P3!SleepersHaveReason
                      /\ kind = "pipe2" => P2!SleepersHaveReason

-----------------------------------------------------------------------------
(* The instance for TLC. *)
Perms == Permutations(Trio) \cup Permutations(Pair) \cup Permutations(Fds)
AllKinds == {"signal", "pipe3", "pipe2"}
=============================================================================
