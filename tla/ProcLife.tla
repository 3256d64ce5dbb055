------------------------------ MODULE ProcLife ------------------------------
(***************************************************************************)
(* The life of threads and processes: creation (pthread_create, spawn,     *)
(* fork, clone), execve, exit, join, detach, waitpid and reaping, over the *)
(* process table, the PID bitmap, the process tree and the reference       *)
(* counts of address spaces (kernel/proc, kernel/pthread/pthread.c).       *)
(*                                                                         *)
(* A process is a PCB, an object of memory: when it is reaped its memory   *)
(* is free and may come back as another process.  Creation runs with       *)
(* preemption or interrupts off in every caller, so it is one step; so is  *)
(* each section of the other calls.  The pthread handle of a thread is     *)
(* used once, by its creator, to join or to detach it, as POSIX asks.      *)
(***************************************************************************)
EXTENDS Integers, FiniteSets, TLC

CONSTANTS
    PCBs,           \* memory for PCBs (MAX_PROCESSES of them)
    Init_pcb,       \* init_pcb, the static PCB of PID 1
    PidMax,         \* PID_MAX
    Spaces,         \* memory for address_space_t
    NULL,
    WaitersAvoidThreads     \* callers do not waitpid for threads made by clone

Procs == PCBs \cup {Init_pcb}
Pids == 0..(PidMax - 1)

ASSUME ProcAssumption ==
    /\ Init_pcb \notin PCBs /\ NULL \notin Procs \cup Spaces
    /\ PidMax \in Nat /\ PidMax > 2
    /\ IsFiniteSet(PCBs)
    /\ WaitersAvoidThreads \in BOOLEAN

VARIABLES
    table,          \* process_table: the PCBs in use
    pid, parent_pid,
    state,          \* "LIVE" (EMBRYO to BLOCKED) or "ZOMBIE"
    is_user, detached, aspace,
    children,       \* the list children_head..children_tail
    reap_list,
    pid_bitmap, pid_cursor,
    refcount,       \* of an address space; 0 when it is free
    handle,         \* the thread that may still join or detach a thread
    wpid,           \* the argument of the waitpid a process is in, 0 outside
    joins,          \* the thread a thread is joining
    blocked         \* the processes in state BLOCKED in waitpid or join

vars == <<table, pid, parent_pid, state, is_user, detached, aspace, children, reap_list,
          pid_bitmap, pid_cursor, refcount, handle, wpid, joins, blocked>>

TypeOK ==
    /\ table \in SUBSET Procs
    /\ pid \in [Procs -> Pids] /\ parent_pid \in [Procs -> Pids]
    /\ state \in [Procs -> {"LIVE", "ZOMBIE"}]
    /\ is_user \in SUBSET Procs /\ detached \in SUBSET Procs
    /\ aspace \in [Procs -> Spaces \cup {NULL}]
    /\ children \in [Procs -> SUBSET Procs]
    /\ reap_list \in SUBSET Procs
    /\ pid_bitmap \in SUBSET Pids
    /\ pid_cursor \in 2..(PidMax - 1)
    /\ refcount \in [Spaces -> Nat]
    /\ handle \in [Procs -> Procs \cup {NULL}]
    /\ wpid \in [Procs -> Pids \cup {-1}]
    /\ joins \in [Procs -> Procs \cup {NULL}]
    /\ blocked \in SUBSET Procs

Live == {p \in table : state[p] = "LIVE"}
Zombies == {p \in table : state[p] = "ZOMBIE"}
Running == {p \in Live : p \notin blocked /\ wpid[p] = 0 /\ joins[p] = NULL}

\* proc_init: init alone (idle, PID 0, has neither parent nor children).
Init ==
    /\ table = {Init_pcb}
    /\ pid = [p \in Procs |-> IF p = Init_pcb THEN 1 ELSE 0]
    /\ parent_pid = [p \in Procs |-> 0]
    /\ state = [p \in Procs |-> "LIVE"]
    /\ is_user = {} /\ detached = {}
    /\ aspace = [p \in Procs |-> NULL]
    /\ children = [p \in Procs |-> {}]
    /\ reap_list = {}
    /\ pid_bitmap = {0, 1} /\ pid_cursor = 2
    /\ refcount = [s \in Spaces |-> 0]
    /\ handle = [p \in Procs |-> NULL]
    /\ wpid = [p \in Procs |-> 0]
    /\ joins = [p \in Procs |-> NULL]
    /\ blocked = {}

-----------------------------------------------------------------------------
(* Helpers *)

\* proc_find: none when no process has the PID.
proc_find(n) == {p \in table : pid[p] = n}

\* The n-th PID that pid_alloc tries.
Tried(n) == 2 + ((pid_cursor - 2 + n) % (PidMax - 2))

\* Mutant: the bit is not tested.
pid_alloc_untested(n) ==
    /\ n = pid_cursor
    /\ pid_bitmap' = pid_bitmap \cup {n}
    /\ pid_cursor' = IF n + 1 >= PidMax THEN 2 ELSE n + 1

\* The first free PID from the cursor on, which moves past it.
pid_alloc(n) ==
    /\ \E k \in 0..(PidMax - 3) :
          /\ n = Tried(k) /\ n \notin pid_bitmap
          /\ \A j \in 0..(k - 1) : Tried(j) \in pid_bitmap
    /\ pid_bitmap' = pid_bitmap \cup {n}
    /\ pid_cursor' = IF n + 1 >= PidMax THEN 2 ELSE n + 1

\* A new PCB t, child of p: table slot, PID, process list and tree.
Create(p, t, user, space) ==
    /\ t \in PCBs \ table
    /\ table' = table \cup {t}
    /\ \E n \in Pids : pid_alloc(n) /\ pid' = [pid EXCEPT ![t] = n]
    /\ parent_pid' = [parent_pid EXCEPT ![t] = pid[p]]
    /\ state' = [state EXCEPT ![t] = "LIVE"]
    /\ is_user' = IF user THEN is_user \cup {t} ELSE is_user \ {t}
    /\ aspace' = [aspace EXCEPT ![t] = space]
    /\ children' = [children EXCEPT ![p] = @ \cup {t}, ![t] = {}]
    /\ wpid' = [wpid EXCEPT ![t] = 0] /\ joins' = [joins EXCEPT ![t] = NULL]
    /\ UNCHANGED <<reap_list, blocked>>

\* The reference of one process to its space is dropped; the last one
\* destroys it.
DropSpace(s) == refcount' = [x \in Spaces |-> IF x = s THEN refcount[x] - 1 ELSE refcount[x]]

\* reap(t): everything t owned is freed, its PID and its PCB too, whose
\* contents are forgotten.
reap(t) ==
    /\ table' = table \ {t}
    /\ aspace' = [aspace EXCEPT ![t] = NULL]
    /\ DropSpace(aspace[t])
    /\ pid_bitmap' = pid_bitmap \ ({pid[t]} \ {0, 1})
    /\ pid' = [pid EXCEPT ![t] = 0] /\ parent_pid' = [parent_pid EXCEPT ![t] = 0]
    /\ state' = [state EXCEPT ![t] = "LIVE"]
    /\ is_user' = is_user \ {t}
    /\ detached' = detached \ {t}
    /\ UNCHANGED <<children, pid_cursor>>

-----------------------------------------------------------------------------
(* Creation *)

\* By a kernel thread; d is the detach state of the attributes.
pthread_create(p, t, d) ==
    /\ p \in Running \ is_user
    /\ Create(p, t, FALSE, NULL)
    /\ detached' = IF d THEN detached \cup {t} ELSE detached \ {t}
    /\ handle' = [handle EXCEPT ![t] = IF d THEN NULL ELSE p]
    /\ UNCHANGED refcount

\* A process with a space of its own, by spawn_user_core or proc_fork.
NewProcess(p, t, s) ==
    /\ refcount[s] = 0
    /\ Create(p, t, TRUE, s)
    /\ refcount' = [refcount EXCEPT ![s] = 1]
    /\ detached' = detached \ {t}
    /\ handle' = [handle EXCEPT ![t] = NULL]

spawn_user_core(p, t, s) == p \in Running \ is_user /\ NewProcess(p, t, s)

proc_fork(p, t, s) == p \in Running \cap is_user /\ NewProcess(p, t, s)

\* clone(CLONE_VM); without that flag it is fork.
proc_clone(p, t) ==
    /\ p \in Running \cap is_user
    /\ Create(p, t, TRUE, aspace[p])
    /\ refcount' = [refcount EXCEPT ![aspace[p]] = @ + 1]
    /\ detached' = detached \cup {t}
    /\ handle' = [handle EXCEPT ![t] = NULL]

\* A failed execve changes nothing.
proc_execve(p, s) ==
    /\ p \in Running \cap is_user
    /\ refcount[s] = 0
    /\ aspace' = [aspace EXCEPT ![p] = s]
    /\ refcount' = [x \in Spaces |-> IF x = s THEN 1
                                     ELSE IF x = aspace[p] THEN refcount[x] - 1 ELSE refcount[x]]
    /\ UNCHANGED <<table, pid, parent_pid, state, is_user, detached, children, reap_list,
                   pid_bitmap, pid_cursor, handle, wpid, joins, blocked>>

-----------------------------------------------------------------------------
(* Exit *)

\* Mutant: p stays on its parent's list.
Unlink_stays(p) ==
    /\ parent_pid' = [c \in Procs |-> IF c \in children[p] THEN 1 ELSE parent_pid[c]]
    /\ children' = [q \in Procs |->
          IF q = p THEN {}
          ELSE children[q] \cup (IF q = Init_pcb THEN children[p] ELSE {})]

\* proc_reparent_orphans and proc_remove_child: the children of p go to init
\* and p leaves its parent's list.
Unlink(p) ==
    LET parent == proc_find(parent_pid[p])
    IN  /\ parent_pid' = [c \in Procs |-> IF c \in children[p] THEN 1 ELSE parent_pid[c]]
        /\ children' = [q \in Procs |->
              IF q = p THEN {}
              ELSE (children[q] \cup (IF q = Init_pcb THEN children[p] ELSE {}))
                   \ (IF q \in parent THEN {p} ELSE {})]

\* Mutant: joiners are not woken.
thread_exit_joiners_asleep(p) ==
    /\ p \in Running /\ p # Init_pcb
    /\ Unlink(p)
    /\ state' = [state EXCEPT ![p] = "ZOMBIE"]
    /\ blocked' = blocked \ {q \in proc_find(parent_pid[p]) : wpid[q] # 0}
    /\ reap_list' = IF p \in detached THEN reap_list \cup {p} ELSE reap_list
    /\ handle' = [t \in Procs |-> IF handle[t] = p THEN NULL ELSE handle[t]]
    /\ UNCHANGED <<table, pid, is_user, detached, aspace, pid_bitmap, pid_cursor, refcount,
                   wpid, joins>>

\* Mutant: a detached thread is not handed to the idle thread.
thread_exit_unlisted(p) ==
    /\ p \in Running /\ p # Init_pcb
    /\ Unlink(p)
    /\ state' = [state EXCEPT ![p] = "ZOMBIE"]
    /\ blocked' = blocked \ ({q \in Procs : joins[q] = p}
                             \cup {q \in proc_find(parent_pid[p]) : wpid[q] # 0})
    /\ handle' = [t \in Procs |-> IF handle[t] = p THEN NULL ELSE handle[t]]
    /\ UNCHANGED <<table, pid, reap_list, is_user, detached, aspace, pid_bitmap, pid_cursor, refcount,
                   wpid, joins>>

\* The joiner and a parent in waitpid are woken; a detached thread is left to
\* the idle thread.  init does not exit.
thread_exit(p) ==
    /\ p \in Running /\ p # Init_pcb
    /\ Unlink(p)
    /\ state' = [state EXCEPT ![p] = "ZOMBIE"]
    /\ blocked' = blocked \ ({q \in Procs : joins[q] = p}
                             \cup {q \in proc_find(parent_pid[p]) : wpid[q] # 0})
    /\ reap_list' = IF p \in detached THEN reap_list \cup {p} ELSE reap_list
    /\ handle' = [t \in Procs |-> IF handle[t] = p THEN NULL ELSE handle[t]]
    /\ UNCHANGED <<table, pid, is_user, detached, aspace, pid_bitmap, pid_cursor, refcount,
                   wpid, joins>>

-----------------------------------------------------------------------------
(* Join, detach, waitpid, reaping *)

\* A round of sched_join's loop, on the call and after each wake-up.
sched_join(p, t) ==
    /\ p \in Live \ blocked /\ wpid[p] = 0
    /\ joins[p] = t \/ (joins[p] = NULL /\ handle[t] = p /\ p # t)
    /\ handle' = [handle EXCEPT ![t] = NULL]
    /\ IF state[t] = "ZOMBIE"
       THEN /\ reap(t)
            /\ joins' = [joins EXCEPT ![p] = NULL]
            /\ UNCHANGED blocked
       ELSE /\ joins' = [joins EXCEPT ![p] = t]
            /\ blocked' = blocked \cup {p}
            /\ UNCHANGED <<table, pid, parent_pid, state, is_user, detached, aspace,
                           children, pid_bitmap, pid_cursor, refcount>>
    /\ UNCHANGED <<reap_list, wpid>>

sched_detach(p, t) ==
    /\ p \in Running /\ handle[t] = p
    /\ handle' = [handle EXCEPT ![t] = NULL]
    /\ IF state[t] = "ZOMBIE"
       THEN reap(t)
       ELSE /\ detached' = detached \cup {t}
            /\ UNCHANGED <<table, pid, parent_pid, state, is_user, aspace, children,
                           pid_bitmap, pid_cursor, refcount>>
    /\ UNCHANGED <<reap_list, wpid, joins, blocked>>

\* The processes waitpid(w) of p looks at.
WaitedFor(p, w) == {c \in (table \cap is_user) \ {p} : parent_pid[c] = pid[p]
                                                       /\ (w > 0 => pid[c] = w)}

\* The callers' rule, where it is kept.
MayWait(p, w) == WaitersAvoidThreads =>
    /\ WaitedFor(p, w) \cap detached = {}
    /\ p = Init_pcb => w # -1

\* A round of sys_waitpid's loop: reap a zombie, fail with ECHILD or sleep.
sys_waitpid(p, w) ==
    /\ p \in Live \ blocked /\ joins[p] = NULL
    /\ IF wpid[p] = 0 THEN MayWait(p, w) ELSE wpid[p] = w
    /\ \/ \E z \in WaitedFor(p, w) \cap Zombies :
             /\ reap(z)
             /\ wpid' = [wpid EXCEPT ![p] = 0]
             /\ UNCHANGED blocked
       \/ /\ WaitedFor(p, w) = {}
          /\ wpid' = [wpid EXCEPT ![p] = 0]
          /\ UNCHANGED <<table, pid, parent_pid, state, is_user, detached, aspace, children,
                         pid_bitmap, pid_cursor, refcount, blocked>>
       \/ /\ WaitedFor(p, w) # {} /\ WaitedFor(p, w) \cap Zombies = {}
          /\ wpid' = [wpid EXCEPT ![p] = w]
          /\ blocked' = blocked \cup {p}
          /\ UNCHANGED <<table, pid, parent_pid, state, is_user, detached, aspace, children,
                         pid_bitmap, pid_cursor, refcount>>
    /\ UNCHANGED <<reap_list, handle, joins>>

\* The idle thread takes one thread off the list and reaps it.
sched_reap_detached ==
    \E t \in reap_list :
        /\ reap_list' = reap_list \ {t}
        /\ reap(t)
        /\ UNCHANGED <<handle, wpid, joins, blocked>>

\* signal_send to a BLOCKED process: the loops go round again.
Interrupt(p) ==
    /\ p \in blocked
    /\ blocked' = blocked \ {p}
    /\ UNCHANGED <<table, pid, parent_pid, state, is_user, detached, aspace, children,
                   reap_list, pid_bitmap, pid_cursor, refcount, handle, wpid, joins>>

-----------------------------------------------------------------------------
Next ==
    \/ \E p \in Procs, t \in PCBs :
        \/ \E d \in BOOLEAN : pthread_create(p, t, d)
        \/ \E s \in Spaces : spawn_user_core(p, t, s) \/ proc_fork(p, t, s)
        \/ proc_clone(p, t)
        \/ sched_join(p, t) \/ sched_detach(p, t)
    \/ \E p \in Procs :
        \/ \E s \in Spaces : proc_execve(p, s)
        \/ thread_exit(p)
        \/ \E w \in {-1} \cup 2..(PidMax - 1) : sys_waitpid(p, w)
        \/ Interrupt(p)
    \/ sched_reap_detached

Spec == Init /\ [][Next]_vars

-----------------------------------------------------------------------------
(* Properties *)

\* PIDs in use are those of the table, each of one process: a PID comes free
\* only when its process is gone, however creation, joins, waitpid and the idle
\* reaper interleave (pid_alloc, reap).
PidsExact ==
    /\ pid_bitmap = {0} \cup {pid[p] : p \in table}
    /\ \A p, q \in table : pid[p] = pid[q] => p = q

\* What proc_tree_check tests, and that no live process is missing: the list of
\* a process holds exactly its live children, and every live process but init
\* is on the list of a live one, so proc_remove_child finds the parent and does
\* not panic.
TreeExact ==
    /\ \A p \in Live : children[p] = {c \in Live \ {Init_pcb} : parent_pid[c] = pid[p]}
    /\ \A c \in Live \ {Init_pcb} : \E p \in Live : c \in children[p]

\* An address space counts the processes that run in it: it is destroyed by the
\* last one reaped or gone through execve, never under another (reap,
\* proc_clone, proc_execve).
SpacesExact ==
    \A s \in Spaces : refcount[s] = Cardinality({p \in table : aspace[p] = s})

\* The idle thread's list holds the detached threads that have exited and no
\* PCB that is already free (thread_exit, sched_reap_detached, sys_waitpid).
ReapListExact == reap_list = Zombies \cap detached

\* A joiner's thread is still there, and it sleeps only while that thread has
\* not exited (sched_join).
JoinersSafe ==
    \A p \in Live : joins[p] # NULL =>
        /\ joins[p] \in table \ detached
        /\ p \in blocked => state[joins[p]] = "LIVE"

\* A parent sleeps in waitpid only while a child it waits for runs and none has
\* exited (thread_exit, sys_waitpid).
WaitersHaveChild ==
    \A p \in Live : p \in blocked /\ wpid[p] # 0 =>
        WaitedFor(p, wpid[p]) # {} /\ WaitedFor(p, wpid[p]) \cap Zombies = {}

\* Table, PIDs and address spaces agree with one another.
TablesExact == TypeOK /\ PidsExact /\ SpacesExact

\* Whoever sleeps for the end of another process will be woken by it.
SleepersSafe == JoinersSafe /\ WaitersHaveChild

-----------------------------------------------------------------------------
\* PCBs are interchangeable, and so are address spaces.
Perms == Permutations(PCBs) \cup Permutations(Spaces)
=============================================================================
