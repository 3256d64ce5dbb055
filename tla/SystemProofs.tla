---------------------------- MODULE SystemProofs ----------------------------
(***************************************************************************)
(* The life of processes (ProcLife), the disk (VirtioBlk), the bytes of a  *)
(* file (TmpFile) and the terminal (Tty): parts of the kernel that have a  *)
(* state of their own, each with its inductive invariant.  For any number  *)
(* of processes, PCBs, PIDs, address spaces and descriptions, and every    *)
(* size of the rings, buffers and calls.                                   *)
(***************************************************************************)
EXTENDS ProcLife, Sequences, FiniteSetTheorems, TLAPS

-----------------------------------------------------------------------------
(* The life of processes, module ProcLife. *)

\* Beyond PidsExact: init is always there with PID 1, and PID 0 is idle's.
PidInv ==
    /\ PidsExact
    /\ Init_pcb \in Live /\ pid[Init_pcb] = 1
    /\ \A p \in table : pid[p] # 0

\* No process is its own parent, so an exit leaves no child on its own list.
NotOwnParent == \A c \in Live \ {Init_pcb} : parent_pid[c] # pid[c]

\* Beyond SpacesExact: a user process has a space.
SpaceInv ==
    /\ SpacesExact
    /\ \A p \in table \cap is_user : aspace[p] \in Spaces

\* A thread that somebody may still join or detach, or is joining, is a kernel
\* thread of the table that is not detached, and only one thread may reap it.
Joinable(t) == t \in table /\ t \notin is_user /\ t \notin detached
HandleInv ==
    \A t \in Procs : handle[t] # NULL =>
        Joinable(t) /\ handle[t] \in Live /\ \A q \in Procs : joins[q] # t
JoinInv ==
    /\ \A p \in Procs : joins[p] # NULL =>
          /\ p \in Live /\ wpid[p] = 0 /\ Joinable(joins[p])
          /\ p \in blocked => state[joins[p]] = "LIVE"
    /\ \A p, q \in Procs : joins[p] = joins[q] /\ joins[p] # NULL => p = q

\* Who is in waitpid has a child to wait for, even after an interruption, and
\* it is no thread made by clone.
WaitInv ==
    \A p \in Procs : wpid[p] # 0 =>
        /\ p \in Live
        /\ p = Init_pcb => wpid[p] # -1
        /\ WaitedFor(p, wpid[p]) # {}
        /\ WaitedFor(p, wpid[p]) \cap detached = {}
        /\ p \in blocked => WaitedFor(p, wpid[p]) \cap Zombies = {}

\* The inductive invariant.
LifeInv ==
    /\ TypeOK /\ PidInv /\ TreeExact /\ NotOwnParent /\ SpaceInv
    /\ ReapListExact /\ HandleInv /\ JoinInv /\ WaitInv

-----------------------------------------------------------------------------
(* Lemmas *)

\* The processes that run in space s.
Users(s) == {p \in table : aspace[p] = s}

\* The process table is finite.
LEMMA FiniteTable == ASSUME TypeOK PROVE IsFiniteSet(table)
<1>1. IsFiniteSet(Procs)
    BY ProcAssumption, FS_AddElement, FS_Union, FS_Singleton, Zenon DEF Procs
<1> QED
    BY <1>1, FS_Subset, Zenon DEF TypeOK

\* The steps of Create that do not depend on the kind of thread: the new PCB is
\* a live process with a PID nobody has.
LEMMA CreateFacts ==
    ASSUME LifeInv, NEW p \in Running, NEW t \in PCBs,
           NEW user \in BOOLEAN, NEW space \in Spaces \cup {NULL},
           Create(p, t, user, space)
    PROVE  /\ t \in Procs \ table /\ t # Init_pcb /\ p # t /\ p \in Live
           /\ \E n \in Pids :
                 /\ n \notin pid_bitmap /\ n \notin {0, 1}
                 /\ pid_bitmap' = pid_bitmap \cup {n}
                 /\ pid' = [pid EXCEPT ![t] = n]
                 /\ pid_cursor' \in 2..(PidMax - 1)
           /\ Live' = Live \cup {t} /\ Zombies' = Zombies
<1>1. t \in Procs \ table /\ t # Init_pcb
    BY ProcAssumption, Zenon DEF Create, Procs
<1>2. p \in Live /\ p # t
    BY <1>1, Zenon DEF Running, Live
<1>3. PICK n \in Pids : pid_alloc(n) /\ pid' = [pid EXCEPT ![t] = n]
    BY Zenon DEF Create
<1>4. n \notin pid_bitmap /\ pid_bitmap' = pid_bitmap \cup {n}
    BY <1>3, Zenon DEF pid_alloc
<1>5. 0 \in pid_bitmap /\ 1 \in pid_bitmap
    BY Zenon DEF LifeInv, PidInv, PidsExact, Live
<1>6. n \notin {0, 1}
    BY <1>4, <1>5, Zenon
<1>7. pid_cursor' \in 2..(PidMax - 1)
    BY <1>3, <1>6, ProcAssumption DEF pid_alloc, Pids
<1>8. table' = table \cup {t} /\ state' = [state EXCEPT ![t] = "LIVE"]
    BY Zenon DEF Create
<1>9. Live' = Live \cup {t} /\ Zombies' = Zombies
    BY <1>1, <1>8, Zenon DEF Live, Zombies, LifeInv, TypeOK
<1> QED
    BY <1>1, <1>2, <1>3, <1>4, <1>6, <1>7, <1>9, Zenon

\* A new thread keeps the type invariant, the PIDs and the tree.
LEMMA CreateTables ==
    ASSUME LifeInv, NEW p \in Running, NEW t \in PCBs,
           NEW user \in BOOLEAN, NEW space \in Spaces \cup {NULL},
           Create(p, t, user, space),
           detached' \in SUBSET Procs,
           refcount' \in [Spaces -> Nat],
           handle' \in [Procs -> Procs \cup {NULL}]
    PROVE  TypeOK' /\ PidInv' /\ TreeExact' /\ NotOwnParent'
<1>1. /\ t \in Procs \ table /\ t # Init_pcb /\ p # t /\ p \in Live
      /\ Live' = Live \cup {t} /\ Zombies' = Zombies
    BY CreateFacts
<1>2. PICK n \in Pids :
         /\ n \notin pid_bitmap /\ n \notin {0, 1}
         /\ pid_bitmap' = pid_bitmap \cup {n}
         /\ pid' = [pid EXCEPT ![t] = n]
         /\ pid_cursor' \in 2..(PidMax - 1)
    BY CreateFacts
<1>3. /\ table' = table \cup {t}
      /\ parent_pid' = [parent_pid EXCEPT ![t] = pid[p]]
      /\ children' = [children EXCEPT ![p] = @ \cup {t}, ![t] = {}]
    BY Zenon DEF Create
<1>4. TypeOK /\ PidInv /\ TreeExact /\ NotOwnParent /\ p \in table /\ p \in Procs
    BY <1>1, Zenon DEF LifeInv, Live, TypeOK
<1>5. TypeOK'
  <2>1. table' \in SUBSET Procs /\ pid' \in [Procs -> Pids]
        /\ parent_pid' \in [Procs -> Pids] /\ pid_bitmap' \in SUBSET Pids
    BY <1>1, <1>2, <1>3, <1>4, Zenon DEF TypeOK
  <2>2. children' \in [Procs -> SUBSET Procs]
    BY <1>1, <1>3, <1>4 DEF TypeOK
  <2>3. /\ state' \in [Procs -> {"LIVE", "ZOMBIE"}]
        /\ is_user' \in SUBSET Procs
        /\ aspace' \in [Procs -> Spaces \cup {NULL}]
    BY <1>1, <1>4, Zenon DEF TypeOK, Create
  <2>4. /\ wpid' \in [Procs -> Pids \cup {-1}]
        /\ joins' \in [Procs -> Procs \cup {NULL}]
        /\ reap_list' \in SUBSET Procs /\ blocked' \in SUBSET Procs
    <3>1. 0 \in Pids
        BY ProcAssumption DEF Pids
    <3> QED
        BY <3>1, <1>1, <1>4, Zenon DEF TypeOK, Create
  <2> QED
    BY <2>1, <2>2, <2>3, <2>4, <1>2, Zenon DEF TypeOK
<1>6. /\ \A q \in table : pid'[q] = pid[q] /\ pid[q] \in pid_bitmap /\ pid[q] # n /\ q # t
      /\ pid'[t] = n
    BY <1>1, <1>2, <1>4, Zenon DEF TypeOK, PidInv, PidsExact
<1>7. PidInv'
  <2>1. pid_bitmap' = {0} \cup {pid'[q] : q \in table'}
    BY <1>2, <1>3, <1>4, <1>6 DEF PidInv, PidsExact
  <2>2. \A q, r \in table' : pid'[q] = pid'[r] => q = r
    BY <1>3, <1>4, <1>6 DEF PidInv, PidsExact
  <2>3. Init_pcb \in Live' /\ pid'[Init_pcb] = 1
    BY <1>1, <1>4, <1>6, Zenon DEF PidInv, Live
  <2>4. \A q \in table' : pid'[q] # 0
    BY <1>2, <1>3, <1>4, <1>6, Zenon DEF PidInv
  <2> QED
    BY <2>1, <2>2, <2>3, <2>4, Zenon DEF PidInv, PidsExact
<1>8. TreeExact'
  <2>1. \A c \in Live : c \in table /\ c # t /\ parent_pid'[c] = parent_pid[c]
    BY <1>1, <1>3, <1>4, Zenon DEF Live, TypeOK
  <2>2. parent_pid'[t] = pid[p]
    BY <1>1, <1>3, <1>4, Zenon DEF TypeOK
  <2>3. children'[t] = {} /\ children'[p] = children[p] \cup {t}
        /\ \A q \in Live : q # p => children'[q] = children[q]
    BY <1>1, <1>3, <1>4, <2>1, Zenon DEF TypeOK
  <2>4. \A c \in Live \ {Init_pcb} : parent_pid[c] # n
    BY <1>4, <1>6, <2>1 DEF TreeExact
  <2>5. ASSUME NEW q \in Live'
        PROVE  children'[q] = {c \in Live' \ {Init_pcb} : parent_pid'[c] = pid'[q]}
    <3>1. CASE q = t
        BY <3>1, <1>1, <1>6, <2>1, <2>2, <2>3, <2>4, <1>4
    <3>2. CASE q = p
        BY <3>2, <1>1, <1>4, <1>6, <2>1, <2>2, <2>3 DEF TreeExact
    <3>3. CASE q \in Live /\ q # p
      <4>1. pid[q] # pid[p]
        BY <3>3, <1>4, <2>1, Zenon DEF PidInv, PidsExact
      <4> QED
        BY <3>3, <4>1, <1>1, <1>4, <1>6, <2>1, <2>2, <2>3 DEF TreeExact
    <3> QED
        BY <3>1, <3>2, <3>3, <1>1, Zenon
  <2>6. \A c \in Live' \ {Init_pcb} : \E q \in Live' : c \in children'[q]
    BY <1>1, <1>4, <2>3, Zenon DEF TreeExact
  <2> QED
    BY <2>5, <2>6, Zenon DEF TreeExact
<1>9. NotOwnParent'
    BY <1>1, <1>3, <1>4, <1>6 DEF NotOwnParent, Live, TypeOK
<1> QED
    BY <1>5, <1>7, <1>8, <1>9, Zenon

\* A new thread keeps the idle thread's list, handles, joins and waits.
LEMMA CreateThreads ==
    ASSUME LifeInv, NEW p \in Running, NEW t \in PCBs,
           NEW user \in BOOLEAN, NEW space \in Spaces \cup {NULL},
           Create(p, t, user, space),
           detached' = detached \cup {t} \/ detached' = detached \ {t},
           NEW h \in {p, NULL}, handle' = [handle EXCEPT ![t] = h],
           h = p => ~user /\ t \notin detached'
    PROVE  ReapListExact' /\ HandleInv' /\ JoinInv' /\ WaitInv'
<1>1. /\ t \in Procs \ table /\ t # Init_pcb /\ p # t /\ p \in Live
      /\ Live' = Live \cup {t} /\ Zombies' = Zombies
    BY CreateFacts
<1>2. PICK n \in Pids : n \notin pid_bitmap /\ pid' = [pid EXCEPT ![t] = n]
    BY CreateFacts
<1>3. /\ table' = table \cup {t}
      /\ parent_pid' = [parent_pid EXCEPT ![t] = pid[p]]
      /\ state' = [state EXCEPT ![t] = "LIVE"]
      /\ is_user' = (IF user THEN is_user \cup {t} ELSE is_user \ {t})
      /\ wpid' = [wpid EXCEPT ![t] = 0] /\ joins' = [joins EXCEPT ![t] = NULL]
      /\ reap_list' = reap_list /\ blocked' = blocked
    BY Zenon DEF Create
<1>4. TypeOK /\ PidInv /\ ReapListExact /\ HandleInv /\ JoinInv /\ WaitInv
      /\ p \in table /\ p \in Procs /\ Live \subseteq table /\ Zombies \subseteq table
    BY <1>1, Zenon DEF LifeInv, Live, Zombies, TypeOK
<1>5. ReapListExact'
    BY <1>1, <1>3, <1>4, Zenon DEF ReapListExact
<1>6. \A q \in Procs : q # t =>
         /\ q \in table' <=> q \in table
         /\ q \in is_user' <=> q \in is_user
         /\ q \in detached' <=> q \in detached
         /\ state'[q] = state[q] /\ joins'[q] = joins[q] /\ wpid'[q] = wpid[q]
         /\ handle'[q] = handle[q] /\ pid'[q] = pid[q] /\ parent_pid'[q] = parent_pid[q]
    BY <1>1, <1>2, <1>3, <1>4, Zenon DEF TypeOK
<1>7. joins'[t] = NULL /\ wpid'[t] = 0 /\ handle'[t] = h /\ pid'[t] = n
      /\ parent_pid'[t] = pid[p] /\ t \in table'
    BY <1>1, <1>2, <1>3, <1>4, Zenon DEF TypeOK
<1>8. \A q \in Procs : joins[q] # t
    BY <1>1, <1>4, ProcAssumption DEF JoinInv, Joinable
<1>9. HandleInv'
  <2> SUFFICES ASSUME NEW u \in Procs, handle'[u] # NULL
               PROVE  Joinable(u)' /\ handle'[u] \in Live' /\ \A q \in Procs : joins'[q] # u
    BY Zenon DEF HandleInv
  <2>1. CASE u = t
    <3>1. h = p /\ ~user /\ t \notin detached'
        BY <2>1, <1>7, Zenon
    <3>2. t \notin is_user'
        BY <3>1, <1>3, Zenon
    <3>3. \A q \in Procs : joins'[q] # t
        BY <1>6, <1>7, <1>8, ProcAssumption, <1>1, Zenon
    <3> QED
        BY <2>1, <3>1, <3>2, <3>3, <1>1, <1>7 DEF Joinable
  <2>2. CASE u # t
    <3>1. Joinable(u) /\ handle[u] \in Live /\ \A q \in Procs : joins[q] # u
        BY <2>2, <1>4, <1>6, Zenon DEF HandleInv
    <3>2. \A q \in Procs : joins'[q] # u
        BY <3>1, <1>6, <1>7, ProcAssumption, Zenon
    <3> QED
        BY <2>2, <3>1, <3>2, <1>1, <1>6 DEF Joinable
  <2> QED
    BY <2>1, <2>2, Zenon
<1>10. JoinInv'
  <2>1. ASSUME NEW q \in Procs, joins'[q] # NULL
        PROVE  /\ q \in Live' /\ wpid'[q] = 0 /\ Joinable(joins[q])'
               /\ q \in blocked' => state'[joins'[q]] = "LIVE"
    <3>1. q # t /\ joins'[q] = joins[q] /\ joins[q] # t
        BY <2>1, <1>6, <1>7, <1>8, Zenon
    <3>2. /\ q \in Live /\ wpid[q] = 0 /\ Joinable(joins[q])
          /\ q \in blocked => state[joins[q]] = "LIVE"
        BY <2>1, <3>1, <1>4, Zenon DEF JoinInv
    <3>3. joins[q] \in Procs
        BY <3>2, <1>4, SMTT(30) DEF Joinable, TypeOK
    <3> QED
        BY <3>1, <3>2, <3>3, <1>1, <1>3, <1>6 DEF Joinable
  <2>2. \A q, r \in Procs : joins'[q] = joins'[r] /\ joins'[q] # NULL => q = r
    BY <1>4, <1>6, <1>7 DEF JoinInv
  <2> QED
    BY <2>1, <2>2, Zenon DEF JoinInv
<1>11. WaitInv'
  <2> SUFFICES ASSUME NEW q \in Procs, wpid'[q] # 0
               PROVE  /\ q \in Live'
                      /\ q = Init_pcb => wpid'[q] # -1
                      /\ WaitedFor(q, wpid[q])' # {}
                      /\ WaitedFor(q, wpid[q])' \cap detached' = {}
                      /\ q \in blocked' => WaitedFor(q, wpid[q])' \cap Zombies' = {}
    BY SMTT(30) DEF WaitInv
  <2>1. q # t /\ q # p /\ wpid[q] # 0 /\ wpid'[q] = wpid[q]
    BY <1>6, <1>7, Zenon DEF Running
  <2>2. q \in Live /\ q \in table /\ pid[q] # pid[p]
    BY <2>1, <1>4, Zenon DEF WaitInv, PidInv, PidsExact
  <2>3. WaitedFor(q, wpid[q])' = WaitedFor(q, wpid[q])
    BY <2>1, <2>2, <1>1, <1>3, <1>4, <1>6, <1>7, SMTT(30) DEF WaitedFor, TypeOK
  <2>4. t \notin WaitedFor(q, wpid[q])
    BY <1>1, Zenon DEF WaitedFor
  <2> QED
    BY <2>1, <2>2, <2>3, <2>4, <1>1, <1>3, <1>4 DEF WaitInv
<1> QED
    BY <1>5, <1>9, <1>10, <1>11, Zenon

\* Reaping a zombie keeps the invariant when whoever joins it or waits for it
\* stops doing so and the idle thread's list no longer holds it.
LEMMA ReapKeeps ==
    ASSUME LifeInv, NEW t \in Zombies, reap(t),
           reap_list' = reap_list \ {t}, blocked' = blocked,
           handle' = [u \in Procs |-> IF u = t THEN NULL ELSE handle[u]],
           joins' = [q \in Procs |-> IF joins[q] = t THEN NULL ELSE joins[q]],
           wpid' \in [Procs -> Pids \cup {-1}],
           \A q \in Procs : wpid'[q] \in {0, wpid[q]},
           \A q \in Procs : wpid[q] # 0 /\ t \in WaitedFor(q, wpid[q]) => wpid'[q] = 0
    PROVE  LifeInv'
<1>1. /\ TypeOK /\ PidInv /\ TreeExact /\ NotOwnParent /\ SpaceInv
      /\ ReapListExact /\ HandleInv /\ JoinInv /\ WaitInv
      /\ t \in table /\ t \in Procs /\ t \notin Live /\ Live \subseteq table
      /\ table \subseteq Procs
    BY SMTT(30) DEF LifeInv, Live, Zombies, TypeOK
<1>2. t # Init_pcb /\ pid[t] \notin {0, 1}
    BY <1>1, Zenon DEF PidInv, PidsExact
<1>3. /\ table' = table \ {t}
      /\ pid_bitmap' = pid_bitmap \ {pid[t]}
      /\ detached' = detached \ {t} /\ is_user' = is_user \ {t}
      /\ children' = children /\ pid_cursor' = pid_cursor
      /\ DropSpace(aspace[t])
    BY <1>2, Zenon DEF reap
<1>4. /\ \A q \in Procs : q # t =>
            /\ pid'[q] = pid[q] /\ parent_pid'[q] = parent_pid[q]
            /\ state'[q] = state[q] /\ aspace'[q] = aspace[q]
      /\ aspace'[t] = NULL
    BY <1>1, Zenon DEF TypeOK, reap
<1>5. Live' = Live /\ Zombies' = Zombies \ {t}
    BY <1>1, <1>3, <1>4, SMTT(30) DEF Live, Zombies
<1>6. \A s \in Spaces : /\ Users(s)' = Users(s) \ {t}
                        /\ t \in Users(s) <=> s = aspace[t]
                        /\ IsFiniteSet(Users(s))
                        /\ refcount[s] = Cardinality(Users(s))
  <2>1. IsFiniteSet(table)
    BY <1>1, FiniteTable, Zenon
  <2>2. \A s \in Spaces : IsFiniteSet(Users(s))
    BY <2>1, FS_Subset, SMTT(30) DEF Users
  <2>3. \A s \in Spaces : Users(s)' = Users(s) \ {t} /\ (t \in Users(s) <=> s = aspace[t])
    BY <1>1, <1>3, <1>4, Zenon DEF Users
  <2>4. \A s \in Spaces : refcount[s] = Cardinality(Users(s))
    BY <1>1, ZenonT(60) DEF SpaceInv, SpacesExact, Users
  <2> QED
    BY <2>2, <2>3, <2>4, Zenon
<1>7. \A s \in Spaces : refcount'[s] \in Nat /\ refcount'[s] = Cardinality(Users(s)')
  <2> SUFFICES ASSUME NEW s \in Spaces
               PROVE  refcount'[s] \in Nat /\ refcount'[s] = Cardinality(Users(s)')
    BY Zenon
  <2>1. refcount'[s] = IF s = aspace[t] THEN refcount[s] - 1 ELSE refcount[s]
    BY <1>3, Zenon DEF DropSpace
  <2>2. IsFiniteSet(Users(s)')
    BY <1>6, FS_RemoveElement
  <2>3. Cardinality(Users(s)') \in Nat
    BY <2>2, FS_CardinalityType, Zenon
  <2>4. Cardinality(Users(s)') = IF s = aspace[t] THEN Cardinality(Users(s)) - 1
                                                  ELSE Cardinality(Users(s))
    BY <1>6, FS_RemoveElement
  <2> QED
    BY <2>1, <2>3, <2>4, <1>6, Zenon
<1>8. TypeOK'
  <2>1. 0 \in Pids
    BY ProcAssumption DEF Pids
  <2>2. /\ pid' \in [Procs -> Pids] /\ parent_pid' \in [Procs -> Pids]
        /\ state' \in [Procs -> {"LIVE", "ZOMBIE"}]
        /\ aspace' \in [Procs -> Spaces \cup {NULL}]
    BY <2>1, <1>1, SMTT(30) DEF TypeOK, reap
  <2>3. refcount' \in [Spaces -> Nat]
    BY <1>3, <1>7, Zenon DEF DropSpace
  <2>4. /\ handle' \in [Procs -> Procs \cup {NULL}] /\ joins' \in [Procs -> Procs \cup {NULL}]
        /\ reap_list' \in SUBSET Procs /\ blocked' \in SUBSET Procs
    BY <1>1, Zenon DEF TypeOK
  <2>5. /\ table' \in SUBSET Procs /\ is_user' \in SUBSET Procs /\ detached' \in SUBSET Procs
        /\ children' \in [Procs -> SUBSET Procs] /\ pid_bitmap' \in SUBSET Pids
        /\ pid_cursor' \in 2..(PidMax - 1)
    BY <1>1, <1>3, Zenon DEF TypeOK
  <2> QED
    BY <2>2, <2>3, <2>4, <2>5, Zenon DEF TypeOK
<1>9. PidInv'
  <2>1. \A q, r \in table' : pid'[q] = pid'[r] => q = r
    BY <1>1, <1>3, <1>4 DEF PidInv, PidsExact
  <2>2. pid_bitmap' = {0} \cup {pid'[q] : q \in table'}
    <3>1. {pid'[q] : q \in table'} = {pid[q] : q \in table} \ {pid[t]}
        BY <1>1, <1>3, <1>4, SMTT(30) DEF PidInv, PidsExact
    <3> QED
        BY <3>1, <1>1, <1>2, <1>3, ZenonT(60) DEF PidInv, PidsExact
  <2>3. Init_pcb \in Live' /\ pid'[Init_pcb] = 1 /\ \A q \in table' : pid'[q] # 0
    BY <1>1, <1>2, <1>3, <1>4, <1>5, SMTT(30) DEF PidInv
  <2> QED
    BY <2>1, <2>2, <2>3, Zenon DEF PidInv, PidsExact
<1>10. TreeExact' /\ NotOwnParent'
    BY <1>1, <1>3, <1>4, <1>5, SMTT(30) DEF TreeExact, NotOwnParent
<1>11. SpaceInv'
  <2>1. \A q \in table' \cap is_user' : aspace'[q] \in Spaces
    BY <1>1, <1>3, <1>4, ZenonT(60) DEF SpaceInv
  <2> QED
    BY <1>7, <2>1, Zenon DEF SpaceInv, SpacesExact, Users
<1>12. ReapListExact'
    BY <1>1, <1>3, <1>5, SMTT(30) DEF ReapListExact
<1>13. HandleInv'
    BY <1>1, <1>3, <1>5, ProcAssumption, SMTT(30) DEF HandleInv, Joinable
<1>14. JoinInv'
  <2>1. ASSUME NEW q \in Procs, joins'[q] # NULL
        PROVE  /\ q \in Live' /\ wpid'[q] = 0 /\ Joinable(joins[q])'
               /\ q \in blocked' => state'[joins'[q]] = "LIVE"
    <3>1. joins'[q] = joins[q] /\ joins[q] # t /\ joins[q] # NULL
        BY <2>1, SMTT(30)
    <3>2. /\ q \in Live /\ wpid[q] = 0 /\ Joinable(joins[q])
          /\ q \in blocked => state[joins[q]] = "LIVE"
        BY <3>1, <1>1, SMTT(30) DEF JoinInv
    <3>3. joins[q] \in Procs
        BY <3>2, <1>1, Zenon DEF Joinable
    <3>4. wpid'[q] = 0
        BY <3>2, SMTT(30)
    <3> QED
        BY <3>1, <3>2, <3>3, <3>4, <1>3, <1>4, <1>5, SMTT(30) DEF Joinable
  <2>2. \A q, r \in Procs : joins'[q] = joins'[r] /\ joins'[q] # NULL => q = r
    BY <1>1, SMTT(30) DEF JoinInv
  <2> QED
    BY <2>1, <2>2, Zenon DEF JoinInv
<1>15. WaitInv'
  <2> SUFFICES ASSUME NEW q \in Procs, wpid'[q] # 0
               PROVE  /\ q \in Live'
                      /\ q = Init_pcb => wpid'[q] # -1
                      /\ WaitedFor(q, wpid[q])' # {}
                      /\ WaitedFor(q, wpid[q])' \cap detached' = {}
                      /\ q \in blocked' => WaitedFor(q, wpid[q])' \cap Zombies' = {}
    BY SMTT(30) DEF WaitInv
  <2>1. wpid[q] # 0 /\ wpid'[q] = wpid[q] /\ t \notin WaitedFor(q, wpid[q])
    BY SMTT(30)
  <2>2. q \in Live /\ q # t
    BY <2>1, <1>1, Zenon DEF WaitInv
  <2>3. WaitedFor(q, wpid[q])' = WaitedFor(q, wpid[q])
    <3>1. \A c \in Procs : c # t =>
             (c \in WaitedFor(q, wpid[q])' <=> c \in WaitedFor(q, wpid[q]))
        BY <2>1, <2>2, <1>3, <1>4, ZenonT(60) DEF WaitedFor
    <3>2. WaitedFor(q, wpid[q])' \subseteq Procs \ {t}
        BY <1>1, <1>3, ZenonT(60) DEF WaitedFor
    <3>3. WaitedFor(q, wpid[q]) \subseteq Procs \ {t}
        BY <2>1, <1>1, SMTT(30) DEF WaitedFor
    <3> QED
        BY <3>1, <3>2, <3>3, Zenon
  <2> QED
    BY <2>1, <2>2, <2>3, <1>1, <1>3, <1>5, SMTT(30) DEF WaitInv
<1> QED
    BY <1>8, <1>9, <1>10, <1>11, <1>12, <1>13, <1>14, <1>15, Zenon DEF LifeInv

\* An exit hands the live children to init and leaves the parent's list.
LEMMA ExitTree ==
    ASSUME LifeInv, NEW p \in Procs, thread_exit(p)
    PROVE  /\ TypeOK' /\ PidInv' /\ TreeExact' /\ NotOwnParent'
           /\ Live' = Live \ {p} /\ Zombies' = Zombies \cup {p}
           /\ p \in Live /\ p # Init_pcb
           /\ \A c \in Procs : parent_pid'[c] = IF c \in children[p] THEN 1 ELSE parent_pid[c]
           /\ children[p] = {c \in Live \ {Init_pcb} : parent_pid[c] = pid[p]}
<1>1. /\ TypeOK /\ PidInv /\ TreeExact /\ NotOwnParent
      /\ Live \subseteq table /\ table \subseteq Procs /\ p \in Live /\ p # Init_pcb
    BY SMTT(30) DEF LifeInv, Live, TypeOK, thread_exit, Running
<1>2. /\ table' = table /\ pid' = pid /\ pid_bitmap' = pid_bitmap
      /\ state' = [state EXCEPT ![p] = "ZOMBIE"] /\ Unlink(p)
    BY Zenon DEF thread_exit
<1>3. Live' = Live \ {p} /\ Zombies' = Zombies \cup {p}
    BY <1>1, <1>2, Zenon DEF Live, Zombies, TypeOK
<1>4. \A c \in Procs : parent_pid'[c] = IF c \in children[p] THEN 1 ELSE parent_pid[c]
    BY <1>2, Zenon DEF Unlink
<1>5. \A q \in Live : children[q] = {c \in Live \ {Init_pcb} : parent_pid[c] = pid[q]}
    BY <1>1, Zenon DEF TreeExact
<1>6. PICK r \in Live : p \in children[r]
    BY <1>1, Zenon DEF TreeExact
<1>7. parent_pid[p] = pid[r] /\ proc_find(parent_pid[p]) = {r} /\ r # p
  <2>1. parent_pid[p] = pid[r]
    BY <1>5, <1>6, Zenon
  <2> QED
    BY <2>1, <1>1, Zenon DEF proc_find, PidInv, PidsExact, NotOwnParent
<1>8. \A q \in Procs : children'[q] =
         IF q = p THEN {}
         ELSE (children[q] \cup (IF q = Init_pcb THEN children[p] ELSE {}))
              \ (IF q = r THEN {p} ELSE {})
    BY <1>2, <1>7, Zenon DEF Unlink
<1>9. Init_pcb \in Live /\ pid[Init_pcb] = 1 /\ Init_pcb \in Procs
      /\ \A x, y \in Live : pid[x] = pid[y] => x = y
    BY <1>1, Zenon DEF PidInv, PidsExact
<1>10. PidInv'
    BY <1>1, <1>2, <1>3, SMTT(30) DEF PidInv, PidsExact
<1>11. TypeOK'
  <2>1. parent_pid' \in [Procs -> Pids]
    <3>1. 1 \in Pids
        BY ProcAssumption DEF Pids
    <3> QED
        BY <3>1, <1>1, <1>2, Zenon DEF TypeOK, Unlink
  <2>2. children' \in [Procs -> SUBSET Procs]
    <3>1. \A q \in Procs : children'[q] \in SUBSET Procs
        BY <1>1, <1>8, ZenonT(60) DEF TypeOK
    <3>2. children' = [q \in Procs |-> children'[q]]
        BY <1>2, Zenon DEF Unlink
    <3> QED
        BY <3>1, <3>2, Zenon
  <2>3. /\ state' \in [Procs -> {"LIVE", "ZOMBIE"}]
        /\ blocked' \in SUBSET Procs /\ reap_list' \in SUBSET Procs
        /\ handle' \in [Procs -> Procs \cup {NULL}]
    BY <1>1, Zenon DEF TypeOK, thread_exit
  <2> QED
    BY <2>1, <2>2, <2>3, <1>1, Zenon DEF TypeOK, thread_exit
<1>12. TreeExact'
  <2>1. ASSUME NEW q \in Live'
        PROVE  children'[q] = {c \in Live' \ {Init_pcb} : parent_pid'[c] = pid'[q]}
    <3>1. q \in Live /\ q # p /\ q \in Procs /\ pid'[q] = pid[q]
        BY <1>1, <1>2, <1>3, Zenon
    <3>2. CASE q = Init_pcb
      <4>1. \A c \in Procs : c \in children'[q] <=>
               (c \in children[q] \/ c \in children[p]) /\ (q = r => c # p)
        BY <3>1, <3>2, <1>8, Zenon
      <4>2. p \in children[q] <=> q = r
        BY <3>1, <1>5, <1>6, <1>7, <1>9
      <4>3. p \notin children[p]
        BY <1>1, <1>5, Zenon DEF NotOwnParent
      <4>4. \A c \in Procs : c \in children'[q] <=>
               c \in Live' \ {Init_pcb} /\ parent_pid'[c] = 1
        BY <4>1, <4>2, <4>3, <3>1, <3>2, <1>1, <1>3, <1>4, <1>5, <1>9, SMTT(30)
      <4>5. children'[q] \subseteq Procs /\ Live' \subseteq Procs
        BY <1>1, <1>3, <1>11, <3>1, Zenon DEF TypeOK
      <4> QED
        BY <4>4, <4>5, <3>1, <3>2, <1>9, Zenon
    <3>3. CASE q # Init_pcb
      <4>1. p \in children[q] => q = r
        BY <3>1, <1>5, <1>7, <1>9
      <4>2. children'[q] = children[q] \ {p}
        BY <4>1, <3>1, <3>3, <1>8, Zenon
      <4>3. pid[q] # 1 /\ pid[q] # pid[p]
        BY <3>1, <3>3, <1>1, <1>9, Zenon
      <4> QED
        BY <4>2, <4>3, <3>1, <1>1, <1>3, <1>4, <1>5, Zenon
    <3> QED
        BY <3>2, <3>3, Zenon
  <2>2. ASSUME NEW c \in Live' \ {Init_pcb}
        PROVE  \E q \in Live' : c \in children'[q]
    <3>1. c \in Live \ {Init_pcb} /\ c # p
        BY <1>3, Zenon
    <3>2. PICK q \in Live : c \in children[q]
        BY <3>1, <1>1, Zenon DEF TreeExact
    <3>3. CASE q = p
        BY <3>1, <3>2, <3>3, <1>1, <1>3, <1>8, <1>9, Zenon
    <3>4. CASE q # p
        BY <3>1, <3>2, <3>4, <1>1, <1>3, <1>8, Zenon
    <3> QED
        BY <3>3, <3>4, Zenon
  <2> QED
    BY <2>1, <2>2, Zenon DEF TreeExact
<1>13. NotOwnParent'
    BY <1>1, <1>2, <1>3, <1>4, <1>5, <1>9, SMTT(30) DEF NotOwnParent
<1> QED
    BY <1>1, <1>3, <1>4, <1>5, <1>10, <1>11, <1>12, <1>13, Zenon

\* thread_exit keeps the invariant: its children go to init, and whoever waits for it is woken.
LEMMA ExitKeeps ==
    ASSUME LifeInv, NEW p \in Procs, thread_exit(p)
    PROVE  LifeInv'
<1>1. /\ TypeOK' /\ PidInv' /\ TreeExact' /\ NotOwnParent'
      /\ Live' = Live \ {p} /\ Zombies' = Zombies \cup {p}
      /\ p \in Live /\ p # Init_pcb
      /\ \A c \in Procs : parent_pid'[c] = IF c \in children[p] THEN 1 ELSE parent_pid[c]
      /\ children[p] = {c \in Live \ {Init_pcb} : parent_pid[c] = pid[p]}
    BY ExitTree, Zenon
<1>2. /\ TypeOK /\ PidInv /\ SpaceInv /\ ReapListExact /\ HandleInv /\ JoinInv /\ WaitInv
      /\ Live \subseteq table /\ table \subseteq Procs
    BY Zenon DEF LifeInv, Live, TypeOK
<1>3. /\ table' = table /\ pid' = pid /\ is_user' = is_user /\ detached' = detached
      /\ aspace' = aspace /\ refcount' = refcount /\ wpid' = wpid /\ joins' = joins
      /\ state' = [state EXCEPT ![p] = "ZOMBIE"]
      /\ blocked' = blocked \ ({q \in Procs : joins[q] = p}
                               \cup {q \in proc_find(parent_pid[p]) : wpid[q] # 0})
      /\ reap_list' = (IF p \in detached THEN reap_list \cup {p} ELSE reap_list)
      /\ handle' = [t \in Procs |-> IF handle[t] = p THEN NULL ELSE handle[t]]
      /\ joins[p] = NULL /\ wpid[p] = 0
    BY SMTT(30) DEF thread_exit, Running
<1>4. SpaceInv'
    BY <1>2, <1>3, Zenon DEF SpaceInv, SpacesExact
<1>5. ReapListExact'
    BY <1>1, <1>2, <1>3, SMTT(30) DEF ReapListExact
<1>6. HandleInv'
    BY <1>1, <1>2, <1>3, SMTT(30) DEF HandleInv, Joinable
<1>7. JoinInv'
  <2>1. ASSUME NEW q \in Procs, joins'[q] # NULL
        PROVE  /\ q \in Live' /\ wpid'[q] = 0 /\ Joinable(joins[q])'
               /\ q \in blocked' => state'[joins'[q]] = "LIVE"
    <3>1. /\ q \in Live /\ q # p /\ wpid[q] = 0 /\ Joinable(joins[q])
          /\ q \in blocked => state[joins[q]] = "LIVE"
        BY <2>1, <1>2, <1>3, ZenonT(60) DEF JoinInv
    <3>2. q \in blocked' => q \in blocked /\ joins[q] # p
        BY <1>3, SMTT(30)
    <3>3. joins[q] \in Procs
        BY <3>1, <1>2, SMTT(30) DEF Joinable
    <3> QED
        BY <3>1, <3>2, <3>3, <1>1, <1>2, <1>3, Zenon DEF Joinable, TypeOK
  <2> QED
    BY <2>1, <1>2, <1>3, SMTT(30) DEF JoinInv
<1>8. WaitInv'
  <2> SUFFICES ASSUME NEW q \in Procs, wpid'[q] # 0
               PROVE  /\ q \in Live'
                      /\ q = Init_pcb => wpid'[q] # -1
                      /\ WaitedFor(q, wpid[q])' # {}
                      /\ WaitedFor(q, wpid[q])' \cap detached' = {}
                      /\ q \in blocked' => WaitedFor(q, wpid[q])' \cap Zombies' = {}
    BY SMTT(30) DEF WaitInv
  <2>1. /\ q # p /\ q \in Live /\ q \in table /\ wpid'[q] = wpid[q]
        /\ q = Init_pcb => wpid[q] # -1
        /\ WaitedFor(q, wpid[q]) # {}
        /\ WaitedFor(q, wpid[q]) \cap detached = {}
        /\ q \in blocked => WaitedFor(q, wpid[q]) \cap Zombies = {}
    BY <1>2, <1>3, Zenon DEF WaitInv
  <2>2. \A x, y \in table : pid[x] = pid[y] => x = y
    BY <1>2, SMTT(30) DEF PidInv, PidsExact
  <2>3. pid[q] # pid[p] /\ pid[Init_pcb] = 1 /\ Init_pcb \in table
    BY <2>1, <2>2, <1>1, <1>2, SMTT(30) DEF PidInv
  <2>4. q # Init_pcb => pid[q] # 1
    BY <2>1, <2>2, <2>3, Zenon
  <2>5. ASSUME NEW c \in children[p]
        PROVE  c \notin WaitedFor(q, wpid[q]) /\ c \notin WaitedFor(q, wpid[q])'
    <3>1. parent_pid[c] = pid[p] /\ c \in table /\ c \in Procs /\ parent_pid'[c] = 1
        BY <1>1, <1>2, Zenon
    <3>2. c \notin WaitedFor(q, wpid[q])
        BY <3>1, <2>3, SMTT(30) DEF WaitedFor
    <3>3. CASE q # Init_pcb
        BY <3>1, <3>2, <3>3, <2>4, <1>3, SMTT(30) DEF WaitedFor
    <3>4. CASE q = Init_pcb
      <4>1. wpid[q] > 0
        BY <3>4, <2>1, <1>2, <1>3, SMTT(30) DEF TypeOK, Pids
      <4>2. PICK d \in WaitedFor(q, wpid[q]) : TRUE
        BY <2>1, Zenon
      <4>3. d \in table /\ pid[d] = wpid[q]
        BY <4>1, <4>2, Zenon DEF WaitedFor
      <4>4. pid[c] # wpid[q]
        BY <4>2, <4>3, <3>1, <3>2, <2>2, Zenon
      <4> QED
        BY <3>2, <4>1, <4>4, <1>3, <2>1, SMTT(30) DEF WaitedFor
    <3> QED
        BY <3>3, <3>4, Zenon
  <2>6. WaitedFor(q, wpid[q])' = WaitedFor(q, wpid[q])
    <3>1. \A c \in table : c \notin children[p] =>
             (c \in WaitedFor(q, wpid[q])' <=> c \in WaitedFor(q, wpid[q]))
        BY <1>1, <1>2, <1>3, SMTT(30) DEF WaitedFor
    <3>2. WaitedFor(q, wpid[q])' \subseteq table /\ WaitedFor(q, wpid[q]) \subseteq table
      <4>1. WaitedFor(q, wpid[q])' \subseteq table' /\ WaitedFor(q, wpid[q]) \subseteq table
        BY Zenon DEF WaitedFor
      <4>2. table' = table
        BY <1>3, Zenon
      <4> QED
        BY <4>1, <4>2, Zenon
    <3> QED
        BY <3>1, <3>2, <2>5, Zenon
  <2>7. q \in blocked' => p \notin WaitedFor(q, wpid[q])
    BY <2>1, <1>3, Zenon DEF WaitedFor, proc_find
  <2>8. q \in blocked' => q \in blocked
    BY <1>3, Zenon
  <2> QED
    BY <2>1, <2>6, <2>7, <2>8, <1>1, <1>3, Zenon
<1> QED
    BY <1>1, <1>4, <1>5, <1>6, <1>7, <1>8, Zenon DEF LifeInv

\* A new process counts in its space.
LEMMA CreateSpaces ==
    ASSUME LifeInv, NEW p \in Running, NEW t \in PCBs,
           NEW user \in BOOLEAN, NEW space \in Spaces \cup {NULL},
           Create(p, t, user, space), user => space \in Spaces,
           refcount' = [x \in Spaces |-> IF x = space THEN refcount[x] + 1 ELSE refcount[x]]
    PROVE  SpaceInv' /\ refcount' \in [Spaces -> Nat]
<1>1. t \in Procs \ table
    BY CreateFacts
<1>2. TypeOK /\ SpaceInv /\ table \subseteq Procs
    BY Zenon DEF LifeInv, TypeOK
<1>3. /\ table' = table \cup {t} /\ aspace' = [aspace EXCEPT ![t] = space]
      /\ is_user' = (IF user THEN is_user \cup {t} ELSE is_user \ {t})
    BY Zenon DEF Create
<1>4. refcount' \in [Spaces -> Nat]
    BY <1>2 DEF TypeOK
<1>5. ASSUME NEW s \in Spaces
      PROVE  refcount'[s] = Cardinality(Users(s)')
  <2>1. IsFiniteSet(Users(s))
    BY <1>2, FiniteTable, FS_Subset, Zenon DEF Users
  <2>2. t \notin Users(s) /\ Users(s)' = IF s = space THEN Users(s) \cup {t} ELSE Users(s)
    BY <1>1, <1>2, <1>3, SMTT(30) DEF Users, TypeOK
  <2>3. refcount[s] = Cardinality(Users(s))
    BY <1>2, Zenon DEF SpaceInv, SpacesExact, Users
  <2>4. Cardinality(Users(s) \cup {t}) = Cardinality(Users(s)) + 1
    BY <2>1, <2>2, FS_AddElement, Zenon
  <2> QED
    BY <2>2, <2>3, <2>4, Zenon
<1>6. \A q \in table' \cap is_user' : aspace'[q] \in Spaces
    BY <1>1, <1>2, <1>3 DEF SpaceInv, TypeOK
<1> QED
    BY <1>4, <1>5, <1>6, Zenon DEF SpaceInv, SpacesExact, Users

\* The three ways a PCB comes into use.
LEMMA CreationKeeps ==
    ASSUME LifeInv, NEW p \in Procs, NEW t \in PCBs,
           \/ \E d \in BOOLEAN : pthread_create(p, t, d)
           \/ \E s \in Spaces : spawn_user_core(p, t, s) \/ proc_fork(p, t, s)
           \/ proc_clone(p, t)
    PROVE  LifeInv'
<1>0. /\ TypeOK /\ SpaceInv /\ NULL \notin Spaces /\ t \in Procs
      /\ p \in Running => p \in table
    BY ProcAssumption, Zenon DEF LifeInv, Procs, Running, Live
<1>1. CASE \E d \in BOOLEAN : pthread_create(p, t, d)
  <2>1. PICK d \in BOOLEAN : pthread_create(p, t, d)
    BY <1>1, Zenon
  <2>2. /\ p \in Running /\ Create(p, t, FALSE, NULL) /\ refcount' = refcount
        /\ detached' = (IF d THEN detached \cup {t} ELSE detached \ {t})
        /\ handle' = [handle EXCEPT ![t] = IF d THEN NULL ELSE p]
    BY <2>1, Zenon DEF pthread_create
  <2>3. SpaceInv' /\ refcount' \in [Spaces -> Nat]
    <3>1. refcount' = [x \in Spaces |-> IF x = NULL THEN refcount[x] + 1 ELSE refcount[x]]
        BY <2>2, <1>0, Zenon DEF TypeOK
    <3> QED
        BY <3>1, <2>2, CreateSpaces, ZenonT(60)
  <2>4. TypeOK' /\ PidInv' /\ TreeExact' /\ NotOwnParent'
    <3>1. detached' \in SUBSET Procs /\ handle' \in [Procs -> Procs \cup {NULL}]
        BY <2>2, <1>0, Zenon DEF TypeOK
    <3> QED
        BY <3>1, <2>2, <2>3, CreateTables, Zenon
  <2>5. ReapListExact' /\ HandleInv' /\ JoinInv' /\ WaitInv'
    <3>1. CASE d
        BY <3>1, <2>2, CreateThreads, ProcAssumption, Zenon
    <3>2. CASE ~d
        BY <3>2, <2>2, CreateThreads, Zenon
    <3> QED
        BY <3>1, <3>2, Zenon
  <2> QED
    BY <2>3, <2>4, <2>5, Zenon DEF LifeInv
<1>2. CASE \E s \in Spaces : spawn_user_core(p, t, s) \/ proc_fork(p, t, s)
  <2>1. PICK s \in Spaces : p \in Running /\ NewProcess(p, t, s)
    BY <1>2, Zenon DEF spawn_user_core, proc_fork
  <2>2. /\ Create(p, t, TRUE, s) /\ refcount[s] = 0
        /\ refcount' = [refcount EXCEPT ![s] = 1]
        /\ detached' = detached \ {t} /\ handle' = [handle EXCEPT ![t] = NULL]
    BY <2>1, Zenon DEF NewProcess
  <2>3. SpaceInv' /\ refcount' \in [Spaces -> Nat]
    <3>1. refcount \in [Spaces -> Nat] /\ refcount[s] + 1 = 1
        BY <2>2, <1>0 DEF TypeOK
    <3>2. refcount' = [x \in Spaces |-> IF x = s THEN refcount[x] + 1 ELSE refcount[x]]
        BY <3>1, <2>2, Zenon
    <3> QED
        BY <3>2, <2>1, <2>2, CreateSpaces, ZenonT(60)
  <2>4. TypeOK' /\ PidInv' /\ TreeExact' /\ NotOwnParent'
    <3>1. detached' \in SUBSET Procs /\ handle' \in [Procs -> Procs \cup {NULL}]
        BY <2>2, <1>0, Zenon DEF TypeOK
    <3> QED
        BY <3>1, <2>1, <2>2, <2>3, CreateTables, Zenon
  <2>5. ReapListExact' /\ HandleInv' /\ JoinInv' /\ WaitInv'
    <3>1. NULL # p
        BY ProcAssumption, Zenon
    <3> QED
        BY <3>1, <2>1, <2>2, CreateThreads, Zenon
  <2> QED
    BY <2>3, <2>4, <2>5, Zenon DEF LifeInv
<1>3. CASE proc_clone(p, t)
  <2>1. /\ p \in Running /\ p \in is_user /\ Create(p, t, TRUE, aspace[p])
        /\ refcount' = [refcount EXCEPT ![aspace[p]] = @ + 1]
        /\ detached' = detached \cup {t} /\ handle' = [handle EXCEPT ![t] = NULL]
    BY <1>3, Zenon DEF proc_clone
  <2>2. PICK s \in Spaces : /\ Create(p, t, TRUE, s)
                            /\ refcount' = [refcount EXCEPT ![s] = @ + 1]
    BY <2>1, <1>0, Zenon DEF SpaceInv
  <2>3. SpaceInv' /\ refcount' \in [Spaces -> Nat]
    <3>1. refcount' = [x \in Spaces |-> IF x = s THEN refcount[x] + 1 ELSE refcount[x]]
        BY <2>1, <2>2, <1>0, Zenon DEF TypeOK
    <3> QED
        BY <3>1, <2>1, <2>2, CreateSpaces, ZenonT(60)
  <2>4. TypeOK' /\ PidInv' /\ TreeExact' /\ NotOwnParent'
    <3>1. detached' \in SUBSET Procs /\ handle' \in [Procs -> Procs \cup {NULL}]
        BY <2>1, <1>0, Zenon DEF TypeOK
    <3> QED
        BY <3>1, <2>1, <2>2, <2>3, CreateTables, Zenon
  <2>5. ReapListExact' /\ HandleInv' /\ JoinInv' /\ WaitInv'
    <3>1. NULL # p
        BY ProcAssumption, Zenon
    <3> QED
        BY <3>1, <2>1, <2>2, CreateThreads, ZenonT(60)
  <2> QED
    BY <2>3, <2>4, <2>5, Zenon DEF LifeInv
<1> QED
    BY <1>1, <1>2, <1>3, Zenon

\* execve moves a process from its space to a fresh one.
LEMMA ExecveKeeps ==
    ASSUME LifeInv, NEW p \in Procs, NEW s \in Spaces, proc_execve(p, s)
    PROVE  LifeInv'
<1>1. /\ TypeOK /\ SpaceInv /\ p \in table /\ p \in is_user /\ table \subseteq Procs
    BY Zenon DEF LifeInv, TypeOK, proc_execve, Running, Live
<1>2. /\ aspace' = [aspace EXCEPT ![p] = s] /\ refcount[s] = 0
      /\ refcount' = [x \in Spaces |-> IF x = s THEN 1
                        ELSE IF x = aspace[p] THEN refcount[x] - 1 ELSE refcount[x]]
      /\ UNCHANGED <<table, pid, parent_pid, state, is_user, detached, children, reap_list,
                     pid_bitmap, pid_cursor, handle, wpid, joins, blocked>>
    BY Zenon DEF proc_execve
<1>3. \A x \in Spaces : IsFiniteSet(Users(x)) /\ refcount[x] = Cardinality(Users(x))
    BY <1>1, FiniteTable, FS_Subset, Zenon DEF Users, SpaceInv, SpacesExact
<1>4. ASSUME NEW x \in Spaces
      PROVE  refcount'[x] \in Nat /\ refcount'[x] = Cardinality(Users(x)')
  <2>1. CASE x = s
    <3>1. Users(s) = {}
        BY <1>2, <1>3, FS_EmptySet, SMTT(30)
    <3>2. Users(x)' = {p}
        BY <2>1, <3>1, <1>1, <1>2, SMTT(30) DEF Users, TypeOK
    <3> QED
        BY <2>1, <3>2, <1>2, FS_Singleton, Zenon
  <2>2. CASE x # s
    <3>1. Users(x)' = Users(x) \ {p} /\ (p \in Users(x) <=> x = aspace[p])
        BY <2>2, <1>1, <1>2, SMTT(30) DEF Users, TypeOK
    <3>2. IsFiniteSet(Users(x)')
        BY <3>1, <1>3, FS_RemoveElement
    <3>3. Cardinality(Users(x)') \in Nat
        BY <3>2, FS_CardinalityType, Zenon
    <3>4. Cardinality(Users(x)') = IF x = aspace[p] THEN Cardinality(Users(x)) - 1
                                                    ELSE Cardinality(Users(x))
        BY <3>1, <1>3, FS_RemoveElement, ZenonT(60)
    <3> QED
        BY <2>2, <3>3, <3>4, <1>2, <1>3, Zenon
  <2> QED
    BY <2>1, <2>2, Zenon
<1>5. SpaceInv'
  <2>1. \A q \in table' \cap is_user' : aspace'[q] \in Spaces
    BY <1>1, <1>2, SMTT(30) DEF SpaceInv, TypeOK
  <2> QED
    BY <1>4, <2>1, Zenon DEF SpaceInv, SpacesExact, Users
<1>6. TypeOK'
  <2>1. refcount' \in [Spaces -> Nat] /\ aspace' \in [Procs -> Spaces \cup {NULL}]
    BY <1>1, <1>2, <1>4, Zenon DEF TypeOK
  <2> QED
    BY <2>1, <1>1, <1>2, Zenon DEF TypeOK
<1>7. /\ table' = table /\ pid' = pid /\ parent_pid' = parent_pid /\ state' = state
      /\ is_user' = is_user /\ detached' = detached /\ children' = children
      /\ reap_list' = reap_list /\ pid_bitmap' = pid_bitmap /\ handle' = handle
      /\ wpid' = wpid /\ joins' = joins /\ blocked' = blocked
    BY <1>2, Zenon
<1>8. PidInv /\ TreeExact /\ NotOwnParent /\ ReapListExact /\ HandleInv /\ JoinInv /\ WaitInv
    BY SMTT(30) DEF LifeInv
<1>9. PidInv' /\ NotOwnParent'
    BY <1>7, <1>8, ZenonT(60) DEF PidInv, PidsExact, NotOwnParent, Live
<1>10. TreeExact' /\ ReapListExact'
  <2>1. TreeExact'
    <3>1. Live' = Live
        BY <1>7, Zenon DEF Live
    <3>2. /\ \A q \in Live : children'[q] = {c \in Live \ {Init_pcb} : parent_pid'[c] = pid'[q]}
          /\ \A c \in Live \ {Init_pcb} : \E q \in Live : c \in children'[q]
        BY <1>7, <1>8, Zenon DEF TreeExact
    <3> QED
        BY <3>1, <3>2, Zenon DEF TreeExact
  <2>2. ReapListExact'
    BY <1>7, <1>8, ZenonT(60) DEF ReapListExact, Zombies
  <2> QED
    BY <2>1, <2>2, Zenon
<1>11. HandleInv' /\ JoinInv'
    BY <1>7, <1>8, SMTT(30) DEF HandleInv, JoinInv, Joinable, Live
<1>12. WaitInv'
    BY <1>7, <1>8, ZenonT(60) DEF WaitInv, WaitedFor, Live, Zombies
<1> QED
    BY <1>5, <1>6, <1>9, <1>10, <1>11, <1>12, SMTT(30) DEF LifeInv

\* What the steps that neither create, reap nor exit leave alone.
Quiet == UNCHANGED <<table, pid, parent_pid, state, is_user, aspace, children, reap_list,
                     pid_bitmap, pid_cursor, refcount>>

\* Such a step keeps the tables; what a thread sleeps for is checked apart.
LEMMA QuietKeeps ==
    ASSUME LifeInv, Quiet,
           detached' \in SUBSET Procs, handle' \in [Procs -> Procs \cup {NULL}],
           wpid' \in [Procs -> Pids \cup {-1}], joins' \in [Procs -> Procs \cup {NULL}],
           blocked' \in SUBSET Procs,
           Zombies \cap detached' = Zombies \cap detached
    PROVE  /\ TypeOK' /\ PidInv' /\ TreeExact' /\ NotOwnParent' /\ SpaceInv' /\ ReapListExact'
           /\ Live' = Live /\ Zombies' = Zombies
           /\ \A p \in Procs : wpid'[p] = wpid[p]
                               => WaitedFor(p, wpid[p])' = WaitedFor(p, wpid[p])
<1>1. TypeOK'
    BY Zenon DEF LifeInv, TypeOK, Quiet
<1>2. Live' = Live /\ Zombies' = Zombies
    BY Zenon DEF Quiet, Live, Zombies
<1>3. PidInv' /\ TreeExact' /\ NotOwnParent' /\ ReapListExact'
    BY <1>2, SMTT(30) DEF LifeInv, PidInv, PidsExact, TreeExact, NotOwnParent, ReapListExact, Quiet
<1>4. SpaceInv'
    BY Zenon DEF LifeInv, SpaceInv, SpacesExact, Quiet
<1>5. \A p \in Procs : wpid'[p] = wpid[p]
                       => WaitedFor(p, wpid[p])' = WaitedFor(p, wpid[p])
    BY Zenon DEF WaitedFor, Quiet
<1> QED
    BY <1>1, <1>2, <1>3, <1>4, <1>5, Zenon

\* sched_join keeps it, both when it reaps at once and when it sleeps.
LEMMA JoinKeeps ==
    ASSUME LifeInv, NEW p \in Procs, NEW t \in PCBs, sched_join(p, t)
    PROVE  LifeInv'
<1>1. /\ TypeOK /\ PidInv /\ ReapListExact /\ HandleInv /\ JoinInv /\ WaitInv
      /\ t \in Procs /\ NULL \notin Procs
    BY ProcAssumption, Zenon DEF LifeInv, Procs
<1>2. /\ p \in Live /\ p \notin blocked /\ wpid[p] = 0
      /\ joins[p] = t \/ (joins[p] = NULL /\ handle[t] = p)
      /\ handle' = [handle EXCEPT ![t] = NULL] /\ reap_list' = reap_list /\ wpid' = wpid
    BY ZenonT(60) DEF sched_join
<1>3. Joinable(t) /\ \A q \in Procs : joins[q] = t => q = p
    BY <1>1, <1>2, Zenon DEF JoinInv, HandleInv
<1>4. CASE state[t] = "ZOMBIE"
  <2>1. t \in Zombies /\ reap(t) /\ joins' = [joins EXCEPT ![p] = NULL] /\ blocked' = blocked
    BY <1>3, <1>4, Zenon DEF sched_join, Zombies, Joinable
  <2>2. reap_list' = reap_list \ {t}
    BY <1>1, <1>2, <1>3, Zenon DEF ReapListExact, Joinable
  <2>3. handle' = [u \in Procs |-> IF u = t THEN NULL ELSE handle[u]]
    BY <1>1, <1>2, Zenon DEF TypeOK
  <2>4. joins' = [q \in Procs |-> IF joins[q] = t THEN NULL ELSE joins[q]]
    BY <1>1, <1>2, <1>3, <2>1, ZenonT(60) DEF TypeOK
  <2>5. /\ wpid' \in [Procs -> Pids \cup {-1}]
        /\ \A q \in Procs : wpid'[q] \in {0, wpid[q]}
        /\ \A q \in Procs : t \notin WaitedFor(q, wpid[q])
    BY <1>1, <1>2, <1>3, SMTT(30) DEF TypeOK, WaitedFor, Joinable
  <2> QED
    BY <2>1, <2>2, <2>3, <2>4, <2>5, ReapKeeps, ZenonT(60)
<1>5. CASE state[t] # "ZOMBIE"
  <2>1. /\ joins' = [joins EXCEPT ![p] = t] /\ blocked' = blocked \cup {p}
        /\ detached' = detached /\ Quiet
    BY <1>2, <1>5, Zenon DEF sched_join, Quiet
  <2>2. /\ TypeOK' /\ PidInv' /\ TreeExact' /\ NotOwnParent' /\ SpaceInv' /\ ReapListExact'
        /\ Live' = Live /\ Zombies' = Zombies
        /\ \A q \in Procs : wpid'[q] = wpid[q]
                            => WaitedFor(q, wpid[q])' = WaitedFor(q, wpid[q])
    <3>1. /\ detached' \in SUBSET Procs /\ handle' \in [Procs -> Procs \cup {NULL}]
          /\ wpid' \in [Procs -> Pids \cup {-1}] /\ joins' \in [Procs -> Procs \cup {NULL}]
          /\ blocked' \in SUBSET Procs
        BY <1>1, <1>2, <2>1, SMTT(30) DEF TypeOK
    <3> QED
        BY <3>1, <2>1, QuietKeeps, Zenon
  <2>3. /\ joins'[p] = t /\ \A q \in Procs : q # p => joins'[q] = joins[q]
        /\ handle'[t] = NULL /\ \A u \in Procs : u # t => handle'[u] = handle[u]
    BY <1>1, <1>2, <2>1, Zenon DEF TypeOK
  <2>4. \A u \in Procs : Joinable(u)' <=> Joinable(u)
    BY <2>1, SMTT(30) DEF Joinable, Quiet
  <2>5. HandleInv'
    BY <1>1, <2>2, <2>3, <2>4, SMTT(30) DEF HandleInv
  <2>6. JoinInv'
    <3>1. state[t] = "LIVE" /\ state' = state
        BY <1>1, <1>5, <2>1, SMTT(30) DEF TypeOK, Quiet
    <3>2. ASSUME NEW q \in Procs, joins'[q] # NULL
          PROVE  /\ q \in Live' /\ wpid'[q] = 0 /\ Joinable(joins[q])'
                 /\ q \in blocked' => state'[joins'[q]] = "LIVE"
      <4>1. CASE q = p
        BY <4>1, <3>1, <1>1, <1>2, <1>3, <2>2, <2>3, <2>1, SMTT(30) DEF Joinable, Quiet
      <4>2. CASE q # p
        <5>1. /\ q \in Live /\ wpid[q] = 0 /\ Joinable(joins[q]) /\ joins'[q] = joins[q]
              /\ q \in blocked => state[joins[q]] = "LIVE"
            BY <4>2, <3>2, <1>1, <2>3, ZenonT(60) DEF JoinInv
        <5> QED
            BY <5>1, <4>2, <3>1, <1>2, <2>1, <2>2 DEF Joinable, Quiet
      <4> QED
        BY <4>1, <4>2, Zenon
    <3>3. ASSUME NEW q \in Procs, NEW r \in Procs, joins'[q] = joins'[r], joins'[q] # NULL
          PROVE  q = r
      <4>1. \A u \in Procs : joins'[u] = t => u = p
        BY <1>3, <2>3, Zenon
      <4>2. CASE joins'[q] = t
        BY <4>1, <4>2, <3>3, Zenon
      <4>3. CASE joins'[q] # t
        <5>1. joins'[q] = joins[q] /\ joins'[r] = joins[r]
            BY <4>3, <3>3, <2>3, Zenon
        <5>2. \A u, v \in Procs : joins[u] = joins[v] /\ joins[u] # NULL => u = v
            BY <1>1, Zenon DEF JoinInv
        <5> QED
            BY <5>1, <5>2, <3>3, Zenon
      <4> QED
        BY <4>2, <4>3, Zenon
    <3> QED
        BY <3>2, <3>3, Zenon DEF JoinInv
  <2>7. WaitInv'
    <3>1. \A q \in Procs : wpid[q] # 0 => (q \in blocked' <=> q \in blocked)
        BY <1>2, <2>1, Zenon
    <3> QED
        BY <3>1, <1>1, <1>2, <2>1, <2>2, Zenon DEF WaitInv
  <2> QED
    BY <2>2, <2>5, <2>6, <2>7, SMTT(30) DEF LifeInv
<1> QED
    BY <1>4, <1>5, Zenon

\* sched_detach keeps it, also of a thread that has exited.
LEMMA DetachKeeps ==
    ASSUME LifeInv, NEW p \in Procs, NEW t \in PCBs, sched_detach(p, t)
    PROVE  LifeInv'
<1>1. /\ TypeOK /\ ReapListExact /\ HandleInv /\ JoinInv /\ WaitInv
      /\ t \in Procs /\ NULL \notin Procs
    BY ProcAssumption, Zenon DEF LifeInv, Procs
<1>2. /\ handle[t] = p /\ handle' = [handle EXCEPT ![t] = NULL]
      /\ UNCHANGED <<reap_list, wpid, joins, blocked>>
    BY Zenon DEF sched_detach
<1>3. Joinable(t) /\ \A q \in Procs : joins[q] # t
    BY <1>1, <1>2, Zenon DEF HandleInv
<1>4. CASE state[t] = "ZOMBIE"
  <2>1. t \in Zombies /\ reap(t)
    BY <1>3, <1>4, Zenon DEF sched_detach, Zombies, Joinable
  <2>2. reap_list' = reap_list \ {t}
    BY <1>1, <1>2, <1>3, Zenon DEF ReapListExact, Joinable
  <2>3. /\ handle' = [u \in Procs |-> IF u = t THEN NULL ELSE handle[u]]
        /\ joins' = [q \in Procs |-> IF joins[q] = t THEN NULL ELSE joins[q]]
    BY <1>1, <1>2, <1>3, ZenonT(60) DEF TypeOK
  <2>4. /\ wpid' \in [Procs -> Pids \cup {-1}]
        /\ \A q \in Procs : wpid'[q] \in {0, wpid[q]}
        /\ \A q \in Procs : t \notin WaitedFor(q, wpid[q])
    BY <1>1, <1>2, <1>3, SMTT(30) DEF TypeOK, WaitedFor, Joinable
  <2> QED
    BY <2>1, <2>2, <2>3, <2>4, <1>2, ReapKeeps, SMTT(30)
<1>5. CASE state[t] # "ZOMBIE"
  <2>1. detached' = detached \cup {t} /\ Quiet
    BY <1>2, <1>5, SMTT(30) DEF sched_detach, Quiet
  <2>2. /\ TypeOK' /\ PidInv' /\ TreeExact' /\ NotOwnParent' /\ SpaceInv' /\ ReapListExact'
        /\ Live' = Live /\ Zombies' = Zombies
        /\ \A q \in Procs : wpid'[q] = wpid[q]
                            => WaitedFor(q, wpid[q])' = WaitedFor(q, wpid[q])
    <3>1. /\ detached' \in SUBSET Procs /\ handle' \in [Procs -> Procs \cup {NULL}]
          /\ wpid' \in [Procs -> Pids \cup {-1}] /\ joins' \in [Procs -> Procs \cup {NULL}]
          /\ blocked' \in SUBSET Procs
        BY <1>1, <1>2, <2>1, Zenon DEF TypeOK
    <3>2. Zombies \cap detached' = Zombies \cap detached
        BY <1>5, <2>1, Zenon DEF Zombies
    <3> QED
        BY <3>1, <3>2, <2>1, QuietKeeps, SMTT(30)
  <2>3. handle'[t] = NULL /\ \A u \in Procs : u # t => handle'[u] = handle[u]
    BY <1>1, <1>2, Zenon DEF TypeOK
  <2>4. \A u \in Procs : u # t => (Joinable(u)' <=> Joinable(u))
    BY <2>1, SMTT(30) DEF Joinable, Quiet
  <2>5. HandleInv'
    BY <1>1, <1>2, <2>2, <2>3, <2>4 DEF HandleInv
  <2>6. JoinInv'
    <3>1. \A q \in Procs : joins[q] # NULL => joins[q] \in Procs /\ joins[q] # t
        BY <1>1, <1>3, SMTT(30) DEF TypeOK
    <3>2. \A q \in Procs : joins[q] # NULL => (Joinable(joins[q])' <=> Joinable(joins[q]))
        BY <3>1, <1>2, <2>1, SMTT(30) DEF Joinable, Quiet
    <3> QED
        BY <3>2, <1>1, <1>2, <2>1, <2>2, ZenonT(60) DEF JoinInv, Quiet
  <2>7. WaitInv'
    <3>1. \A q \in Procs : t \notin WaitedFor(q, wpid[q])
        BY <1>3, SMTT(30) DEF WaitedFor, Joinable
    <3> QED
        BY <3>1, <1>1, <1>2, <2>1, <2>2 DEF WaitInv
  <2> QED
    BY <2>2, <2>5, <2>6, <2>7, Zenon DEF LifeInv
<1> QED
    BY <1>4, <1>5, Zenon

\* sys_waitpid keeps it, if its caller waits for no clone thread.
LEMMA WaitpidKeeps ==
    ASSUME LifeInv, WaitersAvoidThreads, NEW p \in Procs,
           NEW w \in {-1} \cup 2..(PidMax - 1), sys_waitpid(p, w)
    PROVE  LifeInv'
<1>1. /\ TypeOK /\ PidInv /\ ReapListExact /\ HandleInv /\ JoinInv /\ WaitInv
      /\ w # 0 /\ w \in Pids \cup {-1} /\ 0 \in Pids /\ NULL \notin Procs
    BY ProcAssumption DEF LifeInv, Pids
<1>2. /\ p \in Live /\ p \notin blocked /\ joins[p] = NULL
      /\ IF wpid[p] = 0 THEN MayWait(p, w) ELSE wpid[p] = w
      /\ UNCHANGED <<reap_list, handle, joins>>
    BY Zenon DEF sys_waitpid
<1>3. WaitedFor(p, w) \cap detached = {} /\ (p = Init_pcb => w # -1)
  <2>1. CASE wpid[p] = 0
    BY <2>1, <1>2, Zenon DEF MayWait
  <2>2. CASE wpid[p] # 0
    BY <2>2, <1>1, <1>2, ZenonT(60) DEF WaitInv
  <2> QED
    BY <2>1, <2>2, Zenon
<1>4. CASE \E z \in WaitedFor(p, w) \cap Zombies :
              reap(z) /\ wpid' = [wpid EXCEPT ![p] = 0] /\ UNCHANGED blocked
  <2>1. PICK z \in WaitedFor(p, w) \cap Zombies :
              reap(z) /\ wpid' = [wpid EXCEPT ![p] = 0] /\ UNCHANGED blocked
    BY <1>4, SMTT(30)
  <2>2. /\ z \in table /\ z \in is_user /\ z \notin detached /\ z \in Procs
        /\ parent_pid[z] = pid[p]
    BY <2>1, <1>1, <1>3, SMTT(30) DEF WaitedFor, TypeOK
  <2>3. reap_list' = reap_list \ {z}
    BY <2>2, <1>1, <1>2, Zenon DEF ReapListExact
  <2>4. handle[z] = NULL /\ \A q \in Procs : joins[q] # z
    BY <2>2, <1>1, ZenonT(60) DEF HandleInv, JoinInv, Joinable
  <2>5. /\ handle' = [u \in Procs |-> IF u = z THEN NULL ELSE handle[u]]
        /\ joins' = [q \in Procs |-> IF joins[q] = z THEN NULL ELSE joins[q]]
    BY <2>2, <2>4, <1>1, <1>2, SMTT(30) DEF TypeOK
  <2>6. /\ wpid' \in [Procs -> Pids \cup {-1}]
        /\ \A q \in Procs : wpid'[q] \in {0, wpid[q]}
    BY <2>1, <1>1, SMTT(30) DEF TypeOK
  <2>7. ASSUME NEW q \in Procs, wpid[q] # 0, z \in WaitedFor(q, wpid[q])
        PROVE  wpid'[q] = 0
    <3>1. pid[q] = pid[p] /\ q \in table /\ p \in table
        BY <2>2, <2>7, <1>1, <1>2, SMTT(30) DEF WaitedFor, WaitInv, Live
    <3>2. q = p
        BY <3>1, <1>1, Zenon DEF PidInv, PidsExact
    <3> QED
        BY <3>2, <2>1, <1>1, SMTT(30) DEF TypeOK
  <2> QED
    BY <2>1, <2>3, <2>5, <2>6, <2>7, ReapKeeps, Zenon
<1>5. ASSUME NEW v \in {0, w}, wpid' = [wpid EXCEPT ![p] = v],
             blocked' = IF v = 0 THEN blocked ELSE blocked \cup {p},
             v # 0 => WaitedFor(p, w) # {} /\ WaitedFor(p, w) \cap Zombies = {},
             detached' = detached, Quiet
      PROVE  LifeInv'
  <2>1. /\ TypeOK' /\ PidInv' /\ TreeExact' /\ NotOwnParent' /\ SpaceInv' /\ ReapListExact'
        /\ Live' = Live /\ Zombies' = Zombies
        /\ \A q \in Procs : wpid'[q] = wpid[q]
                            => WaitedFor(q, wpid[q])' = WaitedFor(q, wpid[q])
    <3>1. /\ detached' \in SUBSET Procs /\ handle' \in [Procs -> Procs \cup {NULL}]
          /\ wpid' \in [Procs -> Pids \cup {-1}] /\ joins' \in [Procs -> Procs \cup {NULL}]
          /\ blocked' \in SUBSET Procs
        BY <1>1, <1>2, <1>5, SMTT(30) DEF TypeOK
    <3> QED
        BY <3>1, <1>5, QuietKeeps, SMTT(30)
  <2>2. wpid'[p] = v /\ \A q \in Procs : q # p => wpid'[q] = wpid[q]
                                                  /\ (q \in blocked' <=> q \in blocked)
    BY <1>1, <1>5, Zenon DEF TypeOK
  <2>3. \A u : Joinable(u)' <=> Joinable(u)
    BY <1>5, SMTT(30) DEF Joinable, Quiet
  <2>4. HandleInv'
    BY <1>1, <1>2, <2>1, <2>3, Zenon DEF HandleInv
  <2>5. JoinInv'
    <3>1. state' = state /\ joins' = joins
        BY <1>2, <1>5, Zenon DEF Quiet
    <3>2. \A q \in Procs : joins[q] # NULL => q # p
        BY <1>2, Zenon
    <3>3. \A q \in Procs : Joinable(joins[q])' <=> Joinable(joins[q])
        BY <3>1, <1>5, Zenon DEF Joinable, Quiet
    <3> QED
        BY <3>1, <3>2, <3>3, <1>1, <2>1, <2>2, ZenonT(60) DEF JoinInv
  <2>6. WaitInv'
    <3>1. ASSUME v # 0
          PROVE  WaitedFor(p, wpid[p])' = WaitedFor(p, w)
        BY <3>1, <2>2, <1>5, ZenonT(60) DEF WaitedFor, Quiet
    <3>2. v # 0 => /\ WaitedFor(p, wpid[p])' # {}
                   /\ WaitedFor(p, wpid[p])' \cap detached' = {}
                   /\ WaitedFor(p, wpid[p])' \cap Zombies' = {}
        BY <3>1, <1>3, <1>5, <2>1, SMTT(30)
    <3>3. ASSUME NEW q \in Procs, q # p, wpid'[q] # 0
          PROVE  /\ q \in Live' /\ (q = Init_pcb => wpid'[q] # -1)
                 /\ WaitedFor(q, wpid[q])' # {}
                 /\ WaitedFor(q, wpid[q])' \cap detached' = {}
                 /\ q \in blocked' => WaitedFor(q, wpid[q])' \cap Zombies' = {}
        BY <3>3, <1>1, <1>5, <2>1, <2>2, SMTT(30) DEF WaitInv
    <3> QED
        BY <3>2, <3>3, <1>2, <1>3, <2>1, <2>2, ZenonT(60) DEF WaitInv
  <2> QED
    BY <2>1, <2>4, <2>5, <2>6, ZenonT(60) DEF LifeInv
<1>6. CASE /\ WaitedFor(p, w) = {}
           /\ wpid' = [wpid EXCEPT ![p] = 0]
           /\ UNCHANGED <<table, pid, parent_pid, state, is_user, detached, aspace, children,
                          pid_bitmap, pid_cursor, refcount, blocked>>
    BY <1>2, <1>5, <1>6, SMTT(30) DEF Quiet
<1>7. CASE /\ WaitedFor(p, w) # {} /\ WaitedFor(p, w) \cap Zombies = {}
           /\ wpid' = [wpid EXCEPT ![p] = w]
           /\ blocked' = blocked \cup {p}
           /\ UNCHANGED <<table, pid, parent_pid, state, is_user, detached, aspace, children,
                          pid_bitmap, pid_cursor, refcount>>
    BY <1>1, <1>2, <1>5, <1>7, SMTT(30) DEF Quiet
<1> QED
    BY <1>4, <1>6, <1>7, Zenon DEF sys_waitpid

\* The idle thread's reaping keeps it.
LEMMA IdleReapKeeps == ASSUME LifeInv, sched_reap_detached PROVE LifeInv'
<1>1. PICK t \in reap_list : /\ reap_list' = reap_list \ {t} /\ reap(t)
                             /\ UNCHANGED <<handle, wpid, joins, blocked>>
    BY Zenon DEF sched_reap_detached
<1>2. TypeOK /\ ReapListExact /\ HandleInv /\ JoinInv /\ WaitInv /\ NULL \notin Procs
    BY ProcAssumption, Zenon DEF LifeInv
<1>3. t \in Zombies /\ t \in detached /\ t \in Procs
    BY <1>1, <1>2, Zenon DEF ReapListExact, TypeOK
<1>4. handle[t] = NULL /\ \A q \in Procs : joins[q] # t
    BY <1>2, <1>3, Zenon DEF HandleInv, JoinInv, Joinable
<1>5. /\ handle' = [u \in Procs |-> IF u = t THEN NULL ELSE handle[u]]
      /\ joins' = [q \in Procs |-> IF joins[q] = t THEN NULL ELSE joins[q]]
    BY <1>1, <1>2, <1>3, <1>4, SMTT(30) DEF TypeOK
<1>6. /\ wpid' \in [Procs -> Pids \cup {-1}]
      /\ \A q \in Procs : wpid'[q] \in {0, wpid[q]}
      /\ \A q \in Procs : wpid[q] # 0 => t \notin WaitedFor(q, wpid[q])
    BY <1>1, <1>2, <1>3, Zenon DEF TypeOK, WaitInv
<1> QED
    BY <1>1, <1>3, <1>5, <1>6, ReapKeeps, Zenon

\* A step that only takes processes out of BLOCKED, or no step at all.
LEMMA WakeKeeps ==
    ASSUME LifeInv, Quiet, UNCHANGED <<detached, handle, wpid, joins>>, blocked' \subseteq blocked
    PROVE  LifeInv'
<1>1. TypeOK /\ HandleInv /\ JoinInv /\ WaitInv
    BY Zenon DEF LifeInv
<1>2. /\ TypeOK' /\ PidInv' /\ TreeExact' /\ NotOwnParent' /\ SpaceInv' /\ ReapListExact'
      /\ Live' = Live /\ Zombies' = Zombies
      /\ \A q \in Procs : wpid'[q] = wpid[q]
                          => WaitedFor(q, wpid[q])' = WaitedFor(q, wpid[q])
  <2>1. /\ detached' \in SUBSET Procs /\ handle' \in [Procs -> Procs \cup {NULL}]
        /\ wpid' \in [Procs -> Pids \cup {-1}] /\ joins' \in [Procs -> Procs \cup {NULL}]
        /\ blocked' \in SUBSET Procs
    BY <1>1, SMTT(30) DEF TypeOK
  <2> QED
    BY <2>1, QuietKeeps, Zenon
<1>3. HandleInv' /\ JoinInv'
  <2>1. /\ handle' = handle /\ joins' = joins /\ wpid' = wpid /\ detached' = detached
        /\ table' = table /\ is_user' = is_user /\ state' = state
    BY DEF Quiet
  <2> QED
    BY <1>1, <1>2, <2>1, Zenon DEF HandleInv, JoinInv, Joinable
<1>4. WaitInv'
    BY <1>1, <1>2, Zenon DEF WaitInv
<1> QED
    BY <1>2, <1>3, <1>4, Zenon DEF LifeInv

\* The state with the idle thread and init alone satisfies it.
LEMMA LifeInvInit == Init => LifeInv
<1> SUFFICES ASSUME Init PROVE LifeInv
    BY Zenon
<1>1. Init_pcb \in Procs /\ 0 \in Pids /\ 1 \in Pids /\ pid[Init_pcb] = 1
    BY ProcAssumption DEF Init, Procs, Pids
<1>2. TypeOK
    BY <1>1, ProcAssumption DEF Init, TypeOK, Pids
<1>3. Live = {Init_pcb} /\ Zombies = {}
    BY <1>1, SMTT(30) DEF Init, Live, Zombies
<1>4. PidInv /\ TreeExact /\ NotOwnParent /\ ReapListExact
    BY <1>1, <1>3 DEF Init, PidInv, PidsExact, TreeExact, NotOwnParent, ReapListExact
<1>5. SpaceInv
  <2>1. \A s \in Spaces : {p \in table : aspace[p] = s} = {}
    BY <1>1, ProcAssumption, Zenon DEF Init
  <2> QED
    BY <2>1, FS_EmptySet, Zenon DEF Init, SpaceInv, SpacesExact
<1>6. HandleInv /\ JoinInv /\ WaitInv
    BY <1>1, Zenon DEF Init, HandleInv, JoinInv, WaitInv
<1> QED
    BY <1>2, <1>4, <1>5, <1>6, Zenon DEF LifeInv

\* Every step keeps the invariant.
LEMMA LifeInvNext == ASSUME LifeInv, WaitersAvoidThreads, [Next]_vars PROVE LifeInv'
<1>1. ASSUME NEW p \in Procs, NEW t \in PCBs,
             \/ \E d \in BOOLEAN : pthread_create(p, t, d)
             \/ \E s \in Spaces : spawn_user_core(p, t, s) \/ proc_fork(p, t, s)
             \/ proc_clone(p, t)
      PROVE  LifeInv'
    BY <1>1, CreationKeeps, Zenon
<1>2. ASSUME NEW p \in Procs, NEW t \in PCBs, sched_join(p, t) \/ sched_detach(p, t)
      PROVE  LifeInv'
    BY <1>2, JoinKeeps, DetachKeeps, Zenon
<1>3. ASSUME NEW p \in Procs, \E s \in Spaces : proc_execve(p, s)
      PROVE  LifeInv'
    BY <1>3, ExecveKeeps, Zenon
<1>4. ASSUME NEW p \in Procs, thread_exit(p)
      PROVE  LifeInv'
    BY <1>4, ExitKeeps, Zenon
<1>5. ASSUME NEW p \in Procs, \E w \in {-1} \cup 2..(PidMax - 1) : sys_waitpid(p, w)
      PROVE  LifeInv'
    BY <1>5, WaitpidKeeps, Zenon
<1>6. ASSUME NEW p \in Procs, Interrupt(p)
      PROVE  LifeInv'
    BY <1>6, WakeKeeps, Zenon DEF Interrupt, Quiet
<1>7. CASE sched_reap_detached
    BY <1>7, IdleReapKeeps, Zenon
<1>8. CASE UNCHANGED vars
    BY <1>8, WakeKeeps, Zenon DEF vars, Quiet
<1> QED
    BY <1>1, <1>2, <1>3, <1>4, <1>5, <1>6, <1>7, <1>8, Zenon DEF Next

\* The invariant implies the properties of the process table, tree, reap list and sleepers.
LEMMA LifeInvEnough == LifeInv => TablesExact /\ TreeExact /\ ReapListExact /\ SleepersSafe
<1> SUFFICES ASSUME LifeInv PROVE TablesExact /\ TreeExact /\ ReapListExact /\ SleepersSafe
    BY Zenon
<1>1. TablesExact /\ TreeExact /\ ReapListExact
    BY Zenon DEF LifeInv, TablesExact, PidInv, SpaceInv
<1>2. Live \subseteq Procs
    BY Zenon DEF LifeInv, TypeOK, Live
<1>3. JoinersSafe
    BY <1>2, Zenon DEF LifeInv, JoinInv, JoinersSafe, Joinable
<1>4. WaitersHaveChild
    BY <1>2, Zenon DEF LifeInv, WaitInv, WaitersHaveChild
<1> QED
    BY <1>1, <1>3, <1>4, Zenon DEF SleepersSafe

-----------------------------------------------------------------------------
(* Theorems *)

\* The invariant holds in every reachable state.
LEMMA LifeInvAlways == WaitersAvoidThreads => (Spec => []LifeInv)
<1> SUFFICES ASSUME WaitersAvoidThreads PROVE Spec => []LifeInv
    BY Zenon
<1>1. LifeInv /\ [Next]_vars => LifeInv'
    BY LifeInvNext, Zenon
<1> QED
    BY <1>1, LifeInvInit, PTL DEF Spec

\* However creation, execve, exit, join, detach, waitpid and the idle reaper
\* interleave, the PID bitmap holds the PIDs of the table, each of one process,
\* and every address space counts the processes that run in it (pid_alloc,
\* reap, proc_clone, proc_execve).
THEOREM TablesStayExact == WaitersAvoidThreads => (Spec => []TablesExact)
<1> SUFFICES ASSUME WaitersAvoidThreads PROVE Spec => []TablesExact
    BY Zenon
<1>1. LifeInv => TablesExact
    BY LifeInvEnough, Zenon
<1>2. Spec => []LifeInv
    BY LifeInvAlways, Zenon
<1> QED
    BY <1>1, <1>2, PTL

\* The children lists hold exactly the live children and every live process but
\* init hangs under a live one (proc_reparent_orphans, proc_remove_child).
THEOREM TreeStaysExact == WaitersAvoidThreads => (Spec => []TreeExact)
<1> SUFFICES ASSUME WaitersAvoidThreads PROVE Spec => []TreeExact
    BY Zenon
<1>1. LifeInv => TreeExact
    BY LifeInvEnough, Zenon
<1>2. Spec => []LifeInv
    BY LifeInvAlways, Zenon
<1> QED
    BY <1>1, <1>2, PTL

\* The idle thread's list holds the detached threads that have exited and
\* nothing else (thread_exit, sched_reap_detached, sys_waitpid).
THEOREM ReapListStaysExact == WaitersAvoidThreads => (Spec => []ReapListExact)
<1> SUFFICES ASSUME WaitersAvoidThreads PROVE Spec => []ReapListExact
    BY Zenon
<1>1. LifeInv => ReapListExact
    BY LifeInvEnough, Zenon
<1>2. Spec => []LifeInv
    BY LifeInvAlways, Zenon
<1> QED
    BY <1>1, <1>2, PTL

\* A joiner sleeps only while its thread runs, and a parent in waitpid only
\* while it has a running child to wait for and no zombie (thread_exit,
\* sched_join, sys_waitpid).
THEOREM SleepersStaySafe == WaitersAvoidThreads => (Spec => []SleepersSafe)
<1> SUFFICES ASSUME WaitersAvoidThreads PROVE Spec => []SleepersSafe
    BY Zenon
<1>1. LifeInv => SleepersSafe
    BY LifeInvEnough, Zenon
<1>2. Spec => []LifeInv
    BY LifeInvAlways, Zenon
<1> QED
    BY <1>1, <1>2, PTL

-----------------------------------------------------------------------------
(* The disk *)

CONSTANTS CAPACITY, MAXCOUNT, IDX, LATE, NIL
VARIABLES hdr, status, avail, used, last_used, taken, call, result, done, givenup

Disk == INSTANCE VirtioBlk WITH NULL <- NIL

Headers == [sector : Nat, count : Nat, type : {"in", "out"}]
Results == [ok : BOOLEAN, done : BOOLEAN]

\* The size of the ring indices; and the device lets a request be that was given up.
DiskFits ==
    /\ IDX \in Nat /\ IDX > 1 /\ CAPACITY \in Nat /\ MAXCOUNT \in Nat
    /\ NIL \notin Headers /\ NIL \notin Results /\ ~LATE

DiskTyped ==
    /\ status \in {0, 1, Disk!UNSET} /\ givenup \in BOOLEAN /\ done \in BOOLEAN
    /\ avail \in 0..(IDX - 1) /\ used \in 0..(IDX - 1) /\ last_used \in 0..(IDX - 1)
    /\ hdr \in Headers \cup {NIL} /\ result \in Results \cup {NIL}

\* Between two requests nothing is with the device; during one either the device has it, whole,
\* or it has been answered and the status byte is the answer.  After a request was given up the
\* used ring stands still, so that no later one can succeed.
DiskIdle == call = NIL /\ taken = NIL /\ avail = used /\ used = last_used
DiskAsked == call # NIL /\ call = hdr /\ taken \in {NIL, hdr} /\ used = last_used /\ avail = (used + 1) % IDX
DiskAnswered == call # NIL /\ call = hdr /\ taken = NIL /\ used # last_used /\ avail = used /\ (status = 0 => done)
DiskStopped == givenup /\ used = last_used

DiskInv == DiskTyped /\ Disk!SuccessIsDone /\ (DiskIdle \/ DiskAsked \/ DiskAnswered \/ DiskStopped)

\* The driver's half of a request.
LEMMA RequestSound ==
    ASSUME DiskFits, DiskInv, NEW s \in 0..CAPACITY, NEW n \in 1..MAXCOUNT, NEW t \in {"in", "out"},
           Disk!vblk_rw(s, n, t)
    PROVE  DiskInv'
<1>1. hdr' \in Headers /\ hdr'.sector + hdr'.count <= CAPACITY
  BY DEF DiskFits, Headers, Disk!vblk_rw, Disk!InRange
<1>2. hdr' # NIL
  BY <1>1, Zenon DEF DiskFits
<1>3. (avail + 1) % IDX \in 0..(IDX - 1)
  BY DEF DiskFits, DiskInv, DiskTyped
<1>4. DiskTyped'
  BY <1>1, <1>3, Zenon DEF DiskInv, DiskTyped, Disk!vblk_rw, Disk!UNSET
<1>5. Disk!SuccessIsDone'
  BY <1>1, Zenon DEF Disk!SuccessIsDone, Disk!vblk_rw
<1>6. CASE DiskIdle
  BY <1>2, <1>4, <1>5, <1>6, Zenon DEF DiskIdle, DiskAsked, DiskInv, Disk!vblk_rw
<1>7. CASE DiskStopped
  BY <1>4, <1>5, <1>7, Zenon DEF DiskStopped, DiskInv, Disk!vblk_rw
<1> QED
  BY <1>6, <1>7, Zenon DEF DiskInv, DiskAsked, DiskAnswered, Disk!vblk_rw

\* Its end, by an answer or by giving up.
LEMMA PollSound ==
    ASSUME DiskFits, DiskInv, Disk!Poll \/ Disk!GiveUp
    PROVE  DiskInv'
<1>1. CASE Disk!Poll
  <2>1. DiskAnswered /\ (status = 0 => done)
    BY <1>1, Zenon DEF DiskInv, DiskIdle, DiskAsked, DiskAnswered, DiskStopped, Disk!Poll
  <2>2. result' \in Results /\ (result'.ok => result'.done)
    BY <1>1, <2>1 DEF DiskInv, DiskTyped, Results, Disk!Poll
  <2>3. DiskTyped' /\ Disk!SuccessIsDone'
    BY <1>1, <2>2, Zenon DEF DiskInv, DiskTyped, Disk!SuccessIsDone, Disk!Poll
  <2> QED
    BY <1>1, <2>1, <2>3, Zenon DEF DiskInv, DiskIdle, DiskAnswered, Disk!Poll
<1>2. CASE Disk!GiveUp
  <2>1. result' \in Results /\ ~result'.ok
    BY <1>2 DEF DiskInv, DiskTyped, Results, Disk!GiveUp
  <2>2. DiskTyped' /\ Disk!SuccessIsDone'
    BY <1>2, <2>1, Zenon DEF DiskInv, DiskTyped, Disk!SuccessIsDone, Disk!GiveUp
  <2> QED
    BY <1>2, <2>2, Zenon DEF DiskInv, DiskStopped, Disk!GiveUp
<1> QED
  BY <1>1, <1>2, Zenon

\* The device takes and answers a request.
LEMMA DeviceSound ==
    ASSUME DiskFits, DiskInv, Disk!DeviceTakes \/ Disk!DeviceAnswers
    PROVE  DiskInv'
<1>1. CASE Disk!DeviceTakes
  <2>1. DiskAsked
    BY <1>1, Zenon DEF DiskInv, DiskFits, DiskIdle, DiskAsked, DiskAnswered, DiskStopped, Disk!DeviceTakes
  <2> QED
    BY <1>1, <2>1, Zenon DEF DiskInv, DiskTyped, DiskAsked, Disk!SuccessIsDone, Disk!DeviceTakes
<1>2. CASE Disk!DeviceAnswers
  <2>1. DiskAsked /\ taken = call
    BY <1>2, Zenon DEF DiskInv, DiskFits, DiskIdle, DiskAsked, DiskAnswered, DiskStopped, Disk!DeviceAnswers
  <2>2. (used + 1) % IDX \in 0..(IDX - 1) /\ (used + 1) % IDX # used
    BY DEF DiskFits, DiskInv, DiskTyped
  <2>3. DiskTyped'
    BY <1>2, <2>2, Zenon DEF DiskInv, DiskTyped, Disk!DeviceAnswers
  <2>4. (status' = 0 => done')
    BY <1>2, <2>1, Zenon DEF Disk!DeviceAnswers
  <2>5. Disk!SuccessIsDone'
    BY <1>2, Zenon DEF DiskInv, Disk!SuccessIsDone, Disk!DeviceAnswers
  <2> QED
    BY <1>2, <2>1, <2>2, <2>3, <2>4, <2>5, Zenon DEF DiskInv, DiskAsked, DiskAnswered, Disk!DeviceAnswers
<1> QED
  BY <1>1, <1>2, Zenon

\* A request that reports success has been carried out by the device, and every request is
\* inside the disk, for ring indices of any width, however often they wrap, as long as the
\* device does not answer what was given up (vblk_rw).
THEOREM DiskSound ==
    ASSUME DiskFits
    PROVE  Disk!VblkSpec => [](Disk!TypeOK /\ Disk!SuccessIsDone)
<1>1. Disk!VblkInit => DiskInv
  <2> SUFFICES ASSUME Disk!VblkInit
               PROVE  DiskInv
    OBVIOUS
  <2>1. 0 \in 0..(IDX - 1)
    BY DEF DiskFits
  <2> QED
    BY <2>1, Zenon DEF Disk!VblkInit, DiskInv, DiskTyped, Disk!SuccessIsDone, DiskIdle
<1>2. DiskInv /\ [Disk!VblkNext]_Disk!vblk_vars => DiskInv'
  <2> SUFFICES ASSUME DiskInv, [Disk!VblkNext]_Disk!vblk_vars
               PROVE  DiskInv'
    OBVIOUS
  <2>1. CASE UNCHANGED Disk!vblk_vars
    BY <2>1, Zenon DEF Disk!vblk_vars, DiskInv, DiskTyped, Disk!SuccessIsDone, DiskIdle, DiskAsked, DiskAnswered,
       DiskStopped
  <2> QED
    BY <2>1, RequestSound, PollSound, DeviceSound, Zenon DEF Disk!VblkNext
<1>3. DiskInv => Disk!TypeOK /\ Disk!SuccessIsDone
  BY Zenon DEF DiskInv, DiskTyped, Disk!TypeOK
<1> QED
  BY <1>1, <1>2, <1>3, PTL DEF Disk!VblkSpec

-----------------------------------------------------------------------------
(* The bytes of a file *)

CONSTANTS Files, Bytes, MAXN, MAXOFF, FIRSTCAP, HEAP
VARIABLES data, cap, size, offset, append, content

File == INSTANCE TmpFile

\* What the proof needs of the constants.
FileFits == MAXN \in Nat /\ MAXOFF \in Nat /\ FIRSTCAP \in Nat \ {0} /\ HEAP \in Nat

\* The first size bytes of the buffer are those of the file.
SameBytes(d, n, q) == n = Len(q) /\ \A i \in 1..n : d[i - 1] = q[i]

FileInv ==
    /\ data \in [File!Cells -> Bytes \cup {0, File!JUNK}] /\ cap \in 0..HEAP /\ size \in 0..cap
    /\ offset \in [Files -> 0..(HEAP + MAXOFF)] /\ content \in Seq(Bytes \cup {0})
    /\ SameBytes(data, size, content)

\* A function on 1..m is a sequence.
LEMMA IsSequence ==
    ASSUME NEW m \in Nat, NEW S, NEW q \in [1..m -> S]
    PROVE  q \in Seq(S) /\ Len(q) = m
OBVIOUS

\* The bytes that are there after a write: the ones before it, zeroes up to it and what is written.
LEMMA BytesWritten ==
    ASSUME NEW at \in Nat, NEW n \in Nat, NEW b, NEW d, NEW s \in Nat, NEW S, 0 \in S, b \in S, NEW q \in Seq(S),
           SameBytes(d, s, q), at + n <= HEAP, s <= HEAP, HEAP \in Nat
    PROVE  /\ File!Overwrite(q, at, n, b) \in Seq(S)
           /\ SameBytes(File!Written(d, s, at, n, b), IF at + n > s THEN at + n ELSE s, File!Overwrite(q, at, n, b))
<1> DEFINE m == IF at + n > s THEN at + n ELSE s
           p == File!Overwrite(q, at, n, b)
           e == File!Written(d, s, at, n, b)
<1>1. s = Len(q) /\ \A i \in 1..s : d[i - 1] = q[i] /\ q[i] \in S
  BY DEF SameBytes
<1>2. m \in Nat /\ m <= HEAP
  OBVIOUS
<1>3. p = [i \in 1..m |-> IF at < i /\ i <= at + n THEN b ELSE IF i <= s THEN q[i] ELSE 0]
  BY <1>1 DEF File!Overwrite
<1>4. p \in [1..m -> S]
  BY <1>1, <1>2, <1>3
<1>5. p \in Seq(S) /\ Len(p) = m
  BY <1>2, <1>4, IsSequence, Zenon
<1>6. \A i \in 1..m : p[i] = IF at < i /\ i <= at + n THEN b ELSE IF i <= s THEN q[i] ELSE 0
  BY <1>3, Zenon
<1>7. \A j \in 0..(HEAP - 1) : e[j] = IF at <= j /\ j < at + n THEN b ELSE IF s <= j /\ j < at THEN 0 ELSE d[j]
  BY Zenon DEF File!Written, File!Cells
<1> HIDE DEF p, e
<1>8. ASSUME NEW i \in 1..m
      PROVE  e[i - 1] = p[i]
  <2>1. i - 1 \in 0..(HEAP - 1)
    BY <1>2
  <2>2. CASE at < i /\ i <= at + n
    BY <1>6, <1>7, <2>1, <2>2
  <2>3. CASE ~(at < i /\ i <= at + n) /\ i <= s
    BY <1>1, <1>6, <1>7, <2>1, <2>3
  <2>4. CASE ~(at < i /\ i <= at + n) /\ ~(i <= s)
    BY <1>6, <1>7, <2>1, <2>4
  <2> QED
    BY <2>2, <2>3, <2>4, Zenon
<1>9. SameBytes(e, m, p)
  BY <1>5, <1>8, Zenon DEF SameBytes
<1> QED
  BY <1>5, <1>9, Zenon DEF p, e

\* A write, also one for which there is no memory.
LEMMA FileWriteSound ==
    ASSUME FileFits, FileInv, NEW f \in Files, NEW n \in 1..MAXN, NEW b \in Bytes, File!vfs_fd_write(f, n, b)
    PROVE  FileInv'
<1> DEFINE at == IF append[f] THEN size ELSE offset[f]
           S == Bytes \cup {0}
<1>1. at \in 0..(HEAP + MAXOFF) /\ size \in 0..cap /\ cap \in 0..HEAP /\ HEAP \in Nat /\ n \in Nat
  BY DEF FileInv, FileFits
<1>2. PICK ncap \in IF at + n > cap THEN File!Doubled(IF cap = 0 THEN FIRSTCAP ELSE cap, at + n) ELSE {cap} :
        IF ncap > HEAP
        THEN offset' = [offset EXCEPT ![f] = at] /\ UNCHANGED <<data, cap, size, append, content>>
        ELSE /\ data' = File!Written(data, size, at, n, b) /\ cap' = ncap
             /\ size' = (IF at + n > size THEN at + n ELSE size)
             /\ offset' = [offset EXCEPT ![f] = at + n]
             /\ content' = File!Overwrite(content, IF append[f] THEN Len(content) ELSE at, n, b)
  BY Zenon DEF File!vfs_fd_write
<1>3. ncap \in Nat /\ at + n <= ncap /\ cap <= ncap
  <2>1. CASE at + n > cap
    <3> DEFINE c == IF cap = 0 THEN FIRSTCAP ELSE cap
    <3>1. ncap \in c..(c + 2 * (at + n)) /\ at + n <= ncap
      BY <1>2, <2>1, Zenon DEF File!Doubled
    <3>2. c \in Nat /\ cap <= c
      BY <1>1 DEF FileFits
    <3> HIDE DEF c
    <3> QED
      BY <1>1, <3>1, <3>2
  <2>2. CASE ~(at + n > cap)
    <3>1. ncap = cap
      BY <1>2, <2>2, Zenon
    <3> QED
      BY <1>1, <2>2, <3>1
  <2> QED
    BY <2>1, <2>2, Zenon
<1>4. CASE ncap > HEAP
  <2>1. offset' \in [Files -> 0..(HEAP + MAXOFF)]
    BY <1>1, <1>2, <1>4, Zenon DEF FileInv
  <2> QED
    BY <1>2, <1>4, <2>1, Zenon DEF FileInv
<1>5. CASE ~(ncap > HEAP)
  <2>1. (IF append[f] THEN Len(content) ELSE at) = at
    BY Zenon DEF FileInv, SameBytes
  <2>2. /\ data' = File!Written(data, size, at, n, b) /\ cap' = ncap
        /\ size' = (IF at + n > size THEN at + n ELSE size)
        /\ offset' = [offset EXCEPT ![f] = at + n] /\ content' = File!Overwrite(content, at, n, b)
    BY <1>2, <1>5, <2>1, Zenon
  <2> HIDE DEF at
  <2>3. cap' \in 0..HEAP /\ size' \in 0..cap' /\ at + n \in 0..(HEAP + MAXOFF) /\ at \in Nat /\ at + n <= HEAP
        /\ size \in Nat /\ size <= HEAP
    BY <1>1, <1>3, <1>5, <2>2 DEF FileFits
  <2>4. offset' \in [Files -> 0..(HEAP + MAXOFF)]
    BY <2>2, <2>3, Zenon DEF FileInv
  <2>5. data' \in [File!Cells -> Bytes \cup {0, File!JUNK}]
    BY <2>2, Zenon DEF FileInv, File!Written
  <2>6. content' \in Seq(S) /\ SameBytes(data', size', content')
    <3>1. 0 \in S /\ b \in S /\ content \in Seq(S) /\ SameBytes(data, size, content)
      BY Zenon DEF FileInv
    <3> HIDE DEF S
    <3> QED
      BY <1>1, <2>2, <2>3, <3>1, BytesWritten, Zenon
  <2> QED
    BY <2>3, <2>4, <2>5, <2>6, Zenon DEF FileInv
<1> QED
  BY <1>4, <1>5, Zenon

\* Reads and seeks move offsets only.
LEMMA FileMovesSound ==
    ASSUME FileFits, FileInv, NEW f \in Files,
           \/ \E n \in 1..MAXN : File!vfs_fd_read(f, n)
           \/ \E off \in -1..MAXOFF, w \in {"SET", "CUR", "END"} : File!vfs_lseek(f, off, w)
    PROVE  FileInv'
<1>1. PICK x \in 0..(HEAP + MAXOFF) : offset' = [offset EXCEPT ![f] = x] /\ UNCHANGED <<data, cap, size, content>>
  <2>0. offset[f] \in 0..(HEAP + MAXOFF) /\ size \in 0..HEAP /\ HEAP \in Nat /\ MAXOFF \in Nat
    BY DEF FileInv, FileFits
  <2>1. ASSUME NEW n \in 1..MAXN, File!vfs_fd_read(f, n)
        PROVE  \E x \in 0..(HEAP + MAXOFF) :
                   offset' = [offset EXCEPT ![f] = x] /\ UNCHANGED <<data, cap, size, content>>
    <3>1. offset[f] + File!ReadCount(f, n) \in 0..(HEAP + MAXOFF)
      BY <2>0 DEF File!ReadCount
    <3> QED
      BY <2>1, <3>1, Zenon DEF File!vfs_fd_read
  <2>2. ASSUME NEW off \in -1..MAXOFF, NEW w \in {"SET", "CUR", "END"}, File!vfs_lseek(f, off, w)
        PROVE  \E x \in 0..(HEAP + MAXOFF) :
                   offset' = [offset EXCEPT ![f] = x] /\ UNCHANGED <<data, cap, size, content>>
    <3> DEFINE x == (CASE w = "CUR" -> offset[f] [] w = "END" -> size [] w = "SET" -> 0) + off
    <3>1. 0 <= x /\ x <= MAXOFF /\ offset' = [offset EXCEPT ![f] = x] /\ UNCHANGED <<data, cap, size, content>>
      BY <2>2, Zenon DEF File!vfs_lseek
    <3>2. x \in Int
      BY <2>0
    <3> HIDE DEF x
    <3>3. x \in 0..(HEAP + MAXOFF)
      BY <2>0, <3>1, <3>2
    <3> QED
      BY <3>1, <3>3, Zenon
  <2> QED
    BY <2>1, <2>2, Zenon
<1>2. offset' \in [Files -> 0..(HEAP + MAXOFF)]
  BY <1>1, Zenon DEF FileInv
<1> QED
  BY <1>1, <1>2, Zenon DEF FileInv

\* The buffer holds the file byte for byte, through overlapping writes, appends, gaps left by
\* seeks, truncations that leave the buffer and allocations that fail, and a read returns no
\* more than there is (tmpfs_write, tmpfs_read, tmpfs_truncate, vfs_lseek): for any number of
\* descriptions and sizes of calls, buffers and heap.
THEOREM FileReadsBack ==
    ASSUME FileFits
    PROVE  File!TmpFileSpec => [](File!TypeOK /\ File!ReadsBack)
<1>1. File!TmpFileInit => FileInv
  <2> SUFFICES ASSUME File!TmpFileInit
               PROVE  FileInv
    OBVIOUS
  <2>1. cap \in 0..HEAP /\ size \in 0..cap /\ 0 \in 0..(HEAP + MAXOFF)
    BY DEF FileFits, File!TmpFileInit
  <2>2. <<>> \in Seq(Bytes \cup {0}) /\ SameBytes(data, 0, <<>>)
    BY DEF SameBytes
  <2> QED
    BY <2>1, <2>2, Zenon DEF FileInv, File!TmpFileInit
<1>2. FileInv /\ [File!TmpFileNext]_File!tmpfile_vars => FileInv'
  <2> SUFFICES ASSUME FileInv, [File!TmpFileNext]_File!tmpfile_vars
               PROVE  FileInv'
    OBVIOUS
  <2>1. CASE File!tmpfs_truncate
    <3>1. <<>> \in Seq(Bytes \cup {0}) /\ SameBytes(data, 0, <<>>) /\ 0 \in 0..cap
      BY DEF SameBytes, FileInv, FileFits
    <3> QED
      BY <2>1, <3>1, Zenon DEF FileInv, File!tmpfs_truncate
  <2>2. ASSUME NEW f \in Files, File!SetAppend(f)
        PROVE  FileInv'
    BY <2>2, Zenon DEF FileInv, File!SetAppend
  <2>3. CASE UNCHANGED File!tmpfile_vars
    BY <2>3, Zenon DEF FileInv, File!tmpfile_vars
  <2> QED
    BY <2>1, <2>2, <2>3, FileWriteSound, FileMovesSound, Zenon DEF File!TmpFileNext
<1>3. FileInv => File!TypeOK /\ File!ReadsBack
  <2> SUFFICES ASSUME FileInv
               PROVE  File!TypeOK /\ File!ReadsBack
    OBVIOUS
  <2>1. size \in 0..HEAP /\ size <= cap /\ size \in Nat
    BY DEF FileInv, FileFits
  <2>2. ASSUME NEW f \in Files, NEW n \in 1..MAXN
        PROVE  offset[f] + File!ReadCount(f, n) <= size \/ File!ReadCount(f, n) = 0
    <3>1. offset[f] \in 0..(HEAP + MAXOFF)
      BY Zenon DEF FileInv
    <3> QED
      BY <2>1, <3>1 DEF File!ReadCount, FileFits
  <2> QED
    BY <2>1, <2>2, Zenon DEF FileInv, SameBytes, File!TypeOK, File!ReadsBack
<1> QED
  BY <1>1, <1>2, <1>3, PTL DEF File!TmpFileSpec

-----------------------------------------------------------------------------
(* Numbers, and places in a ring. *)

\* r is the place of a, less than twice round a ring of n places.
Rounds(n, a, r) == r \in 0..(n - 1) /\ r = IF a < n THEN a ELSE a - n

\* The remainder is that place.
LEMMA OnceRound ==
    ASSUME NEW n \in Nat \ {0}, NEW a \in 0..(2 * n - 1)
    PROVE  Rounds(n, a, a % n)
<1>1. CASE a < n
  <2>1. a % n = a
    BY <1>1
  <2> QED
    BY <1>1, <2>1 DEF Rounds
<1>2. CASE ~(a < n)
  <2>1. a % n = a - n
    BY <1>2
  <2> QED
    BY <1>2, <2>1 DEF Rounds
<1> QED
  BY <1>1, <1>2, Zenon

\* How far around a ring of n places b is behind a.
Behind(n, a, b) == IF b <= a THEN a - b ELSE a - b + n

\* That is what the code computes.
LEMMA BehindModulo ==
    ASSUME NEW n \in Nat \ {0}, NEW a \in 0..(n - 1), NEW b \in 0..(n - 1)
    PROVE  (a - b) % n = Behind(n, a, b) /\ Behind(n, a, b) \in 0..(n - 1)
<1>1. CASE b <= a
  <2>1. (a - b) % n = a - b
    BY <1>1
  <2> QED
    BY <1>1, <2>1 DEF Behind
<1>2. CASE ~(b <= a)
  <2>1. (a - b) % n = a - b + n
    BY <1>2
  <2> QED
    BY <1>2, <2>1 DEF Behind
<1> QED
  BY <1>1, <1>2

\* The next place of a ring.
Following(n, a) == IF a + 1 = n THEN 0 ELSE a + 1

\* That is what the code computes.
LEMMA FollowingModulo ==
    ASSUME NEW n \in Nat \ {0}, NEW a \in 0..(n - 1)
    PROVE  (a + 1) % n = Following(n, a) /\ Following(n, a) \in 0..(n - 1)
<1>1. CASE a + 1 = n
  <2>1. (a + 1) % n = 0
    BY <1>1
  <2> QED
    BY <1>1, <2>1 DEF Following
<1>2. CASE a + 1 # n
  <2>1. (a + 1) % n = a + 1
    BY <1>2
  <2> QED
    BY <1>2, <2>1 DEF Following
<1> QED
  BY <1>1, <1>2

\* One more is behind when the front moves on and does not meet the rear.
LEMMA OneMoreBehind ==
    ASSUME NEW n \in Nat \ {0}, NEW a \in 0..(n - 1), NEW b \in 0..(n - 1), Following(n, a) # b
    PROVE  Behind(n, Following(n, a), b) = Behind(n, a, b) + 1
BY DEF Following, Behind

\* The place, or the number, of what is less than twice round.
At(n, a) == IF a < n THEN a ELSE a - n

\* The next place, and the next number, after what is less than twice round.
LEMMA NextAt ==
    ASSUME NEW n \in Nat \ {0}, NEW a \in 0..(n - 1), NEW w \in 0..(n - 1)
    PROVE  Following(n, At(n, a + w)) = At(n, a + (w + 1))
BY DEF At, Following

\* One less from the next place.
LEMMA LessAt ==
    ASSUME NEW n \in Nat \ {0}, NEW a \in 0..(n - 1), NEW w \in 1..n
    PROVE  At(n, Following(n, a) + (w - 1)) = At(n, a + w)
BY DEF At, Following

-----------------------------------------------------------------------------
(* The terminal *)

CONSTANTS Readers, TTY_LINE_MAX, TTY_RAW_Q, Sizes
VARIABLES ICANON, ISIG, fg_pgid, line_len, ready_len, ready_has, ready_eof, raw_head, raw_tail,
          reading, tty_wq, tty_blocked, sig_interrupt

Terminal == INSTANCE Tty WITH blocked <- tty_blocked

\* Whatever makes the terminal readable wakes everyone who sleeps there.
LEMMA KeysWake ==
    ASSUME Terminal!ReadersAwake, NEW c \in Terminal!Inputs, Terminal!tty_input(c)
    PROVE  Terminal!ReadersAwake'
<1>1. CASE Terminal!signal_send_pgrp /\ UNCHANGED <<line_len, Terminal!ready, Terminal!raw>>
  BY <1>1, Zenon DEF Terminal!tty_input, Terminal!signal_send_pgrp, Terminal!ReadersAwake, Terminal!tty_line_ready,
     Terminal!ready, Terminal!raw, Terminal!modes
<1>2. CASE Terminal!raw_input
  BY <1>2, Zenon DEF Terminal!raw_input, Terminal!WakeReaders, Terminal!ReadersAwake
<1>3. CASE Terminal!canonical_input(c)
  <2>1. CASE Terminal!WakeReaders
    BY <2>1, Zenon DEF Terminal!WakeReaders, Terminal!ReadersAwake
  <2>2. CASE UNCHANGED <<Terminal!ready, Terminal!readers>>
    BY <1>3, <2>2, Zenon DEF Terminal!tty_input, Terminal!canonical_input, Terminal!ReadersAwake,
       Terminal!tty_line_ready, Terminal!ready, Terminal!readers, Terminal!raw, Terminal!modes
  <2> QED
    BY <1>3, <2>1, <2>2, Zenon DEF Terminal!canonical_input, Terminal!line_complete
<1> QED
  BY <1>1, <1>2, <1>3, Zenon DEF Terminal!tty_input

\* A reader goes to sleep only on a terminal it has found empty, and takes from one that is
\* readable, on which nobody sleeps.
LEMMA ReadsSleepEmpty ==
    ASSUME Terminal!ReadersAwake, NEW p \in Readers, NEW n, Terminal!tty_read_blocking(p, n)
    PROVE  Terminal!ReadersAwake'
<1>1. CASE p \in sig_interrupt
  BY <1>1 DEF Terminal!tty_read_blocking, Terminal!ReadersAwake, Terminal!tty_line_ready, Terminal!ready,
     Terminal!modes
<1>2. CASE p \notin sig_interrupt /\ Terminal!tty_line_ready
  BY <1>2, Zenon DEF Terminal!tty_read_blocking, Terminal!ReadersAwake
<1>3. CASE p \notin sig_interrupt /\ ~Terminal!tty_line_ready
  BY <1>3 DEF Terminal!tty_read_blocking, Terminal!ReadersAwake, Terminal!tty_line_ready, Terminal!ready,
     Terminal!modes
<1> QED
  BY <1>1, <1>2, <1>3, Zenon

\* No process sleeps on a terminal that has a line, a byte or an end of file to give, in any
\* order of keys, reads, signals and changes of mode (tty_input, tty_read_blocking).
THEOREM ReadersWoken == Terminal!Spec => []Terminal!ReadersAwake
<1>1. Terminal!Init => Terminal!ReadersAwake
  BY Zenon DEF Terminal!Init, Terminal!ReadersAwake
<1>2. Terminal!ReadersAwake /\ [Terminal!Next]_Terminal!ttyVars => Terminal!ReadersAwake'
  <2> SUFFICES ASSUME Terminal!ReadersAwake, [Terminal!Next]_Terminal!ttyVars
               PROVE  Terminal!ReadersAwake'
    OBVIOUS
  <2>1. ASSUME NEW canon, NEW isig, Terminal!do_ioctl_TCSETS(canon, isig)
        PROVE  Terminal!ReadersAwake'
    BY <2>1, Zenon DEF Terminal!do_ioctl_TCSETS, Terminal!readers, Terminal!ReadersAwake
  <2>2. ASSUME NEW group, Terminal!do_ioctl_TIOCSPGRP(group)
        PROVE  Terminal!ReadersAwake'
    BY <2>2, Zenon DEF Terminal!do_ioctl_TIOCSPGRP, Terminal!readers, Terminal!ready, Terminal!raw,
       Terminal!ReadersAwake, Terminal!tty_line_ready
  <2>3. CASE UNCHANGED Terminal!ttyVars
    BY <2>3, Zenon DEF Terminal!ttyVars, Terminal!ReadersAwake, Terminal!tty_line_ready
  <2> QED
    BY <2>1, <2>2, <2>3, KeysWake, ReadsSleepEmpty, Zenon DEF Terminal!Next
<1> QED
  BY <1>1, <1>2, PTL DEF Terminal!Spec

\* The positions in the ring of raw input are places of it.
RawInRing == raw_head \in 0..(TTY_RAW_Q - 1) /\ raw_tail \in 0..(TTY_RAW_Q - 1)

\* They stay in it, and the writing one moves on by one place, never onto the reading one.
LEMMA RawStaysInRing ==
    ASSUME TTY_RAW_Q \in Nat \ {0}, Sizes \subseteq Nat, RawInRing, [Terminal!Next]_Terminal!ttyVars
    PROVE  /\ RawInRing'
           /\ raw_head' # raw_head => /\ raw_head' = Following(TTY_RAW_Q, raw_head)
                                      /\ raw_head' # raw_tail /\ raw_tail' = raw_tail
<1>1. CASE Terminal!raw_input
  <2>1. (raw_head + 1) % TTY_RAW_Q = Following(TTY_RAW_Q, raw_head)
        /\ Following(TTY_RAW_Q, raw_head) \in 0..(TTY_RAW_Q - 1)
    BY FollowingModulo, Zenon DEF RawInRing
  <2> QED
    BY <1>1, <2>1, Zenon DEF Terminal!raw_input, RawInRing
<1>2. ASSUME NEW n \in Sizes, Terminal!tty_read(n), raw_head' = raw_head
      PROVE  RawInRing'
  <2> DEFINE k == Terminal!Smaller(Terminal!Unread, n)
  <2>1. Terminal!Unread \in 0..(TTY_RAW_Q - 1)
    BY BehindModulo, Zenon DEF RawInRing, Terminal!Unread
  <2>2. k \in Nat
    BY <2>1 DEF Terminal!Smaller
  <2>3. (raw_tail + k) % TTY_RAW_Q \in 0..(TTY_RAW_Q - 1)
    <3> HIDE DEF k
    <3> QED
      BY <2>2 DEF RawInRing
  <2> QED
    BY <1>2, <2>3, Zenon DEF Terminal!tty_read, RawInRing
<1>3. CASE UNCHANGED Terminal!raw
  BY <1>3, Zenon DEF Terminal!raw, RawInRing
<1>4. ASSUME NEW c, Terminal!tty_input(c)
      PROVE  Terminal!raw_input \/ UNCHANGED Terminal!raw
  BY <1>4, Zenon DEF Terminal!tty_input, Terminal!canonical_input
<1>5. ASSUME NEW p, NEW n \in Sizes, Terminal!tty_read_blocking(p, n)
      PROVE  raw_head' = raw_head /\ (Terminal!tty_read(n) \/ UNCHANGED Terminal!raw)
  BY <1>5, Zenon DEF Terminal!tty_read_blocking, Terminal!raw
<1>6. (\E p \in Readers, n \in Sizes : Terminal!tty_read_blocking(p, n)) \/ Terminal!raw_input \/ UNCHANGED Terminal!raw
  BY <1>4, Zenon DEF Terminal!Next, Terminal!do_ioctl_TCSETS, Terminal!do_ioctl_TIOCSPGRP, Terminal!ttyVars,
                     Terminal!raw
<1> QED
  BY <1>1, <1>2, <1>3, <1>5, <1>6, Zenon

\* A key typed in raw mode costs no unread one: the ring is never lapped, whatever its size
\* (raw_input, tty_read).
THEOREM RawRingNotLapped ==
    ASSUME TTY_RAW_Q \in Nat \ {0}, Sizes \subseteq Nat
    PROVE  Terminal!Spec => Terminal!RawNotLapped
<1>1. Terminal!Init => RawInRing
  BY DEF Terminal!Init, RawInRing
<1>2. RawInRing /\ [Terminal!Next]_Terminal!ttyVars => RawInRing'
  BY RawStaysInRing, Zenon
<1>3. RawInRing /\ [Terminal!Next]_Terminal!ttyVars
      => [raw_head' # raw_head => Terminal!Unread' = Terminal!Unread + 1]_Terminal!ttyVars
  <2> SUFFICES ASSUME RawInRing, [Terminal!Next]_Terminal!ttyVars, raw_head' # raw_head
               PROVE  Terminal!Unread' = Terminal!Unread + 1
    BY Zenon
  <2>1. RawInRing' /\ raw_head' = Following(TTY_RAW_Q, raw_head) /\ raw_head' # raw_tail /\ raw_tail' = raw_tail
    BY RawStaysInRing, Zenon
  <2>2. Terminal!Unread' = Behind(TTY_RAW_Q, raw_head', raw_tail')
    BY <2>1, BehindModulo, Zenon DEF Terminal!Unread, RawInRing
  <2>3. Terminal!Unread = Behind(TTY_RAW_Q, raw_head, raw_tail)
    BY BehindModulo, Zenon DEF Terminal!Unread, RawInRing
  <2>4. Behind(TTY_RAW_Q, raw_head', raw_tail) = Behind(TTY_RAW_Q, raw_head, raw_tail) + 1
    BY <2>1, OneMoreBehind, Zenon DEF RawInRing
  <2> QED
    BY <2>1, <2>2, <2>3, <2>4, Zenon
<1> QED
  BY <1>1, <1>2, <1>3, PTL DEF Terminal!Spec, Terminal!RawNotLapped
=============================================================================
