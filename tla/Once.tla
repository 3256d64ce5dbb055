-------------------------------- MODULE Once --------------------------------
(* pthread_once, kernel/pthread/pthread.c. *)
EXTENDS WaitQueue

CONSTANT Threads

VARIABLES
    done, running, wq,
    blocked,        \* the threads in state BLOCKED
    pc,             \* "out", "init" (in init_routine), "wait", "back" (returned)
    runs            \* how often init_routine has been started

vars == <<done, running, wq, blocked, pc, runs>>

\* init_routine is started at most once (runs).
TypeOK ==
    /\ done \in BOOLEAN /\ running \in BOOLEAN
    /\ wq \in Seq(Threads) /\ blocked \in SUBSET Threads
    /\ pc \in [Threads -> {"out", "init", "wait", "back"}]
    /\ runs \in 0..1

Init ==
    /\ done = FALSE /\ running = FALSE /\ wq = <<>> /\ blocked = {}
    /\ pc = [t \in Threads |-> "out"]
    /\ runs = 0

\* The call: return, wait for the thread that runs the routine, or run it.
pthread_once(t) ==
    /\ pc[t] = "out"
    /\ \/ /\ done
          /\ pc' = [pc EXCEPT ![t] = "back"]
          /\ UNCHANGED <<running, wq, blocked, runs>>
       \/ /\ ~done /\ running
          /\ wq' = Append(wq, t)
          /\ blocked' = blocked \cup {t}
          /\ pc' = [pc EXCEPT ![t] = "wait"]
          /\ UNCHANGED <<running, runs>>
       \/ /\ ~done /\ ~running
          /\ running' = TRUE
          /\ runs' = runs + 1
          /\ pc' = [pc EXCEPT ![t] = "init"]
          /\ UNCHANGED <<wq, blocked>>
    /\ UNCHANGED done

\* Back from sched_wait_event: sleep on until done.
once_woken(t) ==
    /\ t \notin blocked /\ pc[t] = "wait"
    /\ IF done
       THEN /\ wq' = Unlinked(wq, t)
            /\ pc' = [pc EXCEPT ![t] = "back"]
            /\ UNCHANGED blocked
       ELSE /\ wq' = Append(Unlinked(wq, t), t)
            /\ blocked' = blocked \cup {t}
            /\ UNCHANGED pc
    /\ UNCHANGED <<done, running, runs>>

\* init_routine returns.
init_routine_returns(t) ==
    /\ pc[t] = "init"
    /\ done' = TRUE
    /\ wq' = <<>>
    /\ blocked' = blocked \ WakeAll(wq, blocked)
    /\ pc' = [pc EXCEPT ![t] = "back"]
    /\ UNCHANGED <<running, runs>>

\* signal_send to a BLOCKED thread
Interrupt(t) ==
    /\ t \in blocked
    /\ blocked' = blocked \ {t}
    /\ UNCHANGED <<done, running, wq, pc, runs>>

Finished == (\A t \in Threads : pc[t] = "back") /\ UNCHANGED vars

Next ==
    \/ \E t \in Threads : \/ pthread_once(t) \/ once_woken(t)
                          \/ init_routine_returns(t) \/ Interrupt(t)
    \/ Finished

Spec == Init /\ [][Next]_vars

\* Woken threads go on with their calls; init_routine returns.
Resume(t) == once_woken(t)
Duty(t) == init_routine_returns(t)

-----------------------------------------------------------------------------
\* No caller returns before the one run of init_routine is over, whatever
\* signals end its wait.
ReturnsAfterInit == (\E t \in Threads : pc[t] = "back") => done /\ \A t \in Threads : pc[t] # "init"
=============================================================================
