------------------------------ MODULE MCSched ------------------------------
(* Instances of Sched for TLC. *)
EXTENDS Sched, TLC

CONSTANTS t1, t2, t3

\* Three levels; in PrioLowest one thread sits at the level idle has.
PrioLowest == (t1 :> 0) @@ (t2 :> 1) @@ (t3 :> 2)
PrioSame == (t1 :> 0) @@ (t2 :> 0)
=============================================================================
