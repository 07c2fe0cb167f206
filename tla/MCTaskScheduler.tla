--------------------------- MODULE MCTaskScheduler ---------------------------
(* Instances of TaskScheduler for TLC.  Instances are numbers, because their order
   decides the shards; users hash to both parities. *)
EXTENDS SchedulerRefinement, TLC

CONSTANTS u1, u2, m1, m2, m3

OneUser  == (m1 :> u1) @@ (m2 :> u1) @@ (m3 :> u1)
TwoUsers == (m1 :> u1) @@ (m2 :> u1) @@ (m3 :> u2)
MCUserOf == [m \in Msgs |-> IF Users = {u1} THEN OneUser[m] ELSE TwoUsers[m]]
MCHash   == [u \in Users |-> IF u = u1 THEN 0 ELSE 1]

=============================================================================
