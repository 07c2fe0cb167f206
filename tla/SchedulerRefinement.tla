------------------------- MODULE SchedulerRefinement -------------------------
(***************************************************************************)
(* One scheduler instance implements SerialQueue.  A message waits until    *)
(* send_task has created its task, also while the instance still has to pop *)
(* it; it is running while Celery has its task unfinished.                  *)
(***************************************************************************)
EXTENDS TaskScheduler

Waiting == [u \in Users |-> IF queue[u] # <<>> /\ Sent(Head(queue[u]))
                            THEN Tail(queue[u]) ELSE queue[u]]
Running == {m \in Msgs : \E k \in 1 .. MaxSends : IsLive(<<m, k>>)}
Done    == {m \in Msgs : \E k \in 1 .. MaxSends :
                           task[<<m, k>>] \in {"finished", "forgotten"}}

Abstract == INSTANCE SerialQueue WITH waiting <- Waiting, running <- Running, done <- Done

\* The scheduler behaves like SerialQueue: what push_task accepts is written in order,
\* one message of a user at a time, and no message twice.
ImplementsSerialQueue == Abstract!Spec

=============================================================================
