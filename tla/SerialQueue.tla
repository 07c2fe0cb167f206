----------------------------- MODULE SerialQueue -----------------------------
(***************************************************************************)
(* What the scheduler promises its callers: each user has a queue of        *)
(* messages, and they are written one at a time, in order, each once.       *)
(***************************************************************************)
EXTENDS Sequences

CONSTANTS Users, Msgs, UserOf

VARIABLES waiting,  \* per user, the messages whose task has not been started
          running,  \* the messages being written
          done      \* the messages written

queueVars == <<waiting, running, done>>

Init == waiting = [u \in Users |-> <<>>] /\ running = {} /\ done = {}

Submit(m) ==
  /\ m \notin running \cup done
  /\ \A n \in DOMAIN waiting[UserOf[m]] : waiting[UserOf[m]][n] # m
  /\ waiting' = [waiting EXCEPT ![UserOf[m]] = Append(@, m)]
  /\ UNCHANGED <<running, done>>

Begin(u) ==
  /\ waiting[u] # <<>>
  /\ \A m \in running : UserOf[m] # u
  /\ waiting' = [waiting EXCEPT ![u] = Tail(@)]
  /\ running' = running \cup {Head(waiting[u])}
  /\ UNCHANGED done

End(m) ==
  /\ m \in running
  /\ running' = running \ {m}
  /\ done' = done \cup {m}
  /\ UNCHANGED waiting

Next ==
  \/ \E m \in Msgs : Submit(m) \/ End(m)
  \/ \E u \in Users : Begin(u)

Spec == Init /\ [][Next]_queueVars

==================================================
