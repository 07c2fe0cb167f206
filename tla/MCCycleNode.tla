----------------------------- MODULE MCCycleNode -----------------------------
(* Iterations one by one and two at a time, in each error mode, and a loop.   *)
EXTENDS CycleNode

Long  == [a |-> <<"write", "write">>, b |-> <<"work">>, brk |-> <<"write", "stop">>]
Short == [a |-> <<"write">>, brk |-> <<"write", "stop">>]

Iteration(n, w, mode, body) ==
  [kind |-> "iteration", items |-> n, width |-> w, onError |-> mode, limit |-> 0, body |-> body]
Modes == {"terminated", "continue-on-error", "remove-abnormal-output"}

Loop == [kind |-> "loop", items |-> 3, width |-> 1, onError |-> "terminated", limit |-> 5,
         body |-> [a |-> <<"write">>, b |-> <<"write", "work">>, brk |-> <<"write", "stop">>]]

MCSetups == {Iteration(3, 1, m, Long) : m \in Modes} \cup {Iteration(3, 2, "terminated", Long)}
  \cup {Iteration(4, 2, m, Short) : m \in Modes \ {"terminated"}} \cup {Loop}
=============================================================================
