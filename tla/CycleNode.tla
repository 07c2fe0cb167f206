------------------------------ MODULE CycleNode ------------------------------
(***************************************************************************)
(* Iteration and loop nodes of a workflow.  An iteration node executes its *)
(* subgraph for every item of a list, in batches of parallel runs that     *)
(* each work on a deep copy of the variable pool; a loop node executes it  *)
(* round after round.  Conversation variables go back to the parent's pool *)
(* as a whole when a run is counted, while an assigner on another branch   *)
(* of the workflow writes to that pool, too.  The conversation variables   *)
(* are modelled as the list of the writes they show.                       *)
(***************************************************************************)
EXTENDS Integers, Sequences, FiniteSets

CONSTANTS Setups,    \* configurations of the node, see SetupType
          MaxSide    \* writes of the other branch

\* The subgraph is a branch; body gives the chain of nodes of each label.  A loop
\* has width 1 and fails with its round; items is its max_loop, and it ends when its
\* counter, the number of writes, reaches limit.
SetupType(labels) ==
  [kind : {"iteration", "loop"}, items : Nat, width : Nat \ {0},
   onError : {"terminated", "continue-on-error", "remove-abnormal-output"},
   body : [labels -> Seq({"write", "work", "stop"}) \ {<<>>}], limit : Nat]

ASSUME SetupAssumption ==
  /\ MaxSide \in Nat
  /\ \A s \in Setups : /\ s \in SetupType(DOMAIN s.body)
                       /\ s.kind = "loop" => s.width = 1 /\ s.onError = "terminated"

VARIABLES setup,     \* the node's configuration
          conv,      \* conversation variables in the parent's pool
          runs,      \* run -> its progress and its own pool
          next,      \* first run that is not counted
          looping,   \* no break has been counted
          outputs,   \* the node's output: items, or 0 for the default value
          node,      \* "run", "completed" or "failed"
          side,      \* writes of the other branch so far
          crossed    \* those of them made while copies of the pool were in use

vars == <<setup, conv, runs, next, looping, outputs, node, side, crossed>>

NoRoute == "none"
Runs == 1..setup.items
Labels == DOMAIN setup.body
\* The nodes behind the branch: <<l, i>> is number i of the chain of label l.
Nodes == UNION {{<<l, i>> : i \in 1..Len(setup.body[l])} : l \in Labels}
Kind(n) == setup.body[n[1]][n[2]]
IsLoop == setup.kind = "loop"
Fresh == [at |-> "idle", pool |-> <<>>, route |-> NoRoute, todo |-> {}, ran |-> {},
          stopped |-> FALSE]

\* The runs of the current batch.
Batch == {r \in Runs : next <= r /\ r < next + setup.width}
InFlight == \E r \in Batch : runs[r].at # "idle"

\* After a loop's first round its pool and the parent's hold the same variables.
Aliased == IsLoop /\ next > 1

\* The write of node n in run r, and write k of the other branch.
Write(r, n) == [by |-> r, at |-> n]
SideWrite(k) == [by |-> -k, at |-> <<NoRoute, 0>>]

Init ==
  /\ setup \in Setups
  /\ conv = <<>> /\ runs = [r \in Runs |-> Fresh]
  /\ next = 1 /\ looping = TRUE /\ outputs = <<>> /\ node = "run"
  /\ side = 0 /\ crossed = {}

\* Is another batch, or another round, to be started?
GoesOn == looping /\ Batch # {} /\ (IsLoop => Len(conv) < setup.limit)

\* The pool a run starts from.
PoolFromLast(r) == IF r = 1 \/ runs[r - 1].at # "done" THEN conv ELSE runs[r - 1].pool
StartPool(r) == conv

\* The runs of a batch copy the pool, all before any of them goes on.
Start ==
  /\ node = "run" /\ ~InFlight /\ GoesOn
  /\ runs' = [r \in Runs |-> IF r \in Batch
                             THEN [Fresh EXCEPT !.at = "route", !.pool = StartPool(r)]
                             ELSE runs[r]]
  /\ UNCHANGED <<setup, conv, next, looping, outputs, node, side, crossed>>

ActivatedInAll(r, l) == {l} \cup {runs[q].route : q \in {p \in 1..(r - 1) : runs[p].route # NoRoute}}
\* The branches that execute when run r chooses l: the rounds of a loop share one
\* checkpoint, whose activations are merged and never taken back.
Activated(r, l) == {l} \cup (IF IsLoop THEN {runs[q].route : q \in 1..(r - 1)} ELSE {})

Route(r) ==
  /\ node = "run" /\ runs[r].at = "route"
  /\ \E l \in Labels :
       runs' = [runs EXCEPT ![r].at = "exec", ![r].route = l,
                               ![r].todo = {<<m, 1>> : m \in Activated(r, l)}]
  /\ UNCHANGED <<setup, conv, next, looping, outputs, node, side, crossed>>

WrittenByAll(r, entry) ==
  [q \in Runs |-> IF q \in Batch THEN [runs[q] EXCEPT !.pool = Append(@, entry)] ELSE runs[q]]
\* The runs after an assigner of run r has written: it works on the run's own pool.
Written(r, entry) == [runs EXCEPT ![r].pool = Append(@, entry)]

\* Node n of the subgraph executes: an assigner, another node, or a break.
Exec(r, n) ==
  LET writes == Kind(n) = "write"
      after == IF writes THEN Written(r, Write(r, n)) ELSE runs
      following == {n2 \in Nodes : n2 = <<n[1], n[2] + 1>>}
  IN  /\ node = "run" /\ runs[r].at = "exec" /\ n \in runs[r].todo
      /\ runs' = [after EXCEPT ![r].todo = (@ \ {n}) \cup following, ![r].ran = @ \cup {n},
                               ![r].stopped = @ \/ Kind(n) = "stop"]
      /\ conv' = IF writes /\ Aliased THEN Append(conv, Write(r, n)) ELSE conv
      /\ UNCHANGED <<setup, next, looping, outputs, node, side, crossed>>

\* The subgraph of a run comes to its end.
Return(r) ==
  /\ node = "run" /\ runs[r].at = "exec" /\ runs[r].todo = {}
  /\ runs' = [runs EXCEPT ![r].at = "done"]
  /\ UNCHANGED <<setup, conv, next, looping, outputs, node, side, crossed>>

\* A node of a run fails, or its output is not there.
Fail(r) ==
  /\ node = "run" /\ runs[r].at \in {"route", "exec"}
  /\ runs' = [runs EXCEPT ![r].at = "failed"]
  /\ UNCHANGED <<setup, conv, next, looping, outputs, node, side, crossed>>

-----------------------------------------------------------------------------
(* Counting a batch *)

Failed(r) == runs[r].at = "failed"

CountedToFirstFailure(r) == ~ \E q \in Batch : q <= r /\ Failed(q)
\* A run is counted unless a failure before it has ended the node.
Counted(r) == setup.onError = "terminated" => ~ \E q \in Batch : q < r /\ Failed(q)

Aborts == setup.onError = "terminated" /\ \E r \in Batch : Failed(r)

\* The runs of the batch whose results are merged.
MergedUnlessStopped == {r \in Batch : Counted(r) /\ ~Failed(r) /\ ~runs[r].stopped}
MergedWithFailed == {r \in Batch : Counted(r)}
Merged == {r \in Batch : Counted(r) /\ ~Failed(r)}
Latest(r) == r \in Merged /\ \A q \in Merged : q <= r

\* What the batch adds to the output, item after item.
NewOutputs ==
  LET shown(r) == r \in Merged \/ (setup.onError = "continue-on-error" /\ Failed(r))
      value(r) == IF Failed(r) THEN 0 ELSE r
      added[k \in 0..setup.width] ==
        IF k = 0 THEN <<>>
        ELSE IF next + k - 1 \in Batch /\ shown(next + k - 1)
             THEN Append(added[k - 1], value(next + k - 1)) ELSE added[k - 1]
  IN  added[setup.width]

StopsByLast == \E r \in Merged : Latest(r) /\ runs[r].stopped
Stops == \E r \in Merged : runs[r].stopped

NextTwice == next + 2 * setup.width
NextUnlessFailed == IF \E r \in Batch : Failed(r) THEN next ELSE next + setup.width
\* Where the next batch begins.
NextRun == next + setup.width

\* All runs of the batch have ended: they are counted in one go.
Collect ==
  /\ node = "run" /\ InFlight /\ \A r \in Batch : runs[r].at \in {"done", "failed"}
  /\ IF Merged = {} THEN conv' = conv ELSE \E r \in Merged : Latest(r) /\ conv' = runs[r].pool
  /\ outputs' = IF IsLoop THEN outputs ELSE outputs \o NewOutputs
  /\ looping' = (looping /\ ~Stops)
  /\ next' = NextRun
  /\ node' = IF Aborts THEN "failed" ELSE "run"
  /\ UNCHANGED <<setup, runs, side, crossed>>

Complete ==
  /\ node = "run" /\ ~InFlight /\ ~GoesOn
  /\ node' = "completed"
  /\ UNCHANGED <<setup, conv, runs, next, looping, outputs, side, crossed>>

\* The node's time is over: what is under way is cancelled.
Timeout ==
  /\ node = "run" /\ node' = "failed"
  /\ UNCHANGED <<setup, conv, runs, next, looping, outputs, side, crossed>>

\* An assigner on another branch of the workflow writes to the parent's pool.  Items
\* and rounds that are executed one by one follow each other without a pause.
Aside ==
  /\ node # "failed" /\ side < MaxSide
  /\ setup.width = 1 /\ next > 1 => InFlight \/ ~GoesOn \/ node = "completed"
  /\ side' = side + 1
  /\ conv' = Append(conv, SideWrite(side'))
  /\ runs' = IF Aliased /\ InFlight
             THEN [runs EXCEPT ![next].pool = Append(@, SideWrite(side'))] ELSE runs
  /\ crossed' = IF InFlight /\ ~Aliased THEN crossed \cup {side'} ELSE crossed
  /\ UNCHANGED <<setup, next, looping, outputs, node>>

Goes == \/ Start \/ Collect \/ Complete
        \/ \E r \in Runs : Route(r) \/ Return(r) \/ \E n \in Nodes : Exec(r, n)

Next == Goes \/ Aside \/ Timeout \/ \E r \in Runs : Fail(r)

Spec == Init /\ [][Next]_vars

\* The event loop goes on with whatever is ready.
FairSpec == Spec /\ WF_vars(Goes)

-----------------------------------------------------------------------------
(* Properties *)

Entries == {Write(r, n) : r \in Runs, n \in Nodes} \cup {SideWrite(k) : k \in 1..MaxSide}

TypeOK ==
  /\ setup \in Setups
  /\ conv \in Seq(Entries)
  /\ runs \in [Runs -> [at : {"idle", "route", "exec", "done", "failed"},
                        pool : Seq(Entries), route : Labels \cup {NoRoute},
                        todo : SUBSET Nodes, ran : SUBSET Nodes, stopped : BOOLEAN]]
  /\ next \in 1..(setup.items + setup.width) /\ looping \in BOOLEAN
  /\ outputs \in Seq(0..setup.items) /\ node \in {"run", "completed", "failed"}
  /\ side \in 0..MaxSide /\ crossed \subseteq 1..side

Shows(pool, entry) == \E i \in 1..Len(pool) : pool[i] = entry
WritesOf(r) == {Write(r, n) : n \in {m \in runs[r].ran : Kind(m) = "write"}}

\* What the runs of a batch merge replaces the conversation variables as a whole, so
\* that of each batch the last successful run survives, and all later batches keep
\* it: executed one by one, items and rounds lose nothing.
LastOfBatchKept ==
  node # "failed" =>
    \A r \in {q \in Runs : q < next /\ runs[q].at = "done"} :
      (\A q \in Runs : r < q /\ (q - 1) \div setup.width = (r - 1) \div setup.width
                         => runs[q].at # "done")
        => \A w \in WritesOf(r) : Shows(conv, w)

\* A write of another branch is lost only if it was made while runs of an iteration,
\* or the first round of a loop, had copies of the pool.
SideWritesKept == \A k \in 1..side : k \notin crossed => Shows(conv, SideWrite(k))

\* Runs of one batch do not see each other's writes, in whatever order they go on.
RunsIsolated ==
  \A r, q \in {p \in Batch : runs[p].at # "idle"} :
    r # q => \A w \in WritesOf(q) : ~Shows(runs[r].pool, w)

\* Of a failed item no write is ever seen, by the parent or by another run.
FailureLeavesNoTrace ==
  ~IsLoop => \A r \in {q \in Runs : Failed(q)} : \A w \in WritesOf(r) :
    /\ ~Shows(conv, w)
    /\ \A q \in Runs \ {r} : ~Shows(runs[q].pool, w)

\* The output lists the items in their order, a failed one as the default value or
\* not at all, and no item after the one that ended the node.
OutputsMatchItems ==
  ~IsLoop /\ node # "failed" =>
    LET counted == {r \in Runs : r < next /\ (Failed(r) => setup.onError = "continue-on-error")}
        place(r) == Cardinality({q \in counted : q <= r})
    IN  /\ Len(outputs) = Cardinality(counted)
        /\ \A r \in counted : outputs[place(r)] = IF Failed(r) THEN 0 ELSE r

\* An item executes the branch it chose and no other, a round of a loop also those
\* chosen by earlier rounds.
RunsWhatWasChosen ==
  \A r \in Runs : \A n \in runs[r].ran :
    \E q \in (IF IsLoop THEN 1..r ELSE {r}) : runs[q].route = n[1]

\* Once a break is counted no later batch starts.
NothingAfterStop ==
  \A r \in {q \in Runs : q < next /\ runs[q].at = "done" /\ runs[q].stopped} :
    node # "failed" => \A q \in Runs : q >= next => runs[q].at = "idle"

\* The node comes to its end, whatever fails.
NodeEnds == <>(node # "run")
=============================================================================
