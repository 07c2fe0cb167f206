-------------------------- MODULE CycleNodeProofs --------------------------
(***************************************************************************)
(* Theorems about CycleNode, for any list of items, width of the batches,  *)
(* error mode and subgraph: its types, which writes survive (runs of one   *)
(* batch are isolated, a failed item leaves no trace, the last of a batch  *)
(* is kept), what a loop's rounds execute, that nothing starts after a     *)
(* break, and that the output is in the order of the items.                *)
(***************************************************************************)
EXTENDS CycleNode, TLAPS, WellFoundedInduction, FiniteSetTheorems

-----------------------------------------------------------------------------
(* The part of the types that the argument needs. *)

IsRun(x, entries) ==
  /\ x = [at |-> x.at, pool |-> x.pool, route |-> x.route, todo |-> x.todo, ran |-> x.ran,
          stopped |-> x.stopped]
  /\ x.pool \in Seq(entries)

Typed ==
  /\ setup \in SetupType(Labels) /\ (IsLoop => setup.width = 1)
  /\ conv \in Seq(Entries)
  /\ runs = [r \in Runs |-> runs[r]] /\ \A r \in Runs : IsRun(runs[r], Entries)
  /\ next \in Nat \ {0} /\ side \in 0..MaxSide

\* No step changes the node's configuration.
LEMMA NextKeepsSetup == [Next]_vars => setup' = setup
  BY DEF Next, Goes, Start, Route, Exec, Return, Fail, Collect, Complete, Timeout, Aside, vars

\* What every step leaves as it is.
LEMMA SetupKept ==
  ASSUME setup' = setup
  PROVE  /\ Runs' = Runs /\ Labels' = Labels /\ Nodes' = Nodes /\ Entries' = Entries
         /\ (IsLoop <=> IsLoop')
  BY DEF Runs, Labels, Nodes, Entries, Write, SideWrite, IsLoop

\* The initial states are typed.
LEMMA TypedInit == Init => Typed
  <1> SUFFICES ASSUME Init PROVE Typed
    OBVIOUS
  <1>1. setup \in SetupType(Labels) /\ (IsLoop => setup.width = 1) /\ 0 \in 0..MaxSide
    BY SetupAssumption DEF Init, Labels, IsLoop
  <1>2. IsRun(Fresh, Entries)
    BY DEF Fresh, IsRun
  <1> QED BY <1>1, <1>2 DEF Init, Typed

\* Records stay records of a run when fields are replaced.
LEMMA AtReplaced ==
  ASSUME NEW x, IsRun(x, Entries), NEW v, NEW y, y = [x EXCEPT !.at = v]
  PROVE  IsRun(y, Entries) /\ y.pool = x.pool
  BY DEF IsRun

\* A pool with one more write is a pool.
LEMMA PoolExtended ==
  ASSUME NEW x, IsRun(x, Entries), NEW e \in Entries, NEW y, y = [x EXCEPT !.pool = Append(x.pool, e)]
  PROVE  IsRun(y, Entries) /\ y.pool = Append(x.pool, e)
  <1> DEFINE longer == Append(x.pool, e)
  <1>1. longer \in Seq(Entries)
    BY DEF IsRun
  <1> HIDE DEF longer
  <1>2. y = [x EXCEPT !.pool = longer]
    BY DEF longer
  <1>3. IsRun(y, Entries) /\ y.pool = longer
    BY <1>1, <1>2 DEF IsRun
  <1> QED BY <1>3 DEF longer

\* The steps of one run change its record only, and its pool by at most an entry of
\* its own.
RunStep(r) ==
  /\ runs' = [q \in Runs |-> runs'[q]] /\ \A q \in Runs : q # r => runs'[q] = runs[q]
  /\ IsRun(runs'[r], Entries)
  /\ \/ runs'[r].pool = runs[r].pool
     \/ \E n \in Nodes : runs'[r].pool = Append(runs[r].pool, Write(r, n))
  /\ runs[r].at \in {"route", "exec"}

\* A run chooses its branch.
LEMMA RouteEffect ==
  ASSUME Typed, NEW r \in Runs, Route(r)
  PROVE  /\ runs' = [q \in Runs |-> runs'[q]] /\ \A q \in Runs : q # r => runs'[q] = runs[q]
         /\ IsRun(runs'[r], Entries)
         /\ runs[r].at = "route" /\ runs'[r].at = "exec"
         /\ runs'[r].pool = runs[r].pool /\ runs'[r].ran = runs[r].ran
         /\ runs'[r].stopped = runs[r].stopped
         /\ \E l \in Labels : /\ runs'[r].route = l
                              /\ runs'[r].todo = {<<m, 1>> : m \in Activated(r, l)}
  <1>1. IsRun(runs[r], Entries) /\ runs = [q \in Runs |-> runs[q]]
    BY DEF Typed
  <1>2. PICK l \in Labels :
          runs' = [runs EXCEPT ![r].at = "exec", ![r].route = l,
                                  ![r].todo = {<<m, 1>> : m \in Activated(r, l)}]
    BY DEF Route
  <1>3. PICK due : due = {<<m, 1>> : m \in Activated(r, l)}
    OBVIOUS
  <1>4. runs' = [runs EXCEPT ![r] = [runs[r] EXCEPT !.at = "exec", !.route = l, !.todo = due]]
    BY <1>1, <1>2, <1>3
  <1>5. runs'[r] = [runs[r] EXCEPT !.at = "exec", !.route = l, !.todo = due]
    BY <1>1, <1>4
  <1>6. /\ IsRun(runs'[r], Entries) /\ runs'[r].at = "exec"
        /\ runs'[r].pool = runs[r].pool /\ runs'[r].ran = runs[r].ran
        /\ runs'[r].stopped = runs[r].stopped /\ runs'[r].route = l /\ runs'[r].todo = due
    BY <1>1, <1>5 DEF IsRun
  <1>7. runs' = [q \in Runs |-> runs'[q]] /\ \A q \in Runs : q # r => runs'[q] = runs[q]
    BY <1>1, <1>4
  <1> QED BY <1>3, <1>6, <1>7 DEF Route

\* A run ends.
LEMMA EndEffect ==
  ASSUME Typed, NEW r \in Runs, Return(r) \/ Fail(r)
  PROVE  /\ runs' = [q \in Runs |-> runs'[q]] /\ \A q \in Runs : q # r => runs'[q] = runs[q]
         /\ IsRun(runs'[r], Entries)
         /\ \/ runs[r].at = "exec" /\ runs'[r].at = "done"
            \/ runs[r].at \in {"route", "exec"} /\ runs'[r].at = "failed"
         /\ runs'[r].pool = runs[r].pool /\ runs'[r].ran = runs[r].ran
         /\ runs'[r].stopped = runs[r].stopped /\ runs'[r].route = runs[r].route
         /\ runs'[r].todo = runs[r].todo
  <1>1. IsRun(runs[r], Entries) /\ runs = [q \in Runs |-> runs[q]]
    BY DEF Typed
  <1>2. PICK v \in {"done", "failed"} :
          /\ runs' = [runs EXCEPT ![r].at = v]
          /\ runs[r].at = "exec" \/ (v = "failed" /\ runs[r].at = "route")
    BY DEF Return, Fail
  <1>3. runs'[r] = [runs[r] EXCEPT !.at = v]
    BY <1>1, <1>2
  <1>4. /\ IsRun(runs'[r], Entries) /\ runs'[r].at = v
        /\ runs'[r].pool = runs[r].pool /\ runs'[r].ran = runs[r].ran
        /\ runs'[r].stopped = runs[r].stopped /\ runs'[r].route = runs[r].route
        /\ runs'[r].todo = runs[r].todo
    BY <1>1, <1>3 DEF IsRun
  <1> QED BY <1>1, <1>2, <1>4

\* A run executes a node.
LEMMA ExecEffect ==
  ASSUME Typed, NEW r \in Runs, NEW n \in Nodes, Exec(r, n)
  PROVE  /\ runs' = [q \in Runs |-> runs'[q]] /\ \A q \in Runs : q # r => runs'[q] = runs[q]
         /\ IsRun(runs'[r], Entries)
         /\ runs[r].at = "exec" /\ runs'[r].at = "exec" /\ runs'[r].route = runs[r].route
         /\ n \in runs[r].todo /\ runs'[r].ran = runs[r].ran \cup {n}
         /\ runs'[r].todo = (runs[r].todo \ {n}) \cup {m \in Nodes : m = <<n[1], n[2] + 1>>}
         /\ runs'[r].stopped = (runs[r].stopped \/ Kind(n) = "stop")
         /\ runs'[r].pool = IF Kind(n) = "write" THEN Append(runs[r].pool, Write(r, n))
                                                 ELSE runs[r].pool
  <1> DEFINE e == Write(r, n)
             after == IF Kind(n) = "write" THEN Written(r, e) ELSE runs
             todo == (after[r].todo \ {n}) \cup {m \in Nodes : m = <<n[1], n[2] + 1>>}
             ran == after[r].ran \cup {n}
             stopped == after[r].stopped \/ Kind(n) = "stop"
  <1>1. IsRun(runs[r], Entries) /\ runs = [q \in Runs |-> runs[q]] /\ e \in Entries
    BY DEF Typed, Entries
  <1>2. /\ after = [q \in Runs |-> after[q]] /\ \A q \in Runs : q # r => after[q] = runs[q]
        /\ IsRun(after[r], Entries) /\ after[r].at = runs[r].at
        /\ after[r].todo = runs[r].todo /\ after[r].ran = runs[r].ran
        /\ after[r].route = runs[r].route /\ after[r].stopped = runs[r].stopped
        /\ after[r].pool = IF Kind(n) = "write" THEN Append(runs[r].pool, e) ELSE runs[r].pool
    <2>1. CASE Kind(n) = "write"
      <3>1. after = [runs EXCEPT ![r] = [runs[r] EXCEPT !.pool = Append(runs[r].pool, e)]]
        BY <1>1, <2>1 DEF Written
      <3> HIDE DEF e, after
      <3>2. after[r] = [runs[r] EXCEPT !.pool = Append(runs[r].pool, e)]
        BY <3>1, <1>1
      <3>3. IsRun(after[r], Entries) /\ after[r].pool = Append(runs[r].pool, e)
        BY <3>2, <1>1, PoolExtended
      <3>4. /\ after[r].at = runs[r].at /\ after[r].todo = runs[r].todo
            /\ after[r].ran = runs[r].ran /\ after[r].route = runs[r].route
            /\ after[r].stopped = runs[r].stopped
        BY <3>2, <1>1 DEF IsRun
      <3> QED BY <1>1, <2>1, <3>1, <3>3, <3>4
    <2>2. CASE Kind(n) # "write"
      BY <2>2, <1>1
    <2> QED BY <2>1, <2>2
  <1>3. /\ runs' = [after EXCEPT ![r].todo = todo, ![r].ran = ran, ![r].stopped = stopped]
        /\ runs[r].at = "exec" /\ n \in runs[r].todo
    BY Zenon DEF Exec
  <1> HIDE DEF e, after, todo, ran, stopped
  <1>4. runs' = [after EXCEPT ![r] = [after[r] EXCEPT !.todo = todo, !.ran = ran,
                                                      !.stopped = stopped]]
    BY <1>2, <1>3
  <1>5. runs'[r] = [after[r] EXCEPT !.todo = todo, !.ran = ran, !.stopped = stopped]
    BY <1>2, <1>4
  <1>6. /\ IsRun(runs'[r], Entries) /\ runs'[r].pool = after[r].pool
        /\ runs'[r].at = after[r].at /\ runs'[r].route = after[r].route
        /\ runs'[r].todo = todo /\ runs'[r].ran = ran /\ runs'[r].stopped = stopped
    BY <1>2, <1>5 DEF IsRun
  <1>7. runs' = [q \in Runs |-> runs'[q]] /\ \A q \in Runs : q # r => runs'[q] = runs[q]
    BY <1>2, <1>4
  <1>8. /\ todo = (runs[r].todo \ {n}) \cup {m \in Nodes : m = <<n[1], n[2] + 1>>}
        /\ ran = runs[r].ran \cup {n} /\ stopped = (runs[r].stopped \/ Kind(n) = "stop")
    BY <1>2 DEF todo, ran, stopped
  <1>9. runs'[r].pool = IF Kind(n) = "write" THEN Append(runs[r].pool, Write(r, n))
                                             ELSE runs[r].pool
    BY <1>2, <1>6 DEF e
  <1> QED BY <1>2, <1>3, <1>6, <1>7, <1>8, <1>9

\* Routing, executing a node, returning and failing are steps of one run.
LEMMA RunSteps ==
  ASSUME Typed, NEW r \in Runs, Route(r) \/ Return(r) \/ Fail(r) \/ \E n \in Nodes : Exec(r, n)
  PROVE  RunStep(r)
  <1>1. CASE Route(r)
    BY <1>1, RouteEffect DEF RunStep
  <1>2. CASE Return(r) \/ Fail(r)
    BY <1>2, EndEffect DEF RunStep
  <1>3. ASSUME NEW n \in Nodes, Exec(r, n) PROVE RunStep(r)
    BY <1>3, ExecEffect DEF RunStep
  <1> QED BY <1>1, <1>2, <1>3

-----------------------------------------------------------------------------
(* Every step keeps the types. *)

\* A step of one run keeps the types.
LEMMA TypedRunStep ==
  ASSUME Typed, NEW r \in Runs, RunStep(r), setup' = setup,
         conv' \in Seq(Entries), next' = next, side' = side
  PROVE  Typed'
  <1>1. Runs' = Runs /\ Labels' = Labels /\ Entries' = Entries /\ (IsLoop <=> IsLoop')
    BY SetupKept
  <1>2. \A q \in Runs : IsRun(runs'[q], Entries)
    BY DEF Typed, RunStep
  <1> QED BY <1>1, <1>2 DEF Typed, RunStep

\* So does every other step.
LEMMA TypedNext == Typed /\ [Next]_vars => Typed'
  <1> SUFFICES ASSUME Typed, [Next]_vars PROVE Typed'
    OBVIOUS
  <1>1. setup' = setup
    BY NextKeepsSetup
  <1>2. Runs' = Runs /\ Labels' = Labels /\ Entries' = Entries /\ (IsLoop <=> IsLoop')
    BY <1>1, SetupKept
  <1>4. CASE Start
    <2>1. \A q \in Runs : IsRun(runs'[q], Entries)
      <3> SUFFICES ASSUME NEW q \in Runs PROVE IsRun(runs'[q], Entries)
        OBVIOUS
      <3>1. CASE q \in Batch
        <4>1. runs'[q] = [Fresh EXCEPT !.at = "route", !.pool = conv]
          BY <1>4, <3>1 DEF Start, StartPool
        <4> QED BY <4>1 DEF Typed, Fresh, IsRun
      <3>2. CASE q \notin Batch
        BY <1>4, <3>2 DEF Start, Typed
      <3> QED BY <3>1, <3>2
    <2>2. runs' = [q \in Runs |-> runs'[q]]
      BY <1>4 DEF Start
    <2> QED BY <1>1, <1>2, <1>4, <2>1, <2>2 DEF Start, Typed
  <1>5. CASE \E r \in Runs : Route(r) \/ Return(r) \/ Fail(r)
    BY <1>1, <1>5, RunSteps, TypedRunStep DEF Route, Return, Fail, Typed
  <1>6. CASE \E r \in Runs : \E n \in Nodes : Exec(r, n)
    <2>1. PICK r \in Runs, n \in Nodes : Exec(r, n)
      BY <1>6
    <2>2. Write(r, n) \in Entries
      BY DEF Entries
    <2>3. conv' = conv \/ conv' = Append(conv, Write(r, n))
      BY <2>1, Zenon DEF Exec
    <2>4. conv' \in Seq(Entries)
      BY <2>2, <2>3 DEF Typed
    <2>5. next' = next /\ side' = side
      BY <2>1 DEF Exec
    <2> QED BY <1>1, <2>1, <2>4, <2>5, RunSteps, TypedRunStep
  <1>7. CASE Collect
    <2>1. conv' = conv \/ \E r \in Runs : conv' = runs[r].pool
      BY <1>7 DEF Collect, Merged, Batch
    <2>2. conv' \in Seq(Entries)
      BY <2>1 DEF Typed, IsRun
    <2>3. next' \in Nat \ {0}
      BY <1>7 DEF Collect, NextRun, Typed, SetupType
    <2>4. runs' = runs /\ side' = side
      BY <1>7 DEF Collect
    <2> QED BY <1>1, <1>2, <2>2, <2>3, <2>4 DEF Typed
  <1>8. CASE Aside
    <2> DEFINE e == SideWrite(side')
    <2>1. side' = side + 1 /\ side' \in 1..MaxSide /\ next' = next
      BY <1>8, SetupAssumption DEF Aside, Typed
    <2>2. e \in Entries
      BY <2>1 DEF Entries
    <2>3. conv' = Append(conv, e)
      BY <1>8 DEF Aside
    <2>4. runs' = runs \/ runs' = [runs EXCEPT ![next] = [runs[next] EXCEPT !.pool = Append(runs[next].pool, e)]]
      BY <1>8 DEF Aside
    <2> HIDE DEF e
    <2>5. \A q \in Runs : IsRun(runs'[q], Entries)
      <3> SUFFICES ASSUME NEW q \in Runs PROVE IsRun(runs'[q], Entries)
        OBVIOUS
      <3>1. IsRun(runs[q], Entries) /\ runs = [p \in Runs |-> runs[p]]
        BY DEF Typed
      <3>2. CASE runs'[q] = runs[q]
        BY <3>1, <3>2
      <3>3. CASE runs'[q] # runs[q]
        <4>1. runs'[q] = [runs[q] EXCEPT !.pool = Append(runs[q].pool, e)]
          BY <2>4, <3>1, <3>3
        <4> QED BY <2>2, <3>1, <4>1, PoolExtended
      <3> QED BY <3>2, <3>3
    <2>6. runs' = [q \in Runs |-> runs'[q]]
      BY <2>4 DEF Typed
    <2>7. conv' \in Seq(Entries)
      BY <2>2, <2>3 DEF Typed
    <2> QED BY <1>1, <1>2, <2>1, <2>5, <2>6, <2>7 DEF Typed
  <1>9. CASE Complete \/ Timeout \/ UNCHANGED vars
    <2>1. conv' = conv /\ runs' = runs /\ next' = next /\ side' = side
      BY <1>9 DEF Complete, Timeout, vars
    <2> QED BY <1>1, <1>2, <2>1 DEF Typed
  <1> QED BY <1>4, <1>5, <1>6, <1>7, <1>8, <1>9 DEF Next, Goes

-----------------------------------------------------------------------------
(* Where the writes of a pool come from. *)

\* An entry of the pool of run r is a write of the other branch, one of r's own or
\* one of a successful run that has been counted.  The parent's pool is that of
\* run 0, which writes nothing.
Origin(e, r, finished) == e.by < 1 \/ e.by = r \/ e.by \in finished
Finished == {q \in Runs : q < next /\ runs[q].at = "done"}

Provenance ==
  ~IsLoop =>
    /\ \A i \in 1..Len(conv) : Origin(conv[i], 0, Finished)
    /\ \A r \in Runs : \A i \in 1..Len(runs[r].pool) : Origin(runs[r].pool[i], r, Finished)

\* At first there are no writes.
LEMMA ProvenanceInit == Init => Provenance
  BY DEF Init, Provenance, Fresh

\* What has been counted stays counted: the origin of an entry does not change.
LEMMA OriginKept ==
  ASSUME Typed, setup' = setup, next' \in Nat, next <= next',
         \A q \in Runs : q < next /\ runs[q].at = "done" => runs'[q].at = "done"
  PROVE  \A e, r : Origin(e, r, Finished) => Origin(e, r, Finished')
  <1>1. Runs' = Runs
    BY SetupKept
  <1>2. Runs \subseteq Int /\ next \in Nat
    BY DEF Typed, Runs, SetupType
  <1>3. Finished \subseteq Finished'
    <2> SUFFICES ASSUME NEW q \in Finished PROVE q \in Finished'
      OBVIOUS
    <2>1. q \in Runs /\ q \in Int /\ q < next /\ runs[q].at = "done"
      BY <1>2 DEF Finished
    <2>2. q < next'
      BY <1>2, <2>1
    <2> QED BY <1>1, <2>1, <2>2 DEF Finished
  <1> QED BY <1>3 DEF Origin

\* Every write bears a number.
LEMMA ByNumber == \A e \in Entries : e.by \in Int
  BY SetupAssumption DEF Entries, Write, SideWrite, Runs

\* The other branch's writes are numbered below 1.
LEMMA SideNumber == \A k \in Nat : SideWrite(k).by < 1
  <1> SUFFICES ASSUME NEW k \in Nat PROVE SideWrite(k).by < 1
    OBVIOUS
  <1>1. -k < 1
    OBVIOUS
  <1>2. SideWrite(k).by = -k
    BY DEF SideWrite
  <1> QED BY <1>1, <1>2

\* A run adds writes of its own to its own pool.
LEMMA ProvenanceRunStep ==
  ASSUME Typed, Provenance, ~IsLoop, NEW r \in Runs, RunStep(r), setup' = setup,
         conv' = conv, next' = next
  PROVE  Provenance'
  <1>1. Runs' = Runs /\ Nodes' = Nodes /\ next \in Nat
    BY SetupKept DEF Typed
  <1>2. \A q \in Runs : q < next /\ runs[q].at = "done" => runs'[q].at = "done"
    BY DEF RunStep
  <1>3. \A e, q : Origin(e, q, Finished) => Origin(e, q, Finished')
    BY <1>1, <1>2, OriginKept
  <1>4. \A q \in Runs : \A i \in 1..Len(runs'[q].pool) : Origin(runs'[q].pool[i], q, Finished')
    <2> SUFFICES ASSUME NEW q \in Runs, NEW i \in 1..Len(runs'[q].pool)
                 PROVE  Origin(runs'[q].pool[i], q, Finished')
      OBVIOUS
    <2>1. CASE runs'[q].pool = runs[q].pool
      BY <1>3, <2>1 DEF Provenance
    <2>2. CASE runs'[q].pool # runs[q].pool
      <3>1. PICK n \in Nodes : q = r /\ runs'[q].pool = Append(runs[q].pool, Write(r, n))
        BY <2>2 DEF RunStep
      <3>2. runs[q].pool \in Seq(Entries)
        BY DEF Typed, IsRun
      <3>3. \/ i \in 1..Len(runs[q].pool) /\ runs'[q].pool[i] = runs[q].pool[i]
            \/ runs'[q].pool[i] = Write(r, n)
        BY <3>1, <3>2
      <3>4. CASE runs'[q].pool[i] = Write(r, n)
        BY <3>1, <3>4 DEF Origin, Write
      <3> QED BY <1>3, <3>3, <3>4 DEF Provenance
    <2> QED BY <2>1, <2>2
  <1>5. \A i \in 1..Len(conv') : Origin(conv'[i], 0, Finished')
    BY <1>3 DEF Provenance
  <1> QED BY <1>1, <1>4, <1>5 DEF Provenance

\* Pools are copied from the parent's, and merged into it from successful runs only.
LEMMA ProvenanceNext == Typed /\ Provenance /\ [Next]_vars => Provenance'
  <1> SUFFICES ASSUME Typed, Provenance, [Next]_vars, ~IsLoop PROVE Provenance'
    BY NextKeepsSetup, SetupKept DEF Provenance
  <1>1. setup' = setup /\ Runs' = Runs /\ Entries' = Entries
    BY NextKeepsSetup, SetupKept
  <1>2. Runs \subseteq Nat \ {0} /\ next \in Nat /\ setup.width \in Nat \ {0}
    BY DEF Typed, Runs, SetupType
  <1>3. /\ \A i \in 1..Len(conv) : Origin(conv[i], 0, Finished)
        /\ \A r \in Runs : \A i \in 1..Len(runs[r].pool) : Origin(runs[r].pool[i], r, Finished)
    BY DEF Provenance
  <1>4. CASE Start
    <2>1. next' = next /\ conv' = conv
      BY <1>4 DEF Start
    <2>2. \A q \in Runs : q \notin Batch => runs'[q] = runs[q]
      BY <1>4 DEF Start
    <2>3. \A q \in Batch : ~(q < next) /\ runs'[q].pool = conv
      BY <1>2, <1>4 DEF Start, StartPool, Batch, Fresh
    <2>4. \A q \in Runs : q < next /\ runs[q].at = "done" => runs'[q].at = "done"
      BY <2>2, <2>3
    <2>5. \A e, q : Origin(e, q, Finished) => Origin(e, q, Finished')
      BY <1>1, <1>2, <2>1, <2>4, OriginKept
    <2>6. \A e \in Entries : \A q : Origin(e, 0, Finished) => Origin(e, q, Finished)
      BY ByNumber DEF Origin
    <2>7. \A i \in 1..Len(conv) : conv[i] \in Entries
      BY DEF Typed
    <2>8. ASSUME NEW q \in Runs, NEW i \in 1..Len(runs'[q].pool)
          PROVE  Origin(runs'[q].pool[i], q, Finished')
      <3>1. CASE q \in Batch
        BY <1>3, <2>3, <2>5, <2>6, <2>7, <3>1
      <3>2. CASE q \notin Batch
        BY <1>3, <2>2, <2>5, <3>2
      <3> QED BY <3>1, <3>2
    <2>9. \A i \in 1..Len(conv') : Origin(conv'[i], 0, Finished')
      BY <1>3, <2>1, <2>5
    <2> QED BY <1>1, <2>8, <2>9 DEF Provenance
  <1>5. CASE \E r \in Runs : Route(r) \/ Return(r) \/ Fail(r)
    BY <1>1, <1>5, RunSteps, ProvenanceRunStep DEF Route, Return, Fail
  <1>6. CASE \E r \in Runs : \E n \in Nodes : Exec(r, n)
    <2>1. PICK r \in Runs, n \in Nodes : Exec(r, n)
      BY <1>6
    <2>2. conv' = conv /\ next' = next
      BY <2>1, Zenon DEF Exec, Aliased
    <2> QED BY <1>1, <2>1, <2>2, RunSteps, ProvenanceRunStep
  <1>7. CASE Collect
    <2>1. runs' = runs /\ next' = next + setup.width
      BY <1>7 DEF Collect, NextRun
    <2>2. \A e, q : Origin(e, q, Finished) => Origin(e, q, Finished')
      BY <1>1, <1>2, <2>1, OriginKept
    <2>3. CASE conv' = conv
      BY <1>1, <1>3, <2>1, <2>2, <2>3 DEF Provenance
    <2>4. CASE conv' # conv
      <3>1. PICK r \in Merged : conv' = runs[r].pool
        BY <1>7, <2>4 DEF Collect
      <3>2. r \in Runs /\ r < next' /\ runs'[r].at = "done"
        BY <1>7, <2>1, <3>1 DEF Collect, Merged, Batch, Failed
      <3>3. \A e : Origin(e, r, Finished') => Origin(e, 0, Finished')
        BY <1>1, <3>2 DEF Origin, Finished
      <3>4. \A i \in 1..Len(conv') : Origin(conv'[i], 0, Finished')
        BY <1>3, <2>2, <3>1, <3>2, <3>3
      <3> QED BY <1>1, <1>3, <2>1, <2>2, <3>4 DEF Provenance
    <2> QED BY <2>3, <2>4
  <1>8. CASE Aside
    <2> DEFINE e == SideWrite(side')
    <2>1. runs' = runs /\ next' = next /\ conv' = Append(conv, e) /\ side' \in Nat \ {0}
      BY <1>8 DEF Aside, Aliased, Typed
    <2>2. \A x, q : Origin(x, q, Finished) => Origin(x, q, Finished')
      BY <1>1, <1>2, <2>1, OriginKept
    <2>3. Origin(e, 0, Finished')
      BY <2>1, SideNumber DEF Origin
    <2> HIDE DEF e
    <2>4. ASSUME NEW i \in 1..Len(conv') PROVE Origin(conv'[i], 0, Finished')
      <3>1. (i \in 1..Len(conv) /\ conv'[i] = conv[i]) \/ conv'[i] = e
        BY <2>1 DEF Typed
      <3> QED BY <1>3, <2>2, <2>3, <3>1
    <2> QED BY <1>1, <1>3, <2>1, <2>2, <2>4 DEF Provenance
  <1>9. CASE Complete \/ Timeout \/ UNCHANGED vars
    <2>1. runs' = runs /\ next' = next /\ conv' = conv
      BY <1>9 DEF Complete, Timeout, vars
    <2>2. \A x, q : Origin(x, q, Finished) => Origin(x, q, Finished')
      BY <1>1, <1>2, <2>1, OriginKept
    <2> QED BY <1>1, <1>3, <2>1, <2>2 DEF Provenance
  <1> QED BY <1>4, <1>5, <1>6, <1>7, <1>8, <1>9 DEF Next, Goes

-----------------------------------------------------------------------------
(* How far the runs are. *)

\* A run before its branch has executed nothing, those that are counted have ended, and
\* those behind the batch have not begun.
Phases ==
  \A r \in Runs :
    /\ runs[r].at \in {"idle", "route"} =>
         runs[r].route = NoRoute /\ runs[r].todo = {} /\ runs[r].ran = {}
    /\ r < next => runs[r].at \in {"done", "failed"}
    /\ r >= next + setup.width => runs[r].at = "idle"

\* The copies of the parent's pool.
LEMMA StartEffect ==
  ASSUME Typed, Start
  PROVE  /\ \A q \in Batch : /\ runs[q].at = "idle" /\ runs'[q].at = "route"
                             /\ runs'[q].pool = conv /\ runs'[q].route = NoRoute
                             /\ runs'[q].todo = {} /\ runs'[q].ran = {}
                             /\ runs'[q].stopped = FALSE
         /\ \A q \in Runs \ Batch : runs'[q] = runs[q]
         /\ UNCHANGED <<conv, next, looping, node, side, crossed>> /\ looping
  <1>1. \A q \in Batch : runs'[q] = [Fresh EXCEPT !.at = "route", !.pool = conv]
    BY DEF Start, Batch, StartPool
  <1>2. \A q \in Batch : /\ runs'[q].at = "route" /\ runs'[q].route = NoRoute
                         /\ runs'[q].todo = {} /\ runs'[q].ran = {} /\ runs'[q].pool = conv
                         /\ runs'[q].stopped = FALSE
    BY <1>1 DEF Fresh
  <1> QED BY <1>2 DEF Start, InFlight, GoesOn

\* The steps that move no run.
Rests ==
  /\ next' = next /\ looping' = looping
  /\ \A q \in Runs : /\ runs'[q].at = runs[q].at /\ runs'[q].route = runs[q].route
                     /\ runs'[q].todo = runs[q].todo /\ runs'[q].ran = runs[q].ran
                     /\ runs'[q].stopped = runs[q].stopped

\* The other branch's write may reach the pool of a round.
LEMMA AsideEffect ==
  ASSUME Typed, Aside
  PROVE  /\ Rests /\ side' = side + 1 /\ conv' = Append(conv, SideWrite(side'))
         /\ \A q \in Runs : \/ runs'[q].pool = runs[q].pool
                            \/ runs'[q].pool = Append(runs[q].pool, SideWrite(side'))
         /\ crossed \subseteq crossed'
         /\ (InFlight /\ ~Aliased) => side' \in crossed'
         /\ (InFlight /\ Aliased /\ next \in Runs)
              => runs'[next].pool = Append(runs[next].pool, SideWrite(side'))
         /\ node # "failed" /\ node' = node
  <1>1. PICK e : e = SideWrite(side')
    OBVIOUS
  <1>2. /\ UNCHANGED <<next, looping, node>> /\ side' = side + 1 /\ node # "failed"
        /\ conv' = Append(conv, e)
        /\ crossed' = IF InFlight /\ ~Aliased THEN crossed \cup {side'} ELSE crossed
        /\ runs' = IF Aliased /\ InFlight
                   THEN [runs EXCEPT ![next] = [runs[next] EXCEPT !.pool = Append(runs[next].pool, e)]]
                   ELSE runs
    BY <1>1 DEF Aside
  <1>3. ASSUME NEW q \in Runs
        PROVE  /\ runs'[q].at = runs[q].at /\ runs'[q].route = runs[q].route
               /\ runs'[q].todo = runs[q].todo /\ runs'[q].ran = runs[q].ran
               /\ runs'[q].stopped = runs[q].stopped
               /\ runs'[q].pool = IF InFlight /\ Aliased /\ q = next
                                  THEN Append(runs[q].pool, e) ELSE runs[q].pool
    <2>1. IsRun(runs[q], Entries) /\ runs = [p \in Runs |-> runs[p]]
      BY DEF Typed
    <2>2. PICK longer : longer = Append(runs[q].pool, e)
      OBVIOUS
    <2>3. CASE InFlight /\ Aliased /\ q = next
      <3>1. runs'[q] = [runs[q] EXCEPT !.pool = longer]
        BY <1>2, <2>1, <2>2, <2>3
      <3> QED BY <2>1, <2>2, <2>3, <3>1 DEF IsRun
    <2>4. CASE ~(InFlight /\ Aliased /\ q = next)
      BY <1>2, <2>1, <2>4
    <2> QED BY <2>3, <2>4
  <1> QED BY <1>1, <1>2, <1>3 DEF Rests

\* What can happen.
LEMMA Happens ==
  ASSUME Typed, [Next]_vars
  PROVE  \/ Start
         \/ \E r \in Runs : Route(r)
         \/ \E r \in Runs : Return(r) \/ Fail(r)
         \/ \E r \in Runs : \E n \in Nodes : Exec(r, n)
         \/ Collect
         \/ Rests
  <1>1. CASE Complete \/ Timeout \/ UNCHANGED vars
    BY <1>1 DEF Complete, Timeout, vars, Rests
  <1>2. CASE Aside
    BY <1>2, AsideEffect
  <1> QED BY <1>1, <1>2 DEF Next, Goes

\* Nothing has begun at first.
LEMMA PhasesInit == Init => Phases
  <1> SUFFICES ASSUME Init PROVE Phases
    OBVIOUS
  <1>1. \A r \in Runs : r \in Nat /\ r >= 1
    BY SetupAssumption DEF Init, Runs, SetupType
  <1> QED BY <1>1 DEF Init, Phases, Fresh

\* Only the runs of the batch go on, and all of them have ended when it is counted.
LEMMA PhasesNext == ASSUME Typed, Phases, [Next]_vars PROVE Phases'
  <1>1. setup' = setup /\ Runs' = Runs
    BY NextKeepsSetup, SetupKept
  <1>2. Runs \subseteq Nat \ {0} /\ next \in Nat /\ setup.width \in Nat \ {0}
    BY DEF Typed, Runs, SetupType
  <1>3. CASE Start
    <2>1. \A q \in Runs : q \in Batch => ~(q < next) /\ ~(q >= next + setup.width)
      BY <1>2 DEF Batch
    <2> QED BY <1>1, <1>3, <2>1, StartEffect DEF Phases
  <1>4. ASSUME NEW r \in Runs, Route(r) PROVE Phases'
    <2>1. next' = next
      BY <1>4 DEF Route
    <2> QED BY <1>1, <1>4, <2>1, RouteEffect DEF Phases
  <1>5. ASSUME NEW r \in Runs, Return(r) \/ Fail(r) PROVE Phases'
    <2>1. next' = next
      BY <1>5 DEF Return, Fail
    <2> QED BY <1>1, <1>5, <2>1, EndEffect DEF Phases
  <1>6. ASSUME NEW r \in Runs, NEW n \in Nodes, Exec(r, n) PROVE Phases'
    <2>1. next' = next
      BY <1>6 DEF Exec
    <2> QED BY <1>1, <1>6, <2>1, ExecEffect DEF Phases
  <1>7. CASE Collect
    <2>1. /\ next' = next + setup.width /\ runs' = runs
          /\ \A r \in Batch : runs[r].at \in {"done", "failed"}
      BY <1>7 DEF Collect, NextRun
    <2>2. \A r \in Runs : /\ r < next' => r < next \/ r \in Batch
                          /\ r >= next' + setup.width => r >= next + setup.width
      <3> SUFFICES ASSUME NEW r \in Runs
                   PROVE  /\ r < next' => r < next \/ r \in Batch
                          /\ r >= next' + setup.width => r >= next + setup.width
        OBVIOUS
      <3>1. PICK a \in Nat, w \in Nat \ {0} : a = next /\ w = setup.width /\ next' = a + w
        BY <1>2, <2>1
      <3>2. r \in Nat /\ (r < a + w => r < a \/ (a <= r /\ r < a + w))
                    /\ (r >= a + w + w => r >= a + w)
        BY <1>2
      <3> QED BY <3>1, <3>2 DEF Batch
    <2> QED BY <1>1, <2>1, <2>2 DEF Phases
  <1>8. CASE Rests
    BY <1>1, <1>8 DEF Rests, Phases
  <1> QED BY <1>3, <1>4, <1>5, <1>6, <1>7, <1>8, Happens

-----------------------------------------------------------------------------
(* Branches *)

\* Also what is still to be executed lies on a chosen branch.
Chosen ==
  \A r \in Runs : \A n \in runs[r].todo \cup runs[r].ran :
    \E q \in (IF IsLoop THEN 1..r ELSE {r}) : runs[q].route = n[1]

\* Nothing is to be executed at first.
LEMMA ChosenInit == Init => Chosen
  BY DEF Init, Chosen, Fresh

\* A node follows one of its own branch, and a run that chooses its branch is the last
\* that has begun, or the node is no loop.
LEMMA ChosenNext == ASSUME Typed, Phases, Chosen, [Next]_vars PROVE Chosen'
  <1>1. setup' = setup /\ Runs' = Runs /\ (IsLoop <=> IsLoop')
    BY NextKeepsSetup, SetupKept
  <1>2. /\ Runs \subseteq Nat \ {0} /\ next \in Nat /\ setup.width \in Nat \ {0}
        /\ \A r \in Runs : 1..r \subseteq Runs
    BY DEF Typed, Runs, SetupType
  <1>3. CASE Start
    <2>1. \A q \in Runs : /\ runs'[q].route = runs[q].route /\ runs'[q].todo = runs[q].todo
                          /\ runs'[q].ran = runs[q].ran
      BY <1>3, StartEffect DEF Phases, Batch
    <2> QED BY <1>1, <1>2, <2>1 DEF Chosen
  <1>4. ASSUME NEW r \in Runs, Route(r) PROVE Chosen'
    <2> SUFFICES ASSUME NEW p \in Runs, NEW n \in runs'[p].todo \cup runs'[p].ran
                 PROVE  \E q \in (IF IsLoop THEN 1..p ELSE {p}) : runs'[q].route = n[1]
      BY <1>1 DEF Chosen
    <2>1. PICK l \in Labels : /\ runs'[r].route = l
                              /\ runs'[r].todo = {<<m, 1>> : m \in Activated(r, l)}
      BY <1>4, RouteEffect
    <2>2. /\ \A q \in Runs : q # r => runs'[q] = runs[q]
          /\ runs[r].at = "route" /\ runs'[r].ran = {}
      BY <1>4, RouteEffect DEF Phases
    <2>3. CASE p = r
      <3>1. PICK m \in Activated(r, l) : n = <<m, 1>>
        BY <2>1, <2>2, <2>3
      <3>2. m = l \/ (IsLoop /\ \E q \in 1..(r - 1) : m = runs[q].route)
        BY <3>1 DEF Activated
      <3>3. \A q \in 1..(r - 1) : q \in 1..r /\ runs'[q] = runs[q]
        BY <1>2, <2>2
      <3>4. r \in 1..r
        BY <1>2
      <3> QED BY <2>1, <2>3, <3>1, <3>2, <3>3, <3>4
    <2>4. CASE p # r
      <3>1. PICK q \in (IF IsLoop THEN 1..p ELSE {p}) : runs[q].route = n[1]
        BY <2>2, <2>4 DEF Chosen
      <3>2. q # r
        <4>1. CASE ~IsLoop
          BY <2>4, <3>1, <4>1
        <4>2. CASE IsLoop /\ q = r
          <5>1. setup.width = 1 /\ r < p
            BY <1>2, <2>4, <3>1, <4>2 DEF Typed
          <5>2. next <= r
            BY <1>2, <2>2 DEF Phases
          <5>3. runs[p].at = "idle"
            BY <1>2, <5>1, <5>2 DEF Phases
          <5> QED BY <2>2, <2>4, <5>3 DEF Phases
        <4> QED BY <4>1, <4>2
      <3>3. q \in Runs
        BY <1>2, <3>1
      <3> QED BY <2>2, <3>1, <3>2, <3>3
    <2> QED BY <2>3, <2>4
  <1>5. ASSUME NEW r \in Runs, Return(r) \/ Fail(r) PROVE Chosen'
    <2>1. \A q \in Runs : /\ runs'[q].route = runs[q].route /\ runs'[q].todo = runs[q].todo
                          /\ runs'[q].ran = runs[q].ran
      BY <1>5, EndEffect
    <2> QED BY <1>1, <1>2, <2>1 DEF Chosen
  <1>6. ASSUME NEW r \in Runs, NEW n \in Nodes, Exec(r, n) PROVE Chosen'
    <2>1. \A q \in Runs : runs'[q].route = runs[q].route
      BY <1>6, ExecEffect
    <2>2. ASSUME NEW q \in Runs, NEW m \in runs'[q].todo \cup runs'[q].ran
          PROVE  \E k \in runs[q].todo \cup runs[q].ran : k[1] = m[1]
      <3>1. CASE q # r
        BY <1>6, <3>1, ExecEffect
      <3>2. CASE q = r
        <4>1. m \in runs[q].todo \cup runs[q].ran \/ m = n \/ m = <<n[1], n[2] + 1>>
          BY <1>6, <3>2, ExecEffect
        <4>2. n \in runs[q].todo
          BY <1>6, <3>2, ExecEffect
        <4> QED BY <4>1, <4>2
      <3> QED BY <3>1, <3>2
    <2> QED BY <1>1, <1>2, <2>1, <2>2 DEF Chosen
  <1>7. CASE Collect
    BY <1>1, <1>7 DEF Collect, Chosen
  <1>8. CASE Rests
    BY <1>1, <1>2, <1>8 DEF Rests, Chosen
  <1> QED BY <1>3, <1>4, <1>5, <1>6, <1>7, <1>8, Happens

-----------------------------------------------------------------------------
(* Counting *)

\* What counting a batch does.
LEMMA CollectEffect ==
  ASSUME Typed, Collect
  PROVE  /\ next' = next + setup.width /\ UNCHANGED <<runs, side, crossed>>
         /\ \A r \in Batch : runs[r].at \in {"done", "failed"}
         /\ looping' = (looping /\ ~Stops)
         /\ \/ Merged = {} /\ conv' = conv
            \/ \E r \in Merged : Latest(r) /\ conv' = runs[r].pool
         /\ node' # "failed" => Merged = {r \in Batch : runs[r].at = "done"}
  <1>1. node' # "failed" => \A r \in Batch : Counted(r)
    BY DEF Collect, Aborts, Counted, Failed
  <1> QED BY <1>1 DEF Collect, NextRun, Merged, Failed

\* The runs before and behind the next batch, when this one is counted.
LEMMA BatchPassed ==
  ASSUME Typed, Collect, NEW r \in Runs
  PROVE  /\ r < next' => r < next \/ r \in Batch
         /\ r >= next' => r >= next + setup.width
  <1>1. PICK a \in Nat, w \in Nat \ {0} : a = next /\ w = setup.width /\ next' = a + w
    BY CollectEffect DEF Typed, SetupType
  <1>2. r \in Nat /\ (r < a + w => r < a \/ (a <= r /\ r < a + w))
    BY <1>1 DEF Runs, Typed, SetupType
  <1> QED BY <1>1, <1>2 DEF Batch

\* A node that has failed does nothing any more.
LEMMA FailedStays == [Next]_vars /\ node = "failed" => node' = "failed"
  BY DEF Next, Goes, Start, Route, Exec, Return, Fail, Collect, Complete, Timeout, Aside, vars

\* A run that has ended does not change but for its pool.
LEMMA EndedStays ==
  ASSUME Typed, Phases, [Next]_vars, NEW r \in Runs, runs[r].at \in {"done", "failed"}
  PROVE  /\ runs'[r].at = runs[r].at /\ runs'[r].route = runs[r].route
         /\ runs'[r].stopped = runs[r].stopped /\ runs'[r].ran = runs[r].ran
  <1>1. CASE Start
    BY <1>1, StartEffect
  <1>2. CASE \E q \in Runs : Route(q)
    BY <1>2, RouteEffect
  <1>3. CASE \E q \in Runs : Return(q) \/ Fail(q)
    BY <1>3, EndEffect
  <1>4. CASE \E q \in Runs : \E n \in Nodes : Exec(q, n)
    BY <1>4, ExecEffect
  <1>5. CASE Collect
    BY <1>5, CollectEffect
  <1>6. CASE Rests
    BY <1>6 DEF Rests
  <1> QED BY <1>1, <1>2, <1>3, <1>4, <1>5, <1>6, Happens

-----------------------------------------------------------------------------
(* Breaks *)

\* A break that has been counted ends the node's loop, and no run begins any more.
Broken ==
  /\ ~looping => \A q \in Runs : q >= next => runs[q].at = "idle"
  /\ node # "failed" =>
       \A r \in Runs : r < next /\ runs[r].at = "done" /\ runs[r].stopped => ~looping

\* No break has been counted at first.
LEMMA BrokenInit == Init => Broken
  BY PhasesInit DEF Init, Broken, Fresh

\* The runs that are merged are all that ended well, so that no break is overlooked.
LEMMA BrokenNext == ASSUME Typed, Phases, Broken, [Next]_vars PROVE Broken'
  <1>1. setup' = setup /\ Runs' = Runs
    BY NextKeepsSetup, SetupKept
  <1>2. node' # "failed" => node # "failed"
    BY FailedStays
  <1>3. \A r \in Runs : r < next => /\ runs'[r].at = runs[r].at
                                    /\ runs'[r].stopped = runs[r].stopped
    BY EndedStays DEF Phases
  <1>4. CASE Collect
    <2>1. /\ \A r \in Runs : r < next' => r < next \/ r \in Batch
          /\ \A r \in Runs : r >= next' => runs'[r].at = "idle"
      BY <1>4, BatchPassed, CollectEffect DEF Phases
    <2>2. ASSUME node' # "failed", NEW r \in Runs, r < next', runs'[r].at = "done",
                 runs'[r].stopped
          PROVE  ~looping'
      <3>1. CASE r < next
        BY <1>2, <1>3, <1>4, <2>2, <3>1, CollectEffect DEF Broken
      <3>2. CASE r \in Batch
        BY <1>4, <2>2, <3>2, CollectEffect DEF Stops
      <3> QED BY <2>1, <2>2, <3>1, <3>2
    <2> QED BY <1>1, <2>1, <2>2 DEF Broken
  <1>5. CASE ~Collect /\ next' = next /\ looping' = looping
    <2>1. ASSUME ~looping', NEW q \in Runs, q >= next PROVE runs'[q].at = "idle"
      <3>1. runs[q].at = "idle"
        BY <1>5, <2>1 DEF Broken
      <3>2. \A r \in Runs : runs[r].at \notin {"route", "exec"}
        <4> SUFFICES ASSUME NEW r \in Runs, runs[r].at \in {"route", "exec"} PROVE FALSE
          OBVIOUS
        <4>1. r \in Nat /\ next \in Nat
          BY DEF Runs, Typed, SetupType
        <4> QED BY <1>5, <2>1, <4>1 DEF Phases, Broken
      <3>3. ~Start
        BY <1>5, <2>1, StartEffect
      <3> QED BY <1>5, <3>1, <3>2, <3>3, Happens, RouteEffect, EndEffect, ExecEffect DEF Rests
    <2> QED BY <1>1, <1>2, <1>3, <1>5, <2>1 DEF Broken
  <1>6. Collect \/ (next' = next /\ looping' = looping)
    <2>1. CASE Start \/ Complete \/ Timeout \/ Aside \/ UNCHANGED vars
      BY <2>1, Zenon DEF Start, Complete, Timeout, Aside, vars
    <2>2. ASSUME NEW r \in Runs, Route(r) \/ Return(r) \/ Fail(r) PROVE next' = next /\ looping' = looping
      BY <2>2, Zenon DEF Route, Return, Fail
    <2>3. ASSUME NEW r \in Runs, NEW n \in Nodes, Exec(r, n) PROVE next' = next /\ looping' = looping
      BY <2>3, Zenon DEF Exec
    <2> QED BY <2>1, <2>2, <2>3, Zenon DEF Next, Goes
  <1> QED BY <1>4, <1>5, <1>6

-----------------------------------------------------------------------------
(* What is preserved *)

\* A pool that shows an entry shows it when it grows, and then the new one.
LEMMA Grown ==
  ASSUME NEW pool \in Seq(Entries), NEW e
  PROVE  \A w : Shows(Append(pool, e), w) <=> Shows(pool, w) \/ w = e
  BY DEF Shows

\* An entry is preserved that the parent's pool shows and the copies in use.
Preserved(w) ==
  /\ Shows(conv, w)
  /\ \A q \in Batch : runs[q].at # "idle" => Shows(runs[q].pool, w)

\* But for copying and merging, pools only grow.
LEMMA PoolsGrow ==
  ASSUME Typed, [Next]_vars, ~Start, ~Collect
  PROVE  /\ next' = next
         /\ \E e : conv' = conv \/ conv' = Append(conv, e)
         /\ \A q \in Runs : /\ runs'[q].at = "idle" <=> runs[q].at = "idle"
                            /\ \E e : \/ runs'[q].pool = runs[q].pool
                                      \/ runs'[q].pool = Append(runs[q].pool, e)
  <1>1. CASE Complete \/ Timeout \/ UNCHANGED vars
    BY <1>1 DEF Complete, Timeout, vars
  <1>2. CASE Aside
    BY <1>2, AsideEffect DEF Rests
  <1>3. CASE \E r \in Runs : Route(r)
    <2>1. next' = next /\ conv' = conv
      BY <1>3 DEF Route
    <2> QED BY <1>3, <2>1, RouteEffect
  <1>4. CASE \E r \in Runs : Return(r) \/ Fail(r)
    <2>1. next' = next /\ conv' = conv
      BY <1>4 DEF Return, Fail
    <2> QED BY <1>4, <2>1, EndEffect
  <1>5. ASSUME NEW r \in Runs, NEW n \in Nodes, Exec(r, n)
        PROVE  /\ next' = next
               /\ \E e : conv' = conv \/ conv' = Append(conv, e)
               /\ \A q \in Runs : /\ runs'[q].at = "idle" <=> runs[q].at = "idle"
                                  /\ \E e : \/ runs'[q].pool = runs[q].pool
                                            \/ runs'[q].pool = Append(runs[q].pool, e)
    <2>1. next' = next /\ (conv' = conv \/ conv' = Append(conv, Write(r, n)))
      BY <1>5, Zenon DEF Exec
    <2> QED BY <1>5, <2>1, ExecEffect
  <1> QED BY <1>1, <1>2, <1>3, <1>4, <1>5 DEF Next, Goes

\* What is preserved stays so: copies are made of the parent's pool, and what replaces
\* that is one of them.
LEMMA PreservedNext ==
  ASSUME Typed, Phases, [Next]_vars, NEW w, Preserved(w) PROVE Preserved(w)'
  <1>1. setup' = setup /\ Runs' = Runs
    BY NextKeepsSetup, SetupKept
  <1>2. conv \in Seq(Entries) /\ \A q \in Runs : runs[q].pool \in Seq(Entries)
    BY DEF Typed, IsRun
  <1>3. CASE Start
    <2>1. next' = next /\ conv' = conv /\ Batch' = Batch
      BY <1>1, <1>3, StartEffect DEF Batch
    <2> QED BY <1>3, <2>1, StartEffect DEF Preserved, Shows
  <1>4. CASE Collect
    <2>1. \A q \in Batch' : runs'[q].at = "idle"
      BY <1>1, <1>4, BatchPassed, CollectEffect DEF Phases, Batch
    <2>2. CASE conv' = conv
      BY <2>1, <2>2 DEF Preserved, Shows
    <2>3. ASSUME NEW r \in Batch, runs[r].at = "done", conv' = runs[r].pool
          PROVE  Preserved(w)'
      BY <2>1, <2>3 DEF Preserved, Shows
    <2>4. \A r \in Merged : r \in Batch /\ runs[r].at = "done"
      BY <1>4, CollectEffect DEF Merged, Failed
    <2> QED BY <1>4, <2>2, <2>3, <2>4, CollectEffect
  <1>5. CASE ~Start /\ ~Collect
    <2>1. Batch' = Batch
      BY <1>1, <1>5, PoolsGrow DEF Batch
    <2>2. Shows(conv', w)
      <3>1. PICK e : conv' = conv \/ conv' = Append(conv, e)
        BY <1>5, PoolsGrow
      <3>2. Shows(conv, w) /\ (Shows(conv, w) => Shows(Append(conv, e), w))
        BY <1>2, Grown DEF Preserved
      <3> QED BY <3>1, <3>2
    <2>3. ASSUME NEW q \in Batch, runs'[q].at # "idle" PROVE Shows(runs'[q].pool, w)
      <3>1. q \in Runs
        BY DEF Batch
      <3>2. PICK e : \/ runs'[q].pool = runs[q].pool
                     \/ runs'[q].pool = Append(runs[q].pool, e)
        BY <1>5, <3>1, PoolsGrow
      <3>3. runs[q].at # "idle"
        BY <1>5, <2>3, <3>1, PoolsGrow
      <3>4. Shows(runs[q].pool, w)
        BY <3>3 DEF Preserved
      <3>5. Shows(Append(runs[q].pool, e), w)
        BY <1>2, <3>1, <3>4, Grown
      <3> QED BY <3>2, <3>4, <3>5
    <2> QED BY <2>1, <2>2, <2>3 DEF Preserved, Shows
  <1> QED BY <1>3, <1>4, <1>5

\* The other branch's writes are preserved, but for those crossed.
SidePreserved == \A k \in 1..side : k \notin crossed => Preserved(SideWrite(k))

\* There are none at first.
LEMMA SideInit == Init => SidePreserved
  BY DEF Init, SidePreserved

\* A write that finds no copy in use, or one that is the parent's own, reaches all.
LEMMA SideNext == ASSUME Typed, Phases, SidePreserved, [Next]_vars PROVE SidePreserved'
  <1>1. setup' = setup /\ Runs' = Runs
    BY NextKeepsSetup, SetupKept
  <1>2. CASE side' = side /\ crossed' = crossed
    <2>1. \A k \in 1..side : k \notin crossed => Preserved(SideWrite(k))'
      BY PreservedNext DEF SidePreserved
    <2>2. \A k : SideWrite(k)' = SideWrite(k)
      BY DEF SideWrite
    <2> QED BY <1>2, <2>1 DEF SidePreserved
  <1>3. CASE Aside
    <2> SUFFICES ASSUME NEW k \in 1..side', k \notin crossed' PROVE Preserved(SideWrite(k))'
      BY DEF SidePreserved
    <2>1. /\ side' = side + 1 /\ side \in Nat /\ crossed \subseteq crossed'
          /\ conv' = Append(conv, SideWrite(side')) /\ conv \in Seq(Entries)
      BY <1>3, AsideEffect DEF Typed
    <2>2. CASE k # side'
      <3>1. k \in 1..side /\ k \notin crossed
        BY <2>1, <2>2
      <3> QED BY <3>1, PreservedNext DEF SidePreserved
    <2>3. CASE k = side'
      <3>1. PICK e : e = SideWrite(k)
        OBVIOUS
      <3>2. Shows(conv', e)
        BY <2>1, <2>3, <3>1, Grown
      <3>3. ASSUME NEW q \in Batch, runs'[q].at # "idle" PROVE Shows(runs'[q].pool, e)
        <4>1. q \in Runs /\ runs[q].at # "idle" /\ runs[q].pool \in Seq(Entries)
          BY <1>3, <3>3, AsideEffect DEF Batch, Rests, Typed, IsRun
        <4>2. InFlight /\ Aliased
          BY <1>3, <2>3, <4>1, AsideEffect DEF InFlight
        <4>3. q = next
          <5>1. setup.width = 1 /\ next \in Nat /\ q \in Nat
            BY <4>1, <4>2 DEF Aliased, Typed, Runs, SetupType
          <5> QED BY <5>1 DEF Batch
        <4>4. runs'[q].pool = Append(runs[q].pool, e)
          BY <1>3, <2>3, <3>1, <4>1, <4>2, <4>3, AsideEffect
        <4> QED BY <4>1, <4>4, Grown
      <3>4. Batch' = Batch
        BY <1>1, <1>3, AsideEffect DEF Batch, Rests
      <3>5. SideWrite(k)' = e
        BY <3>1 DEF SideWrite
      <3> QED BY <3>1, <3>2, <3>3, <3>4, <3>5 DEF Preserved, Shows
    <2> QED BY <2>2, <2>3
  <1>4. (side' = side /\ crossed' = crossed) \/ Aside
    <2>1. ASSUME NEW r \in Runs, NEW n \in Nodes, Exec(r, n)
          PROVE  side' = side /\ crossed' = crossed
      BY <2>1 DEF Exec
    <2> QED BY <2>1 DEF Next, Goes, Start, Route, Return, Fail, Collect, Complete, Timeout, vars
  <1> QED BY <1>2, <1>3, <1>4

\* A run sees its own writes.
OwnSeen == \A r \in Runs : \A w \in WritesOf(r) : Shows(runs[r].pool, w)

\* There are none at first.
LEMMA OwnInit == Init => OwnSeen
  BY DEF Init, OwnSeen, WritesOf, Fresh

\* An assigner writes to the pool of its run.
LEMMA OwnNext == ASSUME Typed, Phases, OwnSeen, [Next]_vars PROVE OwnSeen'
  <1>1. setup' = setup /\ Runs' = Runs
    BY NextKeepsSetup, SetupKept
  <1>2. \A n : Kind(n)' = Kind(n)
    BY <1>1 DEF Kind
  <1>3. \A r \in Runs : runs[r].pool \in Seq(Entries)
    BY DEF Typed, IsRun
  <1>4. \A r \in Runs : \A n \in runs[r].ran : Kind(n) = "write" => Shows(runs[r].pool, Write(r, n))
    BY DEF OwnSeen, WritesOf
  <1> SUFFICES ASSUME NEW r \in Runs, NEW n \in runs'[r].ran, Kind(n) = "write"
               PROVE  Shows(runs'[r].pool, Write(r, n))
    BY <1>1, <1>2 DEF OwnSeen, WritesOf, Write, Shows
  <1>5. CASE runs'[r] = runs[r]
    BY <1>4, <1>5
  <1>6. CASE Start
    BY <1>4, <1>6, StartEffect
  <1>7. CASE \E q \in Runs : Route(q)
    BY <1>4, <1>7, RouteEffect
  <1>8. CASE \E q \in Runs : Return(q) \/ Fail(q)
    BY <1>4, <1>8, EndEffect
  <1>9. ASSUME NEW q \in Runs, NEW m \in Nodes, Exec(q, m) PROVE Shows(runs'[r].pool, Write(r, n))
    <2>1. CASE q # r
      BY <1>4, <1>9, <2>1, ExecEffect
    <2>2. CASE q = r /\ n = m
      <3>1. runs'[r].pool = Append(runs[r].pool, Write(r, n))
        BY <1>9, <2>2, ExecEffect
      <3> QED BY <1>3, <3>1, Grown
    <2>3. CASE q = r /\ n # m
      <3>1. n \in runs[r].ran
        BY <1>9, <2>3, ExecEffect
      <3>2. \/ runs'[r].pool = runs[r].pool
            \/ runs'[r].pool = Append(runs[r].pool, Write(r, m))
        BY <1>9, <2>3, ExecEffect
      <3>3. Shows(runs[r].pool, Write(r, n))
        BY <1>4, <3>1
      <3>4. Shows(Append(runs[r].pool, Write(r, m)), Write(r, n))
        BY <1>3, <3>3, Grown
      <3> QED BY <3>2, <3>3, <3>4
    <2> QED BY <2>1, <2>2, <2>3
  <1>10. CASE Aside
    <2>1. n \in runs[r].ran
      BY <1>10, AsideEffect DEF Rests
    <2>2. \/ runs'[r].pool = runs[r].pool
          \/ runs'[r].pool = Append(runs[r].pool, SideWrite(side'))
      BY <1>10, AsideEffect
    <2>3. Shows(runs[r].pool, Write(r, n))
      BY <1>4, <2>1
    <2>4. Shows(Append(runs[r].pool, SideWrite(side')), Write(r, n))
      BY <1>3, <2>3, Grown
    <2> QED BY <2>2, <2>3, <2>4
  <1>11. CASE Collect \/ Complete \/ Timeout \/ UNCHANGED vars
    BY <1>5, <1>11 DEF Collect, Complete, Timeout, vars
  <1> QED BY <1>6, <1>7, <1>8, <1>9, <1>10, <1>11 DEF Next, Goes

\* Batches begin at the multiples of the width.
Aligned == \E b \in Nat : next = b * setup.width + 1

SameBatch(q, r) == (q - 1) \div setup.width = (r - 1) \div setup.width

\* Division by a width.
LEMMA Quotient ==
  ASSUME NEW w \in Nat \ {0}, NEW b \in Nat, NEW k \in Nat, k < w
  PROVE  (b * w + k) \div w = b
  OBVIOUS

\* The first batch begins at 1, the next one a width later.
LEMMA AlignedInit == Init => Aligned
  <1> SUFFICES ASSUME Init PROVE Aligned
    OBVIOUS
  <1>1. PICK w \in Nat : w = setup.width
    BY SetupAssumption DEF Init, SetupType
  <1>2. 0 * w = 0
    OBVIOUS
  <1> QED BY <1>1, <1>2 DEF Init, Aligned

\* A step keeps the index at a multiple of the batch's width.
LEMMA AlignedNext == ASSUME Typed, Aligned, [Next]_vars PROVE Aligned'
  <1>1. setup' = setup
    BY NextKeepsSetup
  <1>2. CASE next' = next
    BY <1>1, <1>2 DEF Aligned
  <1>3. CASE next' = next + setup.width
    <2>1. PICK b \in Nat : next = b * setup.width + 1
      BY DEF Aligned
    <2>2. PICK w \in Nat : w = setup.width
      BY DEF Typed, SetupType
    <2>3. (b + 1) * w = b * w + w /\ b * w \in Nat
      OBVIOUS
    <2>4. b + 1 \in Nat /\ next' = (b + 1) * w + 1
      BY <1>3, <2>1, <2>2, <2>3
    <2> QED BY <1>1, <2>2, <2>4 DEF Aligned
  <1> QED
    BY <1>2, <1>3 DEF Next, Goes, Start, Route, Exec, Return, Fail, Collect, NextRun, Complete,
                      Timeout, Aside, vars

\* The runs of a batch are those with the same quotient.
LEMMA BatchIsOne ==
  ASSUME Typed, Aligned, NEW q \in Batch, NEW r \in Batch PROVE SameBatch(q, r)
  <1>1. PICK w \in Nat \ {0}, b \in Nat : w = setup.width /\ next = b * w + 1
    BY DEF Aligned, Typed, SetupType
  <1>2. ASSUME NEW p \in Batch PROVE (p - 1) \div w = b
    <2>1. p \in Nat /\ next <= p /\ p < next + w
      BY <1>1 DEF Batch, Runs, Typed, SetupType
    <2>2. PICK k \in Nat : k = p - next
      BY <1>1, <2>1
    <2>3. k < w /\ p - 1 = b * w + k
      BY <1>1, <2>1, <2>2
    <2> QED BY <2>3, Quotient
  <1> QED BY <1>1, <1>2 DEF SameBatch

\* Run r is counted, and no later run of its batch has ended well.
LastDone(r) ==
  /\ r < next /\ runs[r].at = "done"
  /\ \A q \in Runs : r < q /\ SameBatch(q, r) => runs[q].at # "done"

\* The writes of such a run are preserved while the node goes on.
LastPreserved ==
  node # "failed" => \A r \in Runs : LastDone(r) => \A w \in WritesOf(r) : Preserved(w)

\* No run is counted at first.
LEMMA LastInit == Init => LastPreserved
  BY DEF Init, LastPreserved, LastDone, Fresh

\* The pool that replaces the parent's is that of the batch's last successful run.
LEMMA LastNext ==
  ASSUME Typed, Phases, OwnSeen, Aligned, LastPreserved, [Next]_vars PROVE LastPreserved'
  <1>1. setup' = setup /\ Runs' = Runs
    BY NextKeepsSetup, SetupKept
  <1>2. \A n : Kind(n)' = Kind(n)
    BY <1>1 DEF Kind
  <1> SUFFICES ASSUME node' # "failed", NEW r \in Runs, LastDone(r)', NEW w \in WritesOf(r)'
               PROVE  Preserved(w)'
    BY <1>1 DEF LastPreserved
  <1>3. node # "failed"
    BY FailedStays
  <1>4. /\ r < next' /\ runs'[r].at = "done"
        /\ \A q \in Runs : r < q /\ SameBatch(q, r) => runs'[q].at # "done"
    BY <1>1 DEF LastDone, SameBatch
  <1>5. ASSUME runs[r].at = "done" PROVE w \in WritesOf(r)
    BY <1>1, <1>2, <1>5, EndedStays DEF WritesOf, Write
  <1>6. CASE r < next
    <2>1. runs[r].at = "done"
      BY <1>4, <1>6, EndedStays DEF Phases
    <2>2. \A q \in Runs : runs[q].at = "done" => runs'[q].at = "done"
      BY EndedStays
    <2>3. LastDone(r)
      BY <1>4, <1>6, <2>1, <2>2 DEF LastDone
    <2> QED BY <1>3, <1>5, <2>1, <2>3, PreservedNext DEF LastPreserved
  <1>7. CASE ~(r < next)
    <2>1. Collect
      <3>1. next' # next
        BY <1>4, <1>7
      <3> QED
        BY <3>1 DEF Next, Goes, Start, Route, Exec, Return, Fail, Complete, Timeout, Aside, vars
    <2>2. r \in Batch /\ runs[r].at = "done"
      BY <1>4, <1>7, <2>1, BatchPassed, CollectEffect
    <2>3. r \in Merged
      BY <2>1, <2>2, CollectEffect
    <2>4. conv' = runs[r].pool
      <3>1. PICK q \in Merged : Latest(q) /\ conv' = runs[q].pool
        BY <2>1, <2>3, CollectEffect
      <3>2. q \in Batch /\ runs[q].at = "done" /\ q \in Runs /\ r <= q
        BY <2>1, <2>3, <3>1, CollectEffect DEF Latest, Batch
      <3>3. ~(r < q)
        BY <1>4, <2>1, <2>2, <3>2, BatchIsOne, CollectEffect
      <3>4. r = q
        BY <3>2, <3>3 DEF Typed, Runs, SetupType
      <3> QED BY <3>1, <3>4
    <2>5. Shows(conv', w)
      BY <1>5, <2>2, <2>4 DEF OwnSeen
    <2>6. \A q \in Batch' : runs'[q].at = "idle"
      BY <1>1, <2>1, BatchPassed, CollectEffect DEF Phases, Batch
    <2> QED BY <2>5, <2>6 DEF Preserved, Shows
  <1> QED BY <1>6, <1>7

-----------------------------------------------------------------------------
(* The theorems. *)

\* The inductive invariant.
LEMMA Invariance == Spec => [](Typed /\ Provenance)
  <1>1. Init => Typed /\ Provenance
    BY TypedInit, ProvenanceInit
  <1>2. Typed /\ Provenance /\ [Next]_vars => (Typed /\ Provenance)'
    BY TypedNext, ProvenanceNext
  <1> QED BY <1>1, <1>2, PTL DEF Spec

\* Runs of one batch never see each other's writes: each works on a deep copy of the
\* variable pool (iteration.py, _build_child_graph).
THEOREM Isolation == Spec => []RunsIsolated
  <1>1. Typed /\ Provenance => RunsIsolated
    <2> SUFFICES ASSUME Typed, Provenance, NEW r \in Batch, NEW q \in Batch, r # q,
                        NEW w \in WritesOf(q)
                 PROVE  ~Shows(runs[r].pool, w)
      BY DEF RunsIsolated
    <2>1. /\ r \in Nat \ {0} /\ q \in Nat \ {0} /\ r \in Runs /\ next \in Nat
          /\ next <= r /\ next <= q /\ r < next + setup.width /\ q < next + setup.width
      BY DEF Batch, Runs, Typed, SetupType
    <2>2. ~IsLoop
      BY <2>1 DEF Typed
    <2>3. w.by = q
      BY DEF WritesOf, Write
    <2>4. ~Origin(w, r, Finished)
      BY <2>1, <2>3 DEF Origin, Finished
    <2> QED BY <2>1, <2>2, <2>4 DEF Provenance, Shows
  <1> QED BY <1>1, Invariance, PTL

\* What a failed item has written is never seen again, neither by its parent nor by
\* any other item (iteration.py: only the pools of successful items are merged).
THEOREM NoTrace == Spec => []FailureLeavesNoTrace
  <1>1. Typed /\ Provenance => FailureLeavesNoTrace
    <2> SUFFICES ASSUME Typed, Provenance, ~IsLoop, NEW r \in Runs, Failed(r),
                        NEW w \in WritesOf(r)
                 PROVE  /\ ~Shows(conv, w)
                        /\ \A q \in Runs \ {r} : ~Shows(runs[q].pool, w)
      BY DEF FailureLeavesNoTrace
    <2>1. r \in Nat \ {0} /\ w.by = r
      BY DEF Runs, Typed, SetupType, WritesOf, Write
    <2>2. \A q : q # r => ~Origin(w, q, Finished)
      BY <2>1 DEF Origin, Failed, Finished
    <2> QED BY <2>1, <2>2 DEF Provenance, Shows
  <1> QED BY <1>1, Invariance, PTL

\* The inductive invariant of what is kept.
KeptInv == Typed /\ Phases /\ SidePreserved /\ OwnSeen /\ Aligned /\ LastPreserved

\* The invariant that the theorems on what is kept rest on.
LEMMA KeptAlways == Spec => []KeptInv
  <1>1. Init => KeptInv
    BY TypedInit, PhasesInit, SideInit, OwnInit, AlignedInit, LastInit DEF KeptInv
  <1>2. KeptInv /\ [Next]_vars => KeptInv'
    BY TypedNext, PhasesNext, SideNext, OwnNext, AlignedNext, LastNext DEF KeptInv
  <1> QED BY <1>1, <1>2, PTL DEF Spec

\* Of each batch the writes of the last successful run are in the conversation variables
\* for good, although every later batch replaces these as a whole (iteration.py and
\* loop.py: a run's variables are merged when it is counted).
THEOREM LastRunKept == Spec => []LastOfBatchKept
  <1>1. KeptInv => LastOfBatchKept
    BY DEF KeptInv, LastPreserved, LastDone, SameBatch, Preserved, LastOfBatchKept
  <1> QED BY <1>1, KeptAlways, PTL

\* A write of another branch survives unless it was made while copies of the pool were
\* in use: also the rounds of a loop, which share the parent's variables, keep it.
THEOREM OtherBranchKept == Spec => []SideWritesKept
  <1>1. KeptInv => SideWritesKept
    BY DEF KeptInv, SidePreserved, Preserved, SideWritesKept
  <1> QED BY <1>1, KeptAlways, PTL

\* A run executes nodes of the branch it chose and, in a loop, of those chosen in the
\* rounds before, whose activations the shared checkpoint keeps.
THEOREM BranchesChosen == Spec => []RunsWhatWasChosen
  <1>1. Init => Typed /\ Phases /\ Chosen
    BY TypedInit, PhasesInit, ChosenInit
  <1>2. Typed /\ Phases /\ Chosen /\ [Next]_vars => (Typed /\ Phases /\ Chosen)'
    BY TypedNext, PhasesNext, ChosenNext
  <1>3. Chosen => RunsWhatWasChosen
    BY DEF Chosen, RunsWhatWasChosen
  <1> QED BY <1>1, <1>2, <1>3, PTL DEF Spec

\* Once a successful run with a break is counted, nothing of a later batch begins.
THEOREM BreakEnds == Spec => []NothingAfterStop
  <1>1. Init => Typed /\ Phases /\ Broken
    BY TypedInit, PhasesInit, BrokenInit
  <1>2. Typed /\ Phases /\ Broken /\ [Next]_vars => (Typed /\ Phases /\ Broken)'
    BY TypedNext, PhasesNext, BrokenNext
  <1>3. Broken => NothingAfterStop
    BY DEF Broken, NothingAfterStop
  <1> QED BY <1>1, <1>2, <1>3, PTL DEF Spec
-----------------------------------------------------------------------------
(* The output.  What NewOutputs computes for a batch of any width is proved by *)
(* induction, in the form: a set of numbers that is not empty has a least one. *)

\* A nonempty set of numbers has a least element: the induction of this module.
LEMMA LeastNumber ==
  ASSUME NEW T, T \subseteq Nat, T # {} PROVE \E x \in T : \A y \in T : x <= y
  <1> DEFINE Less == OpToRel(<, Nat)
  <1>1. IsWellFoundedOn(Less, Nat)
    BY NatLessThanWellFounded
  <1>2. \A x, y \in Nat : y < x => <<y, x>> \in Less
    BY DEF OpToRel
  <1> HIDE DEF Less
  <1>3. PICK x \in T : \A y \in T : ~(<<y, x>> \in Less)
    BY <1>1, WFMin
  <1>4. \A y \in T : x <= y
    <2> SUFFICES ASSUME NEW y \in T PROVE x <= y
      OBVIOUS
    <2>1. x \in Nat /\ y \in Nat /\ ~(y < x)
      BY <1>2, <1>3
    <2> QED BY <2>1
  <1> QED BY <1>4

\* The items of the batch that are in the output, and what is there for an item.
Shown(r) == /\ r \in Batch
            /\ r \in Merged \/ (setup.onError = "continue-on-error" /\ Failed(r))
Value(r) == IF Failed(r) THEN 0 ELSE r

\* NewOutputs is element number setup.width of a function with this equation.
AddedOf(g, k) ==
  IF k = 0 THEN <<>>
  ELSE IF Shown(next + k - 1) THEN Append(g[k - 1], Value(next + k - 1)) ELSE g[k - 1]
Adds(g, n) == g = [k \in 0..n |-> AddedOf(g, k)]

\* There is such a function for every width: it is extended by one value at a time.
LEMMA AddsExists == \A n \in Nat : \E g : Adds(g, n)
  <1> DEFINE Fails(n) == ~ \E g : Adds(g, n)
             T == {n \in Nat : Fails(n)}
  <1>1. ~Fails(0)
    <2> DEFINE g == [k \in 0..0 |-> <<>>]
    <2>1. Adds(g, 0)
      BY DEF Adds, AddedOf
    <2> QED BY <2>1
  <1>2. ASSUME NEW n \in Nat, ~Fails(n) PROVE ~Fails(n + 1)
    <2>1. PICK g : g = [k \in 0..n |-> AddedOf(g, k)]
      BY <1>2 DEF Adds
    <2> DEFINE h == [k \in 0..(n + 1) |-> IF k <= n THEN g[k] ELSE AddedOf(g, n + 1)]
    <2>2. ASSUME NEW k \in 0..(n + 1) PROVE h[k] = AddedOf(h, k)
      <3>1. k # 0 => h[k - 1] = g[k - 1]
        OBVIOUS
      <3>2. CASE k <= n
        <4>1. h[k] = AddedOf(g, k)
          BY <2>1, <3>2
        <4> QED BY <3>1, <4>1 DEF AddedOf
      <3>3. CASE k = n + 1
        <4>1. h[k] = AddedOf(g, k)
          BY <3>3
        <4> QED BY <3>1, <4>1 DEF AddedOf
      <3> QED BY <3>2, <3>3
    <2>3. Adds(h, n + 1)
      BY <2>2 DEF Adds
    <2> QED BY <2>3
  <1> HIDE DEF Fails
  <1>3. T = {}
    <2> SUFFICES ASSUME T # {} PROVE FALSE
      OBVIOUS
    <2>1. PICK n \in T : \A m \in T : n <= m
      BY LeastNumber
    <2>2. n \in Nat \ {0} /\ n - 1 \in Nat /\ n = (n - 1) + 1 /\ ~(n <= n - 1)
      BY <1>1, <2>1
    <2>3. ~Fails(n - 1)
      BY <2>1, <2>2
    <2> QED BY <1>2, <2>1, <2>2, <2>3
  <1> QED BY <1>3 DEF Fails

\* NewOutputs is the list that adding item after item ends with.
LEMMA NewOutputsAdded ==
  ASSUME setup.width \in Nat
  PROVE  \E g : Adds(g, setup.width) /\ NewOutputs = g[setup.width]
  <1>1. NewOutputs = (CHOOSE g : Adds(g, setup.width))[setup.width]
    BY DEF NewOutputs, Adds, AddedOf, Shown, Value
  <1> QED BY <1>1, AddsExists

\* The elements of such a function.
LEMMA AddedElement ==
  ASSUME NEW n \in Nat, NEW g, Adds(g, n), NEW k \in 0..n PROVE g[k] = AddedOf(g, k)
  <1>1. g = [m \in 0..n |-> AddedOf(g, m)]
    BY DEF Adds
  <1> QED BY <1>1, Zenon

\* What is computed are outputs of items: induction over the width again.
LEMMA AddedTypes ==
  ASSUME Typed, NEW g, Adds(g, setup.width)
  PROVE  \A k \in 0..setup.width : g[k] \in Seq(0..setup.items)
  <1> DEFINE T == {k \in 0..setup.width : g[k] \notin Seq(0..setup.items)}
  <1>1. setup.width \in Nat /\ setup.items \in Nat /\ next \in Nat
    BY DEF Typed, SetupType
  <1>2. g[0] \in Seq(0..setup.items)
    <2>1. g[0] = <<>>
      BY <1>1, AddedElement DEF AddedOf
    <2> QED BY <2>1
  <1>3. ASSUME NEW k \in 1..setup.width, g[k - 1] \in Seq(0..setup.items)
        PROVE  g[k] \in Seq(0..setup.items)
    <2> DEFINE r == next + k - 1
    <2>1. g[k] = AddedOf(g, k) /\ k # 0
      BY <1>1, AddedElement
    <2>2. g[k] = IF Shown(r) THEN Append(g[k - 1], Value(r)) ELSE g[k - 1]
      BY <2>1 DEF AddedOf
    <2>3. Shown(r) => Value(r) \in 0..setup.items
      BY <1>1 DEF Shown, Batch, Runs, Value
    <2> HIDE DEF r
    <2>4. CASE Shown(r)
      <3>1. g[k] = Append(g[k - 1], Value(r)) /\ Value(r) \in 0..setup.items
        BY <2>2, <2>3, <2>4
      <3> QED BY <1>3, <3>1
    <2>5. CASE ~Shown(r)
      BY <1>3, <2>2, <2>5
    <2> QED BY <2>4, <2>5
  <1>4. T = {}
    <2> SUFFICES ASSUME T # {} PROVE FALSE
      OBVIOUS
    <2>0. T \subseteq Nat
      BY <1>1
    <2>1. PICK k \in T : \A m \in T : k <= m
      BY <2>0, LeastNumber
    <2>2. k \in 1..setup.width /\ k - 1 \in 0..setup.width /\ ~(k <= k - 1)
      BY <1>1, <1>2, <2>1
    <2> QED BY <1>3, <2>1, <2>2
  <1> QED BY <1>4

\* The sequence s lists the items of S in their order.
Place(r, S) == Cardinality({q \in S : q <= r})
Lists(s, S) ==
  /\ s \in Seq(0..setup.items) /\ Len(s) = Cardinality(S)
  /\ \A r \in S : s[Place(r, S)] = Value(r)

\* A value is added for an item behind those that are listed.
LEMMA ListsOneMore ==
  ASSUME Typed, NEW s, NEW S, S \subseteq Runs, Lists(s, S),
         NEW r \in Runs, \A q \in S : q < r
  PROVE  Lists(Append(s, Value(r)), S \cup {r})
  <1> DEFINE more == S \cup {r}
             longer == Append(s, Value(r))
  <1>1. Runs \subseteq Nat /\ setup.items \in Nat /\ Runs = 1..setup.items
    BY DEF Runs, Typed, SetupType
  <1>2. IsFiniteSet(S) /\ r \notin S
    <2>1. IsFiniteSet(Runs)
      BY <1>1, FS_Interval
    <2>2. IsFiniteSet(S)
      BY <2>1, FS_Subset
    <2>3. ~(r < r)
      BY <1>1
    <2> QED BY <2>2, <2>3
  <1>3. Cardinality(S) \in Nat /\ Cardinality(more) = Cardinality(S) + 1
    BY <1>2, FS_AddElement, FS_CardinalityType
  <1>4. Value(r) \in 0..setup.items
    BY <1>1 DEF Value, Runs
  <1>5. /\ longer \in Seq(0..setup.items) /\ Len(longer) = Cardinality(S) + 1
        /\ longer[Cardinality(S) + 1] = Value(r)
        /\ \A i \in 1..Cardinality(S) : longer[i] = s[i]
    BY <1>3, <1>4 DEF Lists
  <1>6. ASSUME NEW q \in more PROVE longer[Place(q, more)] = Value(q)
    <2>1. CASE q = r
      <3>1. {p \in more : p <= r} = more
        <4>1. ASSUME NEW p \in more PROVE p <= r
          <5>1. p \in Nat /\ r \in Nat
            BY <1>1
          <5> QED BY <5>1
        <4> QED BY <4>1
      <3> QED BY <1>3, <1>5, <2>1, <3>1 DEF Place
    <2>2. CASE q \in S
      <3>1. {p \in more : p <= q} = {p \in S : p <= q}
        BY <1>1, <2>2
      <3>2. Place(q, S) \in 1..Cardinality(S)
        <4> DEFINE before == {p \in S : p <= q}
        <4>1. before \subseteq S /\ q \in before
          BY <1>1, <2>2
        <4> HIDE DEF before
        <4>2. IsFiniteSet(before) /\ Cardinality(before) <= Cardinality(S)
          BY <1>2, <4>1, FS_Subset
        <4>3. Cardinality(before) \in Nat /\ Cardinality(before) # 0
          BY <4>1, <4>2, FS_EmptySet, FS_CardinalityType
        <4>4. Cardinality(before) \in 1..Cardinality(S)
          BY <1>3, <4>2, <4>3
        <4> QED BY <4>4 DEF before, Place
      <3>3. Place(q, more) = Place(q, S)
        BY <3>1 DEF Place
      <3> QED BY <1>5, <2>2, <3>2, <3>3 DEF Lists
    <2> QED BY <2>1, <2>2
  <1> QED BY <1>3, <1>5, <1>6 DEF Lists

\* The items before number n that belong in the output, unless the node has failed.
Listed(n) == {r \in Runs : r < n /\ (Failed(r) => setup.onError = "continue-on-error")}

\* Counting a batch lists its items: induction over the items of the batch.
LEMMA BatchListed ==
  ASSUME Typed, ~Aborts, Lists(outputs, Listed(next))
  PROVE  Lists(outputs \o NewOutputs, Listed(next + setup.width))
  <1>1. setup.width \in Nat /\ setup.items \in Nat /\ next \in Nat /\ Runs \subseteq Nat
    BY DEF Typed, SetupType, Runs
  <1>2. PICK g : Adds(g, setup.width) /\ NewOutputs = g[setup.width]
    BY <1>1, NewOutputsAdded
  <1>3. outputs \in Seq(0..setup.items)
    BY DEF Lists
  <1> DEFINE Listing(k) == Lists(outputs \o g[k], Listed(next + k))
             T == {k \in 0..setup.width : ~Listing(k)}
  <1>4. Listing(0)
    <2>1. g[0] = <<>> /\ next + 0 = next
      BY <1>1, <1>2 DEF Adds, AddedOf
    <2>2. outputs \o g[0] = outputs
      BY <1>3, <2>1
    <2> QED BY <2>1, <2>2
  <1>5. ASSUME NEW k \in 1..setup.width, Listing(k - 1) PROVE Listing(k)
    <2> DEFINE r == next + k - 1
    <2>1. /\ g[k] = IF Shown(r) THEN Append(g[k - 1], Value(r)) ELSE g[k - 1]
          /\ g[k - 1] \in Seq(0..setup.items)
      <3>1. k \in 0..setup.width /\ k - 1 \in 0..setup.width /\ k # 0
        BY <1>1
      <3>2. g[k] = AddedOf(g, k)
        BY <1>1, <1>2, <3>1, AddedElement
      <3>3. g[k - 1] \in Seq(0..setup.items)
        BY <1>2, <3>1, AddedTypes
      <3> QED BY <3>1, <3>2, <3>3 DEF AddedOf
    <2>2. Shown(r) <=> r \in Runs /\ (Failed(r) => setup.onError = "continue-on-error")
      <3>1. r \in Runs <=> r \in Batch
        BY <1>1 DEF Batch
      <3>2. \A q \in Batch : Counted(q) /\ (Failed(q) => setup.onError # "terminated")
        BY DEF Aborts, Counted
      <3> QED BY <3>1, <3>2 DEF Shown, Merged
    <2>3. r \in Nat /\ next + (k - 1) = r /\ next + k = r + 1
      BY <1>1
    <2>4. Lists(outputs \o g[k - 1], Listed(r))
      BY <1>5, <2>3
    <2> HIDE DEF r
    <2>5. CASE Shown(r)
      <3>1. Value(r) \in 0..setup.items
        BY <1>1, <2>2, <2>5 DEF Value, Runs
      <3>2. outputs \o Append(g[k - 1], Value(r)) = Append(outputs \o g[k - 1], Value(r))
        BY <1>3, <2>1, <3>1
      <3>3. Listed(r + 1) = Listed(r) \cup {r}
        <4>1. \A q \in Runs : q < r + 1 <=> (q < r \/ q = r)
          BY <1>1, <2>3
        <4> QED BY <2>2, <2>5, <4>1 DEF Listed
      <3>4. Listed(r) \subseteq Runs /\ r \in Runs /\ \A q \in Listed(r) : q < r
        BY <2>2, <2>5 DEF Listed
      <3>5. Lists(Append(outputs \o g[k - 1], Value(r)), Listed(r) \cup {r})
        BY <2>4, <3>4, ListsOneMore
      <3> QED BY <2>1, <2>3, <2>5, <3>2, <3>3, <3>5
    <2>6. CASE ~Shown(r)
      <3>1. Listed(r + 1) = Listed(r)
        <4>1. \A q \in Runs : q < r + 1 <=> (q < r \/ q = r)
          BY <1>1, <2>3
        <4> QED BY <2>2, <2>6, <4>1 DEF Listed
      <3> QED BY <2>1, <2>3, <2>4, <2>6, <3>1
    <2> QED BY <2>5, <2>6
  <1> HIDE DEF Listing
  <1>6. T = {}
    <2> SUFFICES ASSUME T # {} PROVE FALSE
      OBVIOUS
    <2>0. T \subseteq Nat
      BY <1>1
    <2>1. PICK k \in T : \A m \in T : k <= m
      BY <2>0, LeastNumber
    <2>2. k \in 1..setup.width /\ k - 1 \in 0..setup.width /\ ~(k <= k - 1)
      BY <1>1, <1>4, <2>1
    <2> QED BY <1>5, <2>1, <2>2
  <1> QED BY <1>1, <1>2, <1>6 DEF Listing

\* The output of a node that has not failed lists the items that have been counted.
OutputInv ==
  /\ outputs \in Seq(0..setup.items)
  /\ ~IsLoop /\ node # "failed" => Lists(outputs, Listed(next))

\* At first nothing is listed.
LEMMA OutputInit == Init => OutputInv
  <1> SUFFICES ASSUME Init PROVE OutputInv
    OBVIOUS
  <1>1. Listed(1) = {}
    <2>1. \A r \in Runs : ~(r < 1)
      BY SetupAssumption DEF Init, Runs, SetupType
    <2> QED BY <2>1 DEF Listed
  <1>2. Cardinality({}) = 0
    BY FS_EmptySet
  <1>3. outputs \in Seq(0..setup.items) /\ Len(outputs) = 0 /\ next = 1
    BY DEF Init
  <1> QED BY <1>1, <1>2, <1>3 DEF OutputInv, Lists

\* Only counting a batch adds to the output, and no counted item changes its outcome.
LEMMA OutputNext == ASSUME Typed, Phases, OutputInv, [Next]_vars PROVE OutputInv'
  <1>1. setup' = setup /\ Runs' = Runs /\ (IsLoop <=> IsLoop')
    BY NextKeepsSetup, SetupKept
  <1>2. CASE Collect
    <2>1. /\ next' = next + setup.width /\ runs' = runs
          /\ outputs' = IF IsLoop THEN outputs ELSE outputs \o NewOutputs
          /\ node = "run" /\ (node' # "failed" => ~Aborts)
      BY <1>2 DEF Collect, NextRun
    <2>2. setup.width \in Nat
      BY DEF Typed, SetupType
    <2>3. NewOutputs \in Seq(0..setup.items)
      BY <2>2, NewOutputsAdded, AddedTypes
    <2>4. outputs' \in Seq(0..setup.items)
      <3>1. outputs \in Seq(0..setup.items)
        BY DEF OutputInv
      <3>2. outputs \o NewOutputs \in Seq(0..setup.items)
        BY <2>3, <3>1
      <3> QED BY <2>1, <3>1, <3>2
    <2>5. ASSUME ~IsLoop, node' # "failed"
          PROVE  Lists(outputs', Listed(next'))
      BY <2>1, <2>5, BatchListed DEF OutputInv
    <2>6. Listed(next)' = Listed(next') /\ \A r \in Runs : Value(r)' = Value(r)
      BY <1>1, <2>1 DEF Listed, Failed, Value
    <2>7. Listed(next') \subseteq Runs
      BY DEF Listed
    <2> QED BY <1>1, <2>4, <2>5, <2>6, <2>7 DEF OutputInv, Lists, Place
  <1>3. CASE ~Collect
    <2>1. next' = next /\ outputs' = outputs
      BY <1>3 DEF Next, Goes, Start, Route, Exec, Return, Fail, Complete, Timeout, Aside, vars
    <2>2. \A r \in Runs : r < next => runs'[r].at = runs[r].at
      BY EndedStays DEF Phases
    <2>3. Listed(next)' = Listed(next)
      BY <1>1, <2>1, <2>2 DEF Listed, Failed
    <2>4. \A r \in Listed(next) : Value(r)' = Value(r)
      BY <2>2 DEF Value, Failed, Listed
    <2>5. node' # "failed" => node # "failed"
      BY FailedStays
    <2> QED BY <1>1, <2>1, <2>3, <2>4, <2>5 DEF OutputInv, Lists, Place
  <1> QED BY <1>2, <1>3

\* The output lists the items in their order, a failed one as the default value or not
\* at all: however the runs of a batch of any width interleave, they are counted by
\* their index (iteration.py, run).
THEOREM OutputsInOrder == Spec => []OutputsMatchItems
  <1>1. Init => Typed /\ Phases /\ OutputInv
    BY TypedInit, PhasesInit, OutputInit
  <1>2. Typed /\ Phases /\ OutputInv /\ [Next]_vars => (Typed /\ Phases /\ OutputInv)'
    BY TypedNext, PhasesNext, OutputNext
  <1>3. OutputInv => OutputsMatchItems
    BY DEF OutputInv, Lists, Listed, Place, Value, OutputsMatchItems
  <1> QED BY <1>1, <1>2, <1>3, PTL DEF Spec

-----------------------------------------------------------------------------
(* Types. *)

FieldsTyped(x) ==
  /\ x.at \in {"idle", "route", "exec", "done", "failed"} /\ x.route \in Labels \cup {NoRoute}
  /\ x.todo \subseteq Nodes /\ x.ran \subseteq Nodes /\ x.stopped \in BOOLEAN

\* A run that executes has chosen its branch; the rounds of a loop that goes on have
\* ended well.
RunRouted(r) ==
  /\ FieldsTyped(runs[r])
  /\ runs[r].at \in {"exec", "done"} => runs[r].route \in Labels

Routed ==
  /\ setup \in Setups
  /\ \A r \in Runs : RunRouted(r)
  /\ IsLoop /\ node # "failed" => \A r \in Runs : r < next => runs[r].at = "done"

\* At first no run has chosen anything.
LEMMA RoutedInit == Init => Routed
  <1> SUFFICES ASSUME Init PROVE Routed
    OBVIOUS
  <1>1. \A r \in Runs : r \in Nat /\ ~(r < 1)
    BY SetupAssumption DEF Init, Runs, SetupType
  <1>2. FieldsTyped(Fresh)
    BY DEF Fresh, FieldsTyped
  <1> QED BY <1>1, <1>2 DEF Init, Routed, RunRouted, Fresh

\* The nodes with which a round begins: the branches activated before it are branches.
LEMMA BeginsWithNodes ==
  ASSUME Typed, Phases, Routed, node = "run", NEW r \in Runs, runs[r].at = "route",
         NEW l \in Labels
  PROVE  {<<m, 1>> : m \in Activated(r, l)} \subseteq Nodes
  <1>1. Activated(r, l) \subseteq Labels
    <2>1. CASE IsLoop
      <3>1. /\ Runs = 1..setup.items /\ setup.items \in Nat /\ next \in Nat /\ setup.width = 1
        BY <2>1 DEF Runs, Typed, SetupType
      <3>2. ~(r < next) /\ ~(r >= next + 1)
        BY <3>1 DEF Phases
      <3>3. r = next
        BY <3>1, <3>2
      <3>4. \A q \in 1..(r - 1) : q \in Runs /\ q < next
        BY <3>1, <3>3
      <3> QED BY <2>1, <3>4 DEF Routed, RunRouted, Activated
    <2>2. CASE ~IsLoop
      BY <2>2 DEF Activated
    <2> QED BY <2>1, <2>2
  <1>2. \A m \in Labels : <<m, 1>> \in Nodes
    <2> SUFFICES ASSUME NEW m \in Labels PROVE <<m, 1>> \in Nodes
      OBVIOUS
    <2>1. setup.body[m] \in Seq({"write", "work", "stop"}) /\ setup.body[m] # <<>>
      BY DEF Typed, SetupType
    <2>2. 1 \in 1..Len(setup.body[m])
      BY <2>1
    <2> QED BY <2>2 DEF Nodes
  <1> QED BY <1>1, <1>2

\* Every step keeps what is said of the routes.
LEMMA RoutedNext == ASSUME Typed, Phases, Routed, [Next]_vars PROVE Routed'
  <1>1. /\ setup' = setup /\ Runs' = Runs /\ Labels' = Labels /\ Nodes' = Nodes
        /\ (IsLoop <=> IsLoop')
    BY NextKeepsSetup, SetupKept
  <1>2. node' # "failed" => node # "failed"
    BY FailedStays
  <1>3. CASE ~Collect
    <2>1. next' = next
      BY <1>3 DEF Next, Goes, Start, Route, Exec, Return, Fail, Complete, Timeout, Aside, vars
    <2>2. \A r \in Runs : r < next => runs'[r].at = runs[r].at
      BY EndedStays DEF Phases
    <2>3. ASSUME NEW r \in Runs PROVE RunRouted(r)'
      <3> USE <1>1 DEF RunRouted, FieldsTyped
      <3>1. RunRouted(r)
        BY DEF Routed
      <3>2. CASE Start
        BY <3>1, <3>2, StartEffect
      <3>3. ASSUME NEW q \in Runs, Route(q) PROVE RunRouted(r)'
        <4>1. CASE q # r
          BY <3>1, <3>3, <4>1, RouteEffect
        <4>2. CASE q = r
          <5>1. PICK l \in Labels : /\ runs'[r].route = l
                                    /\ runs'[r].todo = {<<m, 1>> : m \in Activated(r, l)}
            BY <3>3, <4>2, RouteEffect
          <5>2. runs'[r].todo \subseteq Nodes
            BY <3>3, <4>2, <5>1, RouteEffect, BeginsWithNodes DEF Route
          <5> QED BY <3>1, <3>3, <4>2, <5>1, <5>2, RouteEffect
        <4> QED BY <4>1, <4>2
      <3>4. ASSUME NEW q \in Runs, Return(q) \/ Fail(q) PROVE RunRouted(r)'
        BY <3>1, <3>4, EndEffect
      <3>5. ASSUME NEW q \in Runs, NEW n \in Nodes, Exec(q, n) PROVE RunRouted(r)'
        BY <3>1, <3>5, ExecEffect
      <3>6. CASE Rests
        BY <3>1, <3>6 DEF Rests
      <3> QED BY <1>3, <3>2, <3>3, <3>4, <3>5, <3>6, Happens
    <2> QED BY <1>1, <1>2, <2>1, <2>2, <2>3 DEF Routed
  <1>4. CASE Collect
    <2>1. runs' = runs /\ \A r \in Batch : runs[r].at \in {"done", "failed"}
      BY <1>4, CollectEffect
    <2>2. ASSUME IsLoop, node' # "failed", NEW r \in Runs, r < next' PROVE runs[r].at = "done"
      <3>1. setup.onError = "terminated"
        BY <2>2, SetupAssumption DEF Routed, IsLoop
      <3>2. \A q \in Batch : runs[q].at = "done"
        BY <1>4, <2>1, <2>2, <3>1 DEF Collect, Aborts, Failed
      <3>3. r < next \/ r \in Batch
        BY <1>4, <2>2, BatchPassed
      <3> QED BY <1>2, <2>2, <3>2, <3>3 DEF Routed
    <2> QED BY <1>1, <2>1, <2>2 DEF Routed, RunRouted, FieldsTyped
  <1> QED BY <1>3, <1>4

\* The other variables.
RestTyped ==
  /\ next <= setup.items + setup.width /\ looping \in BOOLEAN
  /\ node \in {"run", "completed", "failed"} /\ crossed \subseteq 1..side

\* The other variables start with their types.
LEMMA RestInit == Init => RestTyped
  <1> SUFFICES ASSUME Init PROVE RestTyped
    OBVIOUS
  <1>1. setup.items \in Nat /\ setup.width \in Nat \ {0}
    BY SetupAssumption DEF Init, SetupType
  <1> QED BY <1>1 DEF Init, RestTyped

\* A batch that is counted has begun, so that the next one begins at most one width
\* behind the last item.
LEMMA RestNext == ASSUME Typed, RestTyped, [Next]_vars PROVE RestTyped'
  <1>1. setup' = setup
    BY NextKeepsSetup
  <1>2. CASE Collect
    <2>1. PICK r \in Batch : runs[r].at # "idle"
      BY <1>2 DEF Collect, InFlight
    <2>2. /\ setup.items \in Nat /\ setup.width \in Nat /\ next \in Nat
          /\ r \in 1..setup.items /\ next <= r
      BY DEF Typed, SetupType, Batch, Runs
    <2>3. next' = next + setup.width
      BY <1>2, CollectEffect
    <2> QED BY <1>1, <1>2, <2>2, <2>3 DEF Collect, RestTyped
  <1>3. CASE Aside
    <2>1. /\ side \in Nat /\ side' = side + 1 /\ UNCHANGED <<next, looping, node>>
          /\ crossed' = crossed \/ crossed' = crossed \cup {side'}
      BY <1>3, SetupAssumption DEF Aside, Typed
    <2>2. 1..side \subseteq 1..side' /\ side' \in 1..side'
      BY <2>1
    <2>3. crossed' \subseteq 1..side'
      BY <2>1, <2>2 DEF RestTyped
    <2> QED BY <1>1, <2>1, <2>3 DEF RestTyped
  <1>4. CASE ~Collect /\ ~Aside
    <2>1. /\ UNCHANGED <<next, looping, side, crossed>>
          /\ node' \in {node, "completed", "failed"}
      BY <1>4 DEF Next, Goes, Start, Route, Exec, Return, Fail, Complete, Timeout, vars
    <2> QED BY <1>1, <2>1 DEF RestTyped
  <1> QED BY <1>2, <1>3, <1>4

\* Every variable keeps its type; among others, a round of a loop never activates a
\* branch that does not exist, and the index never runs away from the list.
THEOREM CycleTypeCorrect == Spec => []TypeOK
  <1> DEFINE Inv == Typed /\ Phases /\ OutputInv /\ Routed /\ RestTyped
  <1>1. Init => Inv
    BY TypedInit, PhasesInit, OutputInit, RoutedInit, RestInit
  <1>2. Inv /\ [Next]_vars => Inv'
    BY TypedNext, PhasesNext, OutputNext, RoutedNext, RestNext
  <1>3. Inv => TypeOK
    <2> SUFFICES ASSUME Inv PROVE TypeOK
      OBVIOUS
    <2> DEFINE Record == [at : {"idle", "route", "exec", "done", "failed"},
                          pool : Seq(Entries), route : Labels \cup {NoRoute},
                          todo : SUBSET Nodes, ran : SUBSET Nodes, stopped : BOOLEAN]
    <2>1. \A r \in Runs : runs[r] \in Record
      <3> SUFFICES ASSUME NEW r \in Runs PROVE runs[r] \in Record
        OBVIOUS
      <3>1. PICK x : x = runs[r]
        OBVIOUS
      <3>2. IsRun(x, Entries) /\ FieldsTyped(x)
        BY <3>1 DEF Typed, Routed, RunRouted
      <3>3. x \in Record
        BY <3>2 DEF IsRun, FieldsTyped
      <3> QED BY <3>1, <3>3
    <2>2. runs \in [Runs -> Record]
      BY <2>1 DEF Typed
    <2>3. next \in 1..(setup.items + setup.width)
      BY DEF Typed, RestTyped, SetupType
    <2>4. side \in 0..MaxSide /\ conv \in Seq(Entries)
      BY DEF Typed
    <2> HIDE DEF Record
    <2> QED BY <2>2, <2>3, <2>4 DEF Record, TypeOK, OutputInv, Routed, RestTyped
  <1> HIDE DEF Inv
  <1> QED BY <1>1, <1>2, <1>3, PTL DEF Spec

=============================================================================
