---------------------------- MODULE StreamOutput ----------------------------
(***************************************************************************)
(* How the answer of a workflow is streamed to the client.  The graph runs *)
(* in supersteps; its nodes put chunks and updates on a queue of events,   *)
(* and one consumer turns them into messages.  The template of each End    *)
(* (and Output) node is a sequence of literals and variables; an End is    *)
(* activated when the branches and the Output nodes above it are resolved, *)
(* at the latest by its own completion, and Ends are shown one at a time.  *)
(* A human-intervention node ends the stream; the resumed one starts with  *)
(* a new coordinator rebuilt from the graph's state.                       *)
(***************************************************************************)
EXTENDS Integers, Sequences, FiniteSets, SequencesExt

CONSTANTS Workflows,     \* the graphs, see IsWorkflow
          Chunks,        \* chunks of one field of a language model's answer
          MaxAttempts    \* attempts of a language model call

NoEnd == "none"
Kinds == {"start", "plain", "llm", "branch", "human", "end"}
Stages == {"idle", "emit", "replay", "resume", "flush", "over"}

\* How a model writes its answer: the pieces of reasoning, then those of output; both in
\* one piece; no pieces of reasoning, though there may be some within the output; or cut
\* off by a stop sequence.
Manners == {"turns", "mixed", "inline", "stopped"}

\* A graph: its nodes in topological order, their kinds and the edges between them;
\* the template of each End (a literal is a segment without a node), the models whose
\* reasoning is extracted, how each writes, and those that handle errors by a branch.
IsWorkflow(w) ==
  LET nodes == DOMAIN w.kind
      ofKind(k) == {n \in nodes : w.kind[n] = k}
  IN  /\ w.kind \in [nodes -> Kinds] /\ w.start \in ofKind("start")
      /\ w.order \in Seq(nodes) /\ \A n \in nodes : \E i \in 1..Len(w.order) : w.order[i] = n
      /\ \A i, j \in 1..Len(w.order) : w.order[i] = w.order[j] => i = j
      /\ {NoEnd, ""} \cap nodes = {}
      /\ \A e \in w.edges : e.from \in nodes /\ e.to \in nodes /\ e.label \in STRING
      /\ w.template \in [ofKind("end") -> Seq([node : STRING, field : STRING]) \ {<<>>}]
      /\ w.reasoning \subseteq ofKind("llm") /\ w.manner \in [ofKind("llm") -> Manners]
      /\ w.guarded \subseteq ofKind("llm")

ASSUME WorkflowAssumption ==
  /\ Chunks \in Nat /\ MaxAttempts \in Nat \ {0}
  /\ \A w \in Workflows : IsWorkflow(w)

\* What the validator and the builder make sure of: one entry, no cycle (every set of
\* nodes has one without an edge from another of them), no node that cannot be reached.
IsValid(w) ==
  LET nodes == DOMAIN w.kind
      Into(n) == {e \in w.edges : e.to = n}
  IN  /\ \A n \in nodes : w.kind[n] = "start" => n = w.start
      /\ \A S \in SUBSET nodes : S # {} => \E n \in S : \A e \in Into(n) : e.from \notin S
      /\ \A n \in nodes \ {w.start} : Into(n) # {}

\* What the editor writes: edges of routing nodes have a label, those of models
\* "SUCCESS", or "ERROR" if errors are handled by a branch; no node is called "sys".
IsLabelled(w) ==
  /\ "sys" \notin DOMAIN w.kind
  /\ \A e \in w.edges :
       /\ w.kind[e.from] \in {"branch", "human"} => e.label # ""
       /\ w.kind[e.from] = "llm" =>
            e.label = "SUCCESS" \/ (e.label = "ERROR" /\ e.from \in w.guarded)

ASSUME ValidAssumption == \A w \in Workflows : IsValid(w) /\ IsLabelled(w)

VARIABLES wf,        \* the workflow that runs
          deps,      \* what each node's activation depends on, see Dependencies
          at,        \* unit of the compiled graph -> "idle", "run" or "done"
          live,      \* unit -> does it execute, or is it only passed through
          taken,     \* branching node -> label of the branch it chose
          sent,      \* language model -> chunk events of the current attempt
          tries,     \* language model -> failed attempts
          pool,      \* nodes whose output is in the variable pool
          abreast,   \* have two nodes ever executed in one superstep
          events,    \* what the graph has emitted and the consumer not handled
          coord,     \* the StreamOutputCoordinator
          stage,     \* what the consumer is doing
          shown,     \* what the client has received
          cut        \* parts shown before the interruption, -1 without one

vars == <<wf, deps, at, live, taken, sent, tries, pool, abreast, events, coord,
          stage, shown, cut>>

graph == <<wf, deps, at, live, taken, sent, tries, pool, abreast>>

-----------------------------------------------------------------------------
(* The workflow *)

Nodes == DOMAIN wf.kind
Ends == {n \in Nodes : wf.kind[n] = "end"}
Models == {n \in Nodes : wf.kind[n] = "llm"}

\* The elements of s that are in S, in their order.
Keep(s, S) ==
  LET kept[i \in 0..Len(s)] ==
        IF i = 0 THEN <<>>
        ELSE IF s[i] \in S THEN Append(kept[i - 1], s[i]) ELSE kept[i - 1]
  IN  kept[Len(s)]
EndOrder == Keep(wf.order, Ends)

\* Nodes whose outgoing edges are routed by a condition.
Routing == {n \in Nodes : wf.kind[n] \in {"branch", "human", "llm"}}

\* Units of the compiled graph: <<n, "">> is node n, <<n, l>> the NOP node in
\* which the edges of n with label l begin.
Units == {<<n, "">> : n \in Nodes}
           \cup {<<e.from, e.label>> : e \in {d \in wf.edges : d.from \in Routing}}

Preds(u) == IF u[2] # "" THEN {<<u[1], "">>}
            ELSE {<<e.from, IF e.from \in Routing THEN e.label ELSE "">> :
                    e \in {d \in wf.edges : d.to = u[1]}}

Labels(n) == {e.label : e \in {d \in wf.edges : d.from = n}}

\* The chunk events of a language model, in order: for each field its chunks,
\* numbered from 1, and the event that it is done, numbered Chunks + 1.  Where output is
\* searched for stop sequences it is held back until the reasoning is done, and the
\* chunk that completes one is not sent.
Stream(n) ==
  LET R == "reasoning_content"
      O == "output"
      Pieces(f, last) == [k \in 1..last |-> [node |-> n, field |-> f, k |-> k]]
      Over(f) == << [node |-> n, field |-> f, k |-> Chunks + 1] >>
      both == [i \in 1..(2 * Chunks) |-> [node |-> n, field |-> IF i % 2 = 1 THEN R ELSE O,
                                         k |-> (i + 1) \div 2]]
      output == Pieces(O, IF wf.manner[n] = "stopped" THEN Chunks - 1 ELSE Chunks) \o Over(O)
  IN  CASE n \notin wf.reasoning     -> output
        [] wf.manner[n] = "mixed"    -> both \o Over(R) \o Over(O)
        [] wf.manner[n] = "inline"   -> Pieces(O, Chunks) \o Over(R) \o Over(O)
        [] OTHER                     -> Pieces(R, Chunks) \o Over(R) \o output
Done(event) == event.k = Chunks + 1

\* Edges into n that are a branch of their source: a model routes its outgoing
\* edges, too, but can take another one only if it handles errors by a branch.
BranchesOfAny(n) == {e \in wf.edges : e.to = n /\ wf.kind[e.from] \in {"branch", "human"}}
Branches(n) == {e \in wf.edges : e.to = n /\ e.from \in Routing
                                   /\ (wf.kind[e.from] = "llm" => e.from \in wf.guarded)}

\* The branches that decide whether n executes, and the Output nodes above it
\* that have to complete first; nothing if some path from the start is free of
\* both.
Dependencies ==
  LET Others(n) == {e.from : e \in {d \in wf.edges : d.to = n} \ Branches(n)}
      D[n \in Nodes] ==
        LET clean == {m \in Others(n) : D[m].ctrl = {} /\ D[m].outs = {} /\ m \notin Ends}
            direct == {<<e.from, e.label>> : e \in Branches(n)}
        IN  IF wf.kind[n] = "start" \/ clean # {} THEN [ctrl |-> {}, outs |-> {}]
            ELSE [ctrl |-> IF \E m \in Others(n) : D[m].ctrl = {} THEN {}
                           ELSE direct \cup UNION {D[m].ctrl : m \in Others(n)},
                  outs |-> (Others(n) \cap Ends) \cup UNION {D[m].outs : m \in Others(n)}]
  IN  D

-----------------------------------------------------------------------------
(* The coordinator *)

\* State of the output of one End: next segment; has a branch led to it; Output
\* nodes that are left; scopes whose variables may be shown; active; completed.
StartOutput(n) ==
  [cursor |-> 1, branched |-> deps[n].ctrl = {}, outs |-> deps[n].outs, heard |-> {},
   active |-> deps[n].ctrl = {} /\ deps[n].outs = {}, force |-> FALSE]

NewCoordinator == [ends |-> [e \in Ends |-> StartOutput(e)], current |-> NoEnd,
                   queue |-> <<>>, processed |-> {}, streamed |-> {}]

NoticeUnforced(o, e, scope, status) ==
  LET branched == o.branched \/ <<scope, status>> \in deps[e].ctrl
      outs == o.outs \ {scope}
  IN  [o EXCEPT !.branched = branched, !.outs = outs, !.heard = @ \cup {scope},
                !.active = @ \/ scope = e \/ (branched /\ outs = {})]
\* The effect of a completed scope on the output o of End e.
Notice(o, e, scope, status) ==
  IF o.force THEN o
  ELSE IF scope = e THEN [o EXCEPT !.active = TRUE, !.force = TRUE]
  ELSE LET branched == o.branched \/ <<scope, status>> \in deps[e].ctrl
           outs == o.outs \ {scope}
       IN  [o EXCEPT !.branched = branched, !.outs = outs, !.heard = @ \cup {scope},
                     !.active = @ \/ (branched /\ outs = {})]

\* An End becomes the current one when there is none.
NextEnd(c) == IF c.current = NoEnd /\ c.queue # <<>>
              THEN [c EXCEPT !.current = Head(c.queue), !.queue = Tail(c.queue)] ELSE c

UpdateScopeAtOnce(c, scope, status) ==
  LET ends == [e \in DOMAIN c.ends |-> Notice(c.ends[e], e, scope, status)]
      woken == Keep(EndOrder, {e \in DOMAIN ends : ends[e].active} \ c.processed)
  IN  IF woken = <<>> THEN NextEnd([c EXCEPT !.ends = ends])
      ELSE [c EXCEPT !.ends = ends, !.current = Head(woken),
                     !.queue = (IF c.current = NoEnd THEN <<>> ELSE <<c.current>>) \o @ \o Tail(woken),
                     !.processed = @ \cup Range(woken)]
\* Every End hears of the scope; those that become active queue up.
UpdateScope(c, scope, status) ==
  LET ends == [e \in DOMAIN c.ends |-> Notice(c.ends[e], e, scope, status)]
      woken == Keep(EndOrder, {e \in DOMAIN ends : ends[e].active} \ c.processed)
  IN  NextEnd([c EXCEPT !.ends = ends, !.queue = @ \o woken,
                        !.processed = @ \cup Range(woken)])

PopEnd(c) == [c EXCEPT !.ends = [e \in DOMAIN c.ends \ {c.current} |-> c.ends[e]],
                       !.current = NoEnd]

AdvanceOnly(c) == [c EXCEPT !.ends[c.current].cursor = @ + 1]
\* The cursor of the current End moves on; behind the last segment it is done.
Advance(c) ==
  LET i == c.ends[c.current].cursor + 1
      moved == [c EXCEPT !.ends[c.current].cursor = i]
  IN  IF i > Len(wf.template[c.current]) THEN PopEnd(moved) ELSE moved

Segment(c) == wf.template[c.current][c.ends[c.current].cursor]
IsVariable(seg) == seg.node # ""

\* What is shown of the segment under the cursor: literal, value or nothing.
Part(c, k) == [end |-> c.current, at |-> c.ends[c.current].cursor,
               node |-> Segment(c).node, field |-> Segment(c).field, k |-> k]
Whole(c) == IF IsVariable(Segment(c)) => Segment(c).node \in pool THEN <<Part(c, 0)>> ELSE <<>>

-----------------------------------------------------------------------------
Init ==
  /\ wf \in Workflows /\ deps = Dependencies
  /\ at = [u \in Units |-> "idle"]
  /\ live = [u \in Units |-> u = <<wf.start, "">>]
  /\ taken = [n \in Routing |-> ""]
  /\ sent = [n \in Models |-> 0] /\ tries = [n \in Models |-> 0]
  /\ pool = {"sys"} /\ abreast = FALSE
  /\ events = <<>>
  /\ coord = UpdateScope(NewCoordinator, "sys", "")
  /\ stage = "idle" /\ shown = <<>> /\ cut = -1

(* The graph *)

Running == {u \in Units : at[u] = "run"}
IsNode(u) == u[2] = ""
Interrupting(u) == IsNode(u) /\ wf.kind[u[1]] = "human" /\ live[u] /\ cut = -1

\* The next superstep: all units whose predecessors are finished run, once the
\* consumer has taken all that the last one emitted.
Step ==
  LET ready == {u \in Units : at[u] = "idle" /\ \A p \in Preds(u) : at[p] = "done"}
      lives(u) == \/ u = <<wf.start, "">>
                  \/ ~IsNode(u) /\ live[<<u[1], "">>] /\ taken[u[1]] = u[2]
                  \/ IsNode(u) /\ \E p \in Preds(u) : live[p]
  IN  /\ Running = {} /\ ready # {} /\ stage = "idle" /\ events = <<>>
      /\ at' = [u \in Units |-> IF u \in ready THEN "run" ELSE at[u]]
      /\ live' = [u \in Units |-> IF u \in ready THEN lives(u) ELSE live[u]]
      /\ abreast' = (abreast \/ Cardinality({u \in ready : IsNode(u) /\ lives(u)}) > 1)
      /\ UNCHANGED <<wf, deps, taken, sent, tries, pool, events, coord, stage, shown, cut>>

\* A language model writes the next chunk to the stream.
Chunk(n) ==
  /\ n \in Models /\ at[<<n, "">>] = "run" /\ live[<<n, "">>]
  /\ sent[n] < Len(Stream(n))
  /\ sent' = [sent EXCEPT ![n] = @ + 1]
  /\ events' = Append(events, Stream(n)[sent[n] + 1])
  /\ UNCHANGED <<wf, deps, at, live, taken, tries, pool, abreast, coord, stage, shown, cut>>

\* A call of the model fails: it is repeated from the start, or, after the last
\* attempt, the node ends with its default output or on its error branch.  Bound:
\* calls of one model only fail.
AttemptFails(n) ==
  /\ n \in Models /\ at[<<n, "">>] = "run" /\ live[<<n, "">>]
  /\ sent[n] < Len(Stream(n)) /\ tries[n] < MaxAttempts
  /\ \A m \in Models \ {n} : tries[m] = 0
  /\ tries' = [tries EXCEPT ![n] = @ + 1]
  /\ sent' = [sent EXCEPT ![n] = IF tries[n] + 1 < MaxAttempts THEN 0 ELSE Len(Stream(n))]
  /\ UNCHANGED <<wf, deps, at, live, taken, pool, abreast, events, coord, stage, shown, cut>>

\* The branches a routing node may take.
Routes(n) == IF wf.kind[n] # "llm" THEN Labels(n)
             ELSE {IF tries[n] = MaxAttempts /\ n \in wf.guarded THEN "ERROR" ELSE "SUCCESS"}

\* A unit finishes: its output goes to the pool, its update to the stream.
Finish(u) ==
  LET n == u[1]
      executes == IsNode(u) /\ live[u]
  IN  /\ at[u] = "run" /\ ~Interrupting(u)
      /\ executes /\ n \in Models => sent[n] = Len(Stream(n))
      /\ at' = [at EXCEPT ![u] = "done"]
      /\ IF executes /\ n \in Routing /\ taken[n] = ""
         THEN \E l \in Routes(n) : taken' = [taken EXCEPT ![n] = l]
         ELSE UNCHANGED taken
      /\ pool' = IF executes THEN pool \cup {n} ELSE pool
      /\ events' = Append(events, [unit |-> u])
      /\ UNCHANGED <<wf, deps, live, sent, tries, abreast, coord, stage, shown, cut>>

-----------------------------------------------------------------------------
(* The consumer *)

IsChunk(event) == "k" \in DOMAIN event

\* What update_scope_activation is told of a completed node: its output.
Status(n) == IF n \in Routing /\ n \notin Models THEN taken[n] ELSE "text"

Told(c, u) == IF IsNode(u) /\ live[u] THEN UpdateScope(c, u[1], Status(u[1])) ELSE c

HandleUpdate ==
  /\ stage = "idle" /\ events # <<>> /\ ~IsChunk(Head(events))
  /\ coord' = Told(coord, Head(events).unit)
  /\ IF coord'.current = NoEnd THEN stage' = "idle" /\ events' = Tail(events)
     ELSE stage' = "emit" /\ UNCHANGED events
  /\ UNCHANGED <<graph, shown, cut>>

Listening == coord.current \in DOMAIN coord.ends

\* Later segments of the current End that show the node of a chunk.
Targets(n) == {i \in coord.ends[coord.current].cursor..Len(wf.template[coord.current]) :
                 wf.template[coord.current][i].node = n}

PassSegmentSilently ==
  /\ stage = "idle" /\ events # <<>> /\ IsChunk(Head(events)) /\ Listening
  /\ Targets(Head(events).node) # {} /\ Segment(coord).node # Head(events).node
  /\ coord' = Advance(coord)
  /\ UNCHANGED <<graph, events, shown, stage, cut>>
\* A chunk for a later segment: those before it are shown as far as they can be.
PassSegment ==
  /\ stage = "idle" /\ events # <<>> /\ IsChunk(Head(events)) /\ Listening
  /\ Targets(Head(events).node) # {} /\ Segment(coord).node # Head(events).node
  /\ shown' = shown \o Whole(coord)
  /\ coord' = Advance(coord)
  /\ UNCHANGED <<graph, events, stage, cut>>

\* A chunk while there is a current End: shown if its variable is the next segment.
ChunkToEnd ==
  /\ stage = "idle" /\ events # <<>> /\ IsChunk(Head(events)) /\ coord.current # NoEnd
  /\ LET event == Head(events)
         mine == /\ Listening
                 /\ Segment(coord).node = event.node /\ Segment(coord).field = event.field
         marked == [coord EXCEPT !.streamed = @ \cup {<<event.node, event.field>>}]
     IN  /\ Listening /\ Targets(event.node) # {} => Segment(coord).node = event.node
         /\ coord' = IF mine /\ Done(event) THEN Advance(marked) ELSE coord
         /\ shown' = IF mine /\ ~Done(event) THEN Append(shown, Part(coord, event.k)) ELSE shown
  /\ events' = Tail(events)
  /\ UNCHANGED <<graph, stage, cut>>

\* A chunk while there is no current End: shown if an active one waits for it.
ChunkDirectly ==
  /\ stage = "idle" /\ events # <<>> /\ IsChunk(Head(events)) /\ coord.current = NoEnd
  /\ LET event == Head(events)
         wanted == \E e \in DOMAIN coord.ends :
                     /\ coord.ends[e].active
                     /\ \E seg \in Range(wf.template[e]) :
                          seg.node = event.node /\ seg.field = event.field
     IN  /\ coord' = IF wanted /\ Done(event)
                     THEN [coord EXCEPT !.streamed = @ \cup {<<event.node, event.field>>}]
                     ELSE coord
         /\ shown' = IF wanted /\ ~Done(event)
                     THEN Append(shown, [end |-> NoEnd, at |-> 0, node |-> event.node,
                                         field |-> event.field, k |-> event.k])
                     ELSE shown
  /\ events' = Tail(events)
  /\ UNCHANGED <<graph, stage, cut>>

ReadyWhenActive(c) == c.ends[c.current].active
\* The segment under the cursor may be shown.
Ready(c) == \/ ~IsVariable(Segment(c))
            \/ Segment(c).node \in c.ends[c.current].heard
            \/ c.ends[c.current].force
            \/ stage = "flush"

\* One turn of emit_activate_chunk: a variable that was streamed is left out.
EmitSegment ==
  /\ stage \in {"emit", "resume", "flush"} /\ Listening /\ Ready(coord)
  /\ shown' = IF <<Segment(coord).node, Segment(coord).field>> \in coord.streamed
              THEN shown ELSE shown \o Whole(coord)
  /\ coord' = Advance(coord)
  /\ UNCHANGED <<graph, events, stage, cut>>

\* The End is finished: the next one in the queue, the rest at the last flush.
TurnToNext ==
  /\ stage \in {"emit", "flush"} /\ coord.current = NoEnd
  /\ LET rest == Keep(EndOrder, DOMAIN coord.ends)
         queued == IF stage = "emit" THEN Told(coord, Head(events).unit) ELSE NextEnd(coord)
     IN  coord' = IF stage = "flush" /\ queued.current = NoEnd /\ rest # <<>>
                  THEN [coord EXCEPT !.current = Head(rest)] ELSE queued
  /\ IF coord'.current # NoEnd THEN UNCHANGED <<stage, events>>
     ELSE IF stage = "emit" THEN stage' = "idle" /\ events' = Tail(events)
     ELSE stage' = "over" /\ UNCHANGED events
  /\ UNCHANGED <<graph, shown, cut>>

WaitHolding ==
  /\ \/ stage \in {"emit", "resume"} /\ coord.current # NoEnd /\ ~(Listening /\ Ready(coord))
     \/ stage = "resume" /\ coord.current = NoEnd
  /\ stage' = "idle"
  /\ UNCHANGED <<graph, events, coord, shown, cut>>
\* The next variable is not there yet: the consumer waits for more events.
Wait ==
  /\ \/ stage \in {"emit", "resume"} /\ coord.current # NoEnd /\ ~(Listening /\ Ready(coord))
     \/ stage = "resume" /\ coord.current = NoEnd
  /\ stage' = "idle"
  /\ events' = IF stage = "emit" THEN Tail(events) ELSE events
  /\ UNCHANGED <<graph, coord, shown, cut>>

\* The graph has ended: active Ends that are not finished are flushed.
Flush ==
  /\ stage = "idle" /\ events = <<>> /\ \A u \in Units : at[u] = "done"
  /\ coord' = [coord EXCEPT !.ends =
                 [e \in {d \in DOMAIN coord.ends : coord.ends[d].active} |-> coord.ends[e]]]
  /\ stage' = IF coord.current # NoEnd THEN "flush" ELSE "over"
  /\ UNCHANGED <<graph, events, shown, cut>>

\* The stream has ended at a human-intervention node, and an answer l comes.  A new
\* coordinator is told of the nodes that have completed, one after the other.
Resume(u, l) ==
  LET done == Keep(wf.order, pool)
  IN  /\ Interrupting(u) /\ Running = {u} /\ events = <<>> /\ stage = "idle"
      /\ l \in Labels(u[1])
      /\ taken' = [taken EXCEPT ![u[1]] = l]
      /\ coord' = UpdateScope(NewCoordinator, "sys", "")
      /\ events' = [i \in 1..Len(done) |-> [unit |-> <<done[i], "">>]]
      /\ stage' = "replay"
      /\ UNCHANGED <<wf, deps, at, live, sent, tries, pool, abreast, shown, cut>>

Replay ==
  /\ stage = "replay" /\ events # <<>>
  /\ coord' = Told(coord, Head(events).unit) /\ events' = Tail(events)
  /\ UNCHANGED <<graph, stage, shown, cut>>

RecoveredWhole ==
  NextEnd([coord EXCEPT !.streamed = {<<n, "output">> : n \in pool \cap Nodes}])
\* What has completed counts as streamed; completed Ends are taken out.
Recovered ==
  LET gone == pool \cap Ends
  IN  NextEnd([coord EXCEPT
        !.streamed = {<<n, "output">> : n \in pool \cap Nodes},
        !.ends = [e \in DOMAIN coord.ends \ gone |-> coord.ends[e]],
        !.queue = Keep(coord.queue, Ends \ gone),
        !.processed = coord.processed \ gone,
        !.current = IF coord.current \in gone THEN NoEnd ELSE coord.current])

\* Before the graph goes on, the Ends behind the answered node are activated, and
\* the first one is shown as far as possible.
PreActivate ==
  /\ stage = "replay" /\ events = <<>>
  /\ \E u \in {v \in Units : Interrupting(v)} :
       coord' = UpdateScope(Recovered, u[1], taken[u[1]]) /\ pool' = pool \cup {u[1]}
  /\ stage' = "resume" /\ cut' = Len(shown)
  /\ UNCHANGED <<wf, deps, at, live, taken, sent, tries, abreast, events, shown>>

Fails == \E n \in Models : AttemptFails(n)

Goes == \/ Step \/ \E n \in Models : Chunk(n)
        \/ \E u \in Units : Finish(u) \/ \E l \in Labels(u[1]) : Resume(u, l)
        \/ HandleUpdate \/ PassSegment \/ ChunkToEnd \/ ChunkDirectly
        \/ EmitSegment \/ TurnToNext \/ Wait \/ Flush \/ Replay \/ PreActivate

Next == Fails \/ Goes

Spec == Init /\ [][Next]_vars

\* Something goes on as long as anything can: calls of a model return, an
\* intervention is answered or times out, and the consumer takes its events.
FairSpec == Spec /\ WF_vars(Goes)

-----------------------------------------------------------------------------
(* Properties *)

TypeOK ==
  /\ wf \in Workflows
  /\ at \in [Units -> {"idle", "run", "done"}] /\ live \in [Units -> BOOLEAN]
  /\ sent \in [Models -> Nat] /\ tries \in [Models -> 0..MaxAttempts]
  /\ pool \subseteq Nodes \cup {"sys"} /\ abreast \in BOOLEAN
  /\ coord.current \in DOMAIN coord.ends \cup {NoEnd}
  /\ DOMAIN coord.ends \subseteq Ends /\ coord.processed \subseteq Ends
  /\ \A e \in DOMAIN coord.ends : coord.ends[e].cursor \in 1..Len(wf.template[e])
  /\ Range(coord.queue) \subseteq {e \in DOMAIN coord.ends : coord.ends[e].active}
  /\ stage \in Stages /\ cut \in {-1} \cup 0..Len(shown)

\* What the client sees belongs to an End node that is executed: the analysis of
\* the graph (graph_builder.py:121-199), done before the run, never lets the text
\* of a branch that is not taken through, nor chunks that only such an End wants.
OnlyExecuted ==
  stage = "over" =>
    \A i \in 1..Len(shown) : \E e \in Ends :
      /\ live[<<e, "">>]
      /\ IF shown[i].end = NoEnd
         THEN [node |-> shown[i].node, field |-> shown[i].field] \in Range(wf.template[e])
         ELSE shown[i].end = e

\* The parts of the template of one End come in its order, one End after the
\* other, in whatever order branches, chunks and updates arrive; only a resumed
\* stream starts again.
InTemplateOrder ==
  \A j \in 1..Len(shown) : \A i \in 1..(j - 1) :
     shown[i].end = shown[j].end /\ shown[i].end # NoEnd /\ (i > cut \/ j <= cut) =>
       /\ shown[i].at <= shown[j].at
       /\ shown[i].at = shown[j].at => shown[i].k # 0
       /\ \A m \in i..j : shown[m].end = shown[i].end

\* The literals of every End that executes are shown exactly once.
LiteralsOnce ==
  stage = "over" /\ cut = -1 =>
    \A e \in {d \in Ends : live[<<d, "">>]} : \A i \in 1..Len(wf.template[e]) :
      ~IsVariable(wf.template[e][i]) =>
         Cardinality({j \in 1..Len(shown) : shown[j].end = e /\ shown[j].at = i}) = 1

\* The graph never ends with an answer half shown: every End that was activated has
\* been completed by its own node, even one that waits for a variable of a branch
\* that was not taken, so that the last flush finds nothing to do.
NothingToFlush == stage # "flush"

\* The text of the templates of a sequence of Ends, pieces of variables numbered,
\* without the variables in omitted.
Values(n, f) == [k \in 1..(IF n \in Models THEN Chunks ELSE 1) |-> <<n, f, k>>]
Segments(ends) == FlattenSeq([i \in 1..Len(ends) |->
                    [j \in 1..Len(wf.template[ends[i]]) |->
                       [end |-> ends[i], at |-> j, seg |-> wf.template[ends[i]][j]]]])
Text(ends, omitted) ==
  LET T(s) == IF ~IsVariable(s.seg) THEN << <<s.end, s.at>> >>
              ELSE IF s.seg \in omitted \/ s.seg.node \notin pool THEN <<>>
              ELSE Values(s.seg.node, s.seg.field)
  IN  FlattenSeq([i \in 1..Len(Segments(ends)) |-> T(Segments(ends)[i])])

\* The same of the parts that were shown.
Content(parts) ==
  LET T(p) == IF p.node = "" THEN << <<p.end, p.at>> >>
              ELSE IF p.k = 0 THEN Values(p.node, p.field) ELSE << <<p.node, p.field, p.k>> >>
  IN  FlattenSeq([i \in 1..Len(parts) |-> T(parts[i])])

Repeating(ends) == \E i, j \in 1..Len(Segments(ends)) :
                     /\ i # j /\ IsVariable(Segments(ends)[i].seg)
                     /\ Segments(ends)[i].seg = Segments(ends)[j].seg
Executed == Keep(wf.order, {n \in Ends : live[<<n, "">>]})
Undisturbed == ~abreast /\ \A n \in Models : tries[n] = 0

\* What the models put into the pool is what they have written, field by field; it is not
\* if output comes with reasoning, contains it, or ends before a stop sequence.
Verbatim == \A n \in Models : wf.manner[n] = "turns"

\* A template names a variable before one of a model in models that runs earlier: when
\* the model writes, the first variable is passed without a value.
Passing(ends, models) ==
  LET segments == Segments(ends)
  IN  \E i, j \in 1..Len(segments) : \E k, l \in 1..Len(wf.order) :
        /\ i < j /\ segments[i].end = segments[j].end /\ segments[j].seg.node \in models
        /\ k > l /\ wf.order[k] = segments[i].seg.node /\ wf.order[l] = segments[j].seg.node

\* While one node executes at a time, no call of a model fails and each writes what it
\* puts into the pool, no variable is used twice and none is passed, the client gets
\* exactly the templates of the executed Ends, in the order of the graph, whether a
\* variable came in chunks or from the pool and however far the consumer lags.
AnswerExact ==
  stage = "over" /\ cut = -1 /\ Undisturbed /\ Verbatim
    /\ ~Repeating(Executed) /\ ~Passing(Executed, Models) =>
    Content(shown) = Text(Executed, {})

\* Nodes that completed before the intervention (wf.order is a topological order).
Earlier == {wf.order[i] : i \in {j \in 1..Len(wf.order) :
                             \E k \in 1..Len(wf.order) : wf.kind[wf.order[k]] = "human" /\ j < k}}

\* A resumed stream shows no End again that had completed, and the others from
\* their first segment, except for the outputs of nodes that had completed: they
\* are taken for streamed (workflow_service.py:6433-6464).  The conditions are the same.
ResumedExact ==
  LET later == Keep(Executed, Ends \ Earlier)
  IN  stage = "over" /\ cut # -1 /\ Undisturbed /\ Verbatim
        /\ ~Repeating(later) /\ ~Passing(later, Models \ Earlier) =>
        Content(SubSeq(shown, cut + 1, Len(shown)))
          = Text(later, {[node |-> n, field |-> "output"] : n \in Earlier})

\* The stream of a workflow ends, with a flush that comes to its end, too.
Answered == <>(stage = "over")
=============================================================================
