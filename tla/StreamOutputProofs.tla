------------------------- MODULE StreamOutputProofs -------------------------
(***************************************************************************)
(* That the client gets the parts of an End in the order of its template,  *)
(* one End after the other (InTemplateOrder), each literal of each End that *)
(* executes exactly once (LiteralsOnce), nothing of an End that does not   *)
(* execute (OnlyExecuted), and all that it gets before the last flush      *)
(* (NothingToFlush); and that the coordinator's view of the Ends fits      *)
(* together (TypeOK): for every workflow and however branches, chunks,     *)
(* updates and the consumer interleave.                                    *)
(***************************************************************************)
EXTENDS StreamOutput, TLAPS, WellFoundedInduction, FiniteSetTheorems

-----------------------------------------------------------------------------
(* The inductive invariant *)

IsOutput(o) == /\ o = [cursor |-> o.cursor, branched |-> o.branched, outs |-> o.outs,
                       heard |-> o.heard, active |-> o.active, force |-> o.force]
               /\ o.cursor \in Nat

IsCoordinator(c) ==
  /\ c = [ends |-> c.ends, current |-> c.current, queue |-> c.queue,
          processed |-> c.processed, streamed |-> c.streamed]
  /\ c.ends = [e \in DOMAIN c.ends |-> c.ends[e]]
  /\ \A e \in DOMAIN c.ends : IsOutput(c.ends[e])

IsSequence(s) == \E S : s \in Seq(S)

\* The shapes of the variables, as far as the order of the parts needs them.
Shaped == /\ wf \in Workflows /\ sent \in [Models -> Nat]
          /\ IsCoordinator(coord)
          /\ IsSequence(shown) /\ cut \in {-1} \cup 0..Len(shown)
          /\ stage = "replay" => cut = -1

\* Only whole values are shown with number 0: chunks are numbered from 1.
Numbered == /\ IsSequence(events)
            /\ \A i \in 1..Len(events) : IsChunk(events[i]) => events[i].k # 0

\* An End that has been shown and is not finished is the current one, all that has
\* been shown since belongs to it, and its cursor stands behind that; only a
\* variable whose chunks are being shown can still be under it.
Frontier ==
  \A j \in 1..Len(shown) :
    j > cut /\ shown[j].end \in DOMAIN coord.ends /\ shown[j].end # NoEnd =>
      /\ coord.current = shown[j].end
      /\ shown[j].at \in Nat /\ shown[j].at <= coord.ends[shown[j].end].cursor
      /\ shown[j].at = coord.ends[shown[j].end].cursor => shown[j].k # 0
      /\ \A m \in j..Len(shown) : shown[m].end = shown[j].end

\* An event is taken from the queue only when all that it activated is shown.
Handling == stage = "emit" => events # <<>>

StreamInv == /\ Shaped /\ InTemplateOrder /\ Handling
             /\ stage # "replay" => Numbered /\ Frontier

-----------------------------------------------------------------------------
(* What the operations of the coordinator keep *)

\* d knows no End that c does not know, each at the same segment, and it has the
\* same current End, or another one because c had none.
SamePlaces(c, d) ==
  /\ IsCoordinator(d)
  /\ DOMAIN d.ends \subseteq DOMAIN c.ends
  /\ \A e \in DOMAIN d.ends : d.ends[e].cursor = c.ends[e].cursor
  /\ d.current = c.current \/ c.current = NoEnd

\* An output that hears of a scope stays at its segment.
LEMMA NoticeStays ==
  ASSUME NEW o, IsOutput(o), NEW e, NEW scope, NEW status
  PROVE  IsOutput(Notice(o, e, scope, status)) /\ Notice(o, e, scope, status).cursor = o.cursor
  <1> DEFINE branched == o.branched \/ <<scope, status>> \in deps[e].ctrl
             outs == o.outs \ {scope}
  <1>1. CASE o.force
    BY <1>1 DEF Notice
  <1>2. CASE ~o.force /\ scope = e
    <2>1. Notice(o, e, scope, status) = [o EXCEPT !.active = TRUE, !.force = TRUE]
      BY <1>2 DEF Notice
    <2> QED BY <2>1 DEF IsOutput
  <1>3. CASE ~o.force /\ scope # e
    <2>1. Notice(o, e, scope, status) =
            [o EXCEPT !.branched = branched, !.outs = outs, !.heard = @ \cup {scope},
                      !.active = @ \/ (branched /\ outs = {})]
      BY <1>3 DEF Notice
    <2> HIDE DEF branched, outs
    <2> QED BY <2>1 DEF IsOutput
  <1> QED BY <1>1, <1>2, <1>3

\* The next End becomes the current one only when there is none.
LEMMA NextEndStays ==
  ASSUME NEW c, IsCoordinator(c)
  PROVE  SamePlaces(c, NextEnd(c)) /\ NextEnd(c).ends = c.ends
  <1>1. CASE c.current = NoEnd /\ c.queue # <<>>
    <2>1. NextEnd(c) = [ends |-> c.ends, current |-> Head(c.queue), queue |-> Tail(c.queue),
                        processed |-> c.processed, streamed |-> c.streamed]
      BY <1>1 DEF NextEnd, IsCoordinator
    <2> QED BY <1>1, <2>1 DEF SamePlaces, IsCoordinator
  <1>2. CASE ~(c.current = NoEnd /\ c.queue # <<>>)
    BY <1>2 DEF NextEnd, SamePlaces
  <1> QED BY <1>1, <1>2

\* A completed scope changes which Ends are active and who is next, nothing else.
LEMMA UpdateScopeStays ==
  ASSUME NEW c, IsCoordinator(c), NEW scope, NEW status
  PROVE  SamePlaces(c, UpdateScope(c, scope, status))
  <1> DEFINE ends == [e \in DOMAIN c.ends |-> Notice(c.ends[e], e, scope, status)]
             woken == Keep(EndOrder, {e \in DOMAIN ends : ends[e].active} \ c.processed)
             d == [c EXCEPT !.ends = ends, !.queue = @ \o woken,
                            !.processed = @ \cup Range(woken)]
  <1>1. UpdateScope(c, scope, status) = NextEnd(d)
    BY DEF UpdateScope
  <1>2. /\ DOMAIN ends = DOMAIN c.ends /\ ends = [e \in DOMAIN ends |-> ends[e]]
        /\ \A e \in DOMAIN ends : IsOutput(ends[e]) /\ ends[e].cursor = c.ends[e].cursor
    BY NoticeStays DEF IsCoordinator
  <1>3. PICK q, p : d = [c EXCEPT !.ends = ends, !.queue = q, !.processed = p]
    OBVIOUS
  <1> HIDE DEF ends, woken, d
  <1>4. d = [ends |-> ends, current |-> c.current, queue |-> q, processed |-> p,
             streamed |-> c.streamed]
    BY <1>3 DEF IsCoordinator
  <1>5. d.ends = ends /\ d.current = c.current
    BY <1>4
  <1>6. IsCoordinator(d)
    BY <1>2, <1>4 DEF IsCoordinator
  <1> QED BY <1>1, <1>2, <1>5, <1>6, NextEndStays DEF SamePlaces

\* An update moves no End.
LEMMA ToldStays ==
  ASSUME NEW c, IsCoordinator(c), NEW u
  PROVE  SamePlaces(c, Told(c, u))
  BY UpdateScopeStays DEF Told, SamePlaces

\* A new coordinator has the shape of one.
LEMMA NewCoordinatorShaped == IsCoordinator(NewCoordinator)
  BY DEF NewCoordinator, IsCoordinator, StartOutput, IsOutput

-----------------------------------------------------------------------------
(* What has been shown *)

\* A sequence with one more element.
LEMMA Appended ==
  ASSUME NEW s, IsSequence(s), NEW x
  PROVE  /\ IsSequence(Append(s, x)) /\ Len(s) \in Nat /\ Len(Append(s, x)) = Len(s) + 1
         /\ \A i \in 1..Len(s) : Append(s, x)[i] = s[i]
         /\ Append(s, x)[Len(s) + 1] = x
  <1>1. PICK S : s \in Seq(S)
    BY DEF IsSequence
  <1>2. s \in Seq(S \cup {x}) /\ x \in S \cup {x}
    BY <1>1
  <1>3. Append(s, x) \in Seq(S \cup {x}) /\ Len(s) \in Nat
    BY <1>2
  <1>4. Len(Append(s, x)) = Len(s) + 1
    BY <1>2
  <1>5. \A i \in 1..Len(s) : Append(s, x)[i] = s[i]
    BY <1>2
  <1>6. Append(s, x)[Len(s) + 1] = x
    BY <1>2
  <1>7. IsSequence(Append(s, x))
    BY <1>3 DEF IsSequence
  <1> QED BY <1>3, <1>4, <1>5, <1>6, <1>7

\* The first of a sequence of events and the rest.
LEMMA Taken ==
  ASSUME NEW s, IsSequence(s), s # <<>>
  PROVE  /\ Len(s) \in Nat \ {0} /\ Head(s) = s[1]
         /\ IsSequence(Tail(s)) /\ Len(Tail(s)) = Len(s) - 1
         /\ \A i \in 1..Len(Tail(s)) : Tail(s)[i] = s[i + 1]
  <1>1. PICK S : s \in Seq(S)
    BY DEF IsSequence
  <1>2. Len(s) \in Nat \ {0} /\ Head(s) = s[1] /\ Tail(s) \in Seq(S)
    BY <1>1
  <1>3. Len(Tail(s)) = Len(s) - 1 /\ \A i \in 1..Len(Tail(s)) : Tail(s)[i] = s[i + 1]
    BY <1>1, <1>2
  <1> QED BY <1>2, <1>3 DEF IsSequence

\* Is p a part of the segment under the cursor, or of no End at all?
Fits(p) == \/ p.end = NoEnd
           \/ /\ p.end = coord.current /\ p.end \in DOMAIN coord.ends
              /\ p.at = coord.ends[p.end].cursor

\* One more such part leaves the parts in order.
LEMMA OneMoreInOrder ==
  ASSUME Shaped, InTemplateOrder, Frontier, NEW p, Fits(p),
         shown' = Append(shown, p), cut' = cut
  PROVE  InTemplateOrder' /\ IsSequence(shown') /\ cut' \in {-1} \cup 0..Len(shown')
  <1>1. /\ IsSequence(shown') /\ Len(shown) \in Nat /\ Len(shown') = Len(shown) + 1
        /\ \A i \in 1..Len(shown) : shown'[i] = shown[i]
        /\ shown'[Len(shown) + 1] = p
    BY Appended DEF Shaped
  <1>2. cut' \in {-1} \cup 0..Len(shown')
    BY <1>1 DEF Shaped
  <1>3. ASSUME NEW j \in 1..Len(shown'), NEW i \in 1..(j - 1),
               shown'[i].end = shown'[j].end, shown'[i].end # NoEnd, i > cut' \/ j <= cut'
        PROVE  /\ shown'[i].at <= shown'[j].at
               /\ shown'[i].at = shown'[j].at => shown'[i].k # 0
               /\ \A m \in i..j : shown'[m].end = shown'[i].end
    <2>1. CASE j \in 1..Len(shown)
      <3>1. i \in 1..Len(shown) /\ \A m \in i..j : m \in 1..Len(shown)
        BY <2>1, <1>1
      <3>2. /\ shown[i].end = shown[j].end /\ shown[i].end # NoEnd
            /\ i > cut \/ j <= cut
        BY <2>1, <3>1, <1>1, <1>3
      <3>3. /\ shown[i].at <= shown[j].at
            /\ shown[i].at = shown[j].at => shown[i].k # 0
            /\ \A m \in i..j : shown[m].end = shown[i].end
        BY <2>1, <3>2 DEF InTemplateOrder
      <3> QED BY <2>1, <3>1, <3>3, <1>1
    <2>2. CASE j = Len(shown) + 1
      <3>1. i \in 1..Len(shown) /\ i > cut
        BY <2>2, <1>1, <1>3 DEF Shaped
      <3>2. shown'[i] = shown[i] /\ shown'[j] = p /\ p.end # NoEnd /\ shown[i].end = p.end
        BY <2>2, <3>1, <1>1, <1>3
      <3>3. /\ shown[i].end = coord.current /\ shown[i].end \in DOMAIN coord.ends
            /\ p.at = coord.ends[shown[i].end].cursor
        BY <3>2 DEF Fits
      <3>4. /\ shown[i].at <= p.at
            /\ shown[i].at = p.at => shown[i].k # 0
            /\ \A m \in i..Len(shown) : shown[m].end = shown[i].end
        BY <3>1, <3>2, <3>3 DEF Frontier
      <3>5. ASSUME NEW m \in i..j PROVE shown'[m].end = shown'[i].end
        <4>1. CASE m = j
          BY <4>1, <3>2
        <4>2. CASE m # j
          <5>1. m \in i..Len(shown) /\ m \in 1..Len(shown)
            BY <4>2, <2>2, <3>1, <1>1
          <5> QED BY <5>1, <3>2, <3>4, <1>1
        <4> QED BY <4>1, <4>2
      <3> QED BY <3>2, <3>4, <3>5
    <2>3. j \in 1..Len(shown) \/ j = Len(shown) + 1
      BY <1>1
    <2> QED BY <2>1, <2>2, <2>3, <1>3
  <1>4. InTemplateOrder'
    BY <1>3 DEF InTemplateOrder
  <1> QED BY <1>1, <1>2, <1>4

\* While Ends stay where they are and nothing is shown, the frontier stays.
LEMMA FrontierStays ==
  ASSUME Frontier, SamePlaces(coord, coord'), shown' = shown, cut' = cut
  PROVE  Frontier'
  BY DEF Frontier, SamePlaces

\* d is c after its current End, if it is not finished, has gone to the next segment.
Moved(c, d) ==
  /\ IsCoordinator(d)
  /\ DOMAIN d.ends \subseteq DOMAIN c.ends
  /\ \A e \in DOMAIN d.ends :
       d.ends[e].cursor = IF e = c.current THEN c.ends[e].cursor + 1 ELSE c.ends[e].cursor
  /\ c.current \in DOMAIN d.ends => d.current = c.current

\* The current End is taken out at the end of its template, or goes on by one segment.
LEMMA AdvanceMoves ==
  ASSUME NEW c, IsCoordinator(c), c.current \in DOMAIN c.ends
  PROVE  Moved(c, Advance(c))
  <1> DEFINE n == c.current
             ends == [c.ends EXCEPT ![n] = [c.ends[n] EXCEPT !.cursor = c.ends[n].cursor + 1]]
             d == [c EXCEPT !.ends[c.current].cursor = c.ends[n].cursor + 1]
  <1>1. d = [ends |-> ends, current |-> n, queue |-> c.queue, processed |-> c.processed,
             streamed |-> c.streamed]
    BY DEF IsCoordinator
  <1>2. /\ DOMAIN ends = DOMAIN c.ends /\ ends = [e \in DOMAIN ends |-> ends[e]]
        /\ \A e \in DOMAIN ends :
             ends[e] = IF e = n THEN [c.ends[n] EXCEPT !.cursor = c.ends[n].cursor + 1]
                       ELSE c.ends[e]
    BY DEF IsCoordinator
  <1>3. /\ IsOutput([c.ends[n] EXCEPT !.cursor = c.ends[n].cursor + 1])
        /\ [c.ends[n] EXCEPT !.cursor = c.ends[n].cursor + 1].cursor = c.ends[n].cursor + 1
    BY DEF IsCoordinator, IsOutput
  <1>4. \A e \in DOMAIN ends :
          /\ IsOutput(ends[e])
          /\ ends[e].cursor = IF e = n THEN c.ends[e].cursor + 1 ELSE c.ends[e].cursor
    BY <1>2, <1>3 DEF IsCoordinator
  <1>5. Advance(c) = IF c.ends[n].cursor + 1 > Len(wf.template[n]) THEN PopEnd(d) ELSE d
    BY DEF Advance
  <1> HIDE DEF ends, d
  <1>6. d.ends = ends /\ d.current = n /\ IsCoordinator(d)
    BY <1>1, <1>2, <1>4 DEF IsCoordinator
  <1>7. Moved(c, d)
    BY <1>2, <1>4, <1>6 DEF Moved
  <1>8. Moved(c, PopEnd(d))
    <2> DEFINE kept == [e \in DOMAIN ends \ {n} |-> ends[e]]
    <2>1. PopEnd(d) = [d EXCEPT !.ends = kept, !.current = NoEnd]
      BY <1>6 DEF PopEnd
    <2>2. /\ DOMAIN kept = DOMAIN ends \ {n} /\ kept = [e \in DOMAIN kept |-> kept[e]]
          /\ \A e \in DOMAIN kept : kept[e] = ends[e]
      OBVIOUS
    <2> HIDE DEF kept
    <2>3. PopEnd(d) = [ends |-> kept, current |-> NoEnd, queue |-> c.queue,
                       processed |-> c.processed, streamed |-> c.streamed]
      BY <1>1, <2>1
    <2> QED BY <2>2, <2>3, <1>2, <1>4 DEF Moved, IsCoordinator
  <1> QED BY <1>5, <1>7, <1>8

\* The frontier when the cursor of the current End moves on, its segment shown or not.
LEMMA FrontierMoves ==
  ASSUME Shaped, Frontier, coord.current \in DOMAIN coord.ends,
         Moved(coord, coord'), cut' = cut,
         \/ shown' = shown
         \/ \E p : /\ p.end = coord.current /\ p.at = coord.ends[coord.current].cursor
                   /\ shown' = Append(shown, p)
  PROVE  Frontier'
  <1>1. coord.ends[coord.current].cursor \in Nat
    BY DEF Shaped, IsCoordinator, IsOutput
  <1>2. SUFFICES ASSUME NEW j \in 1..Len(shown'), j > cut, shown'[j].end \in DOMAIN coord'.ends,
                        shown'[j].end # NoEnd
                 PROVE  /\ coord'.current = shown'[j].end
                        /\ shown'[j].at \in Nat
                        /\ shown'[j].at < coord'.ends[shown'[j].end].cursor
                        /\ \A m \in j..Len(shown') : shown'[m].end = shown'[j].end
    <2>1. \A e \in DOMAIN coord'.ends : coord'.ends[e].cursor \in Nat
      BY DEF Moved, IsCoordinator, IsOutput
    <2> QED BY <1>2, <2>1 DEF Frontier
  <1>3. CASE shown' = shown
    <2>1. /\ coord.current = shown[j].end
          /\ shown[j].at \in Nat /\ shown[j].at <= coord.ends[shown[j].end].cursor
          /\ \A m \in j..Len(shown) : shown[m].end = shown[j].end
      BY <1>2, <1>3 DEF Frontier, Moved
    <2>2. /\ coord'.current = coord.current
          /\ coord'.ends[coord.current].cursor = coord.ends[coord.current].cursor + 1
      BY <1>2, <1>3, <2>1 DEF Moved
    <2> QED BY <1>1, <1>3, <2>1, <2>2
  <1>4. CASE \E p : /\ p.end = coord.current /\ p.at = coord.ends[coord.current].cursor
                    /\ shown' = Append(shown, p)
    <2>1. PICK p : /\ p.end = coord.current /\ p.at = coord.ends[coord.current].cursor
                   /\ shown' = Append(shown, p)
      BY <1>4
    <2>2. /\ Len(shown) \in Nat /\ Len(shown') = Len(shown) + 1
          /\ \A i \in 1..Len(shown) : shown'[i] = shown[i]
          /\ shown'[Len(shown) + 1] = p
      BY <2>1, Appended DEF Shaped
    <2>3. CASE j \in 1..Len(shown)
      <3>1. /\ coord.current = shown[j].end
            /\ shown[j].at \in Nat /\ shown[j].at <= coord.ends[shown[j].end].cursor
            /\ \A m \in j..Len(shown) : shown[m].end = shown[j].end
        BY <1>2, <2>2, <2>3 DEF Frontier, Moved
      <3>2. /\ coord'.current = coord.current
            /\ coord'.ends[coord.current].cursor = coord.ends[coord.current].cursor + 1
        BY <1>2, <2>2, <2>3, <3>1 DEF Moved
      <3>3. ASSUME NEW m \in j..Len(shown') PROVE shown'[m].end = shown'[j].end
        <4>1. (m \in 1..Len(shown) /\ m \in j..Len(shown)) \/ m = Len(shown) + 1
          BY <2>2, <2>3
        <4> QED BY <4>1, <2>1, <2>2, <2>3, <3>1
      <3> QED BY <1>1, <2>2, <2>3, <3>1, <3>2, <3>3
    <2>4. CASE j = Len(shown) + 1
      <3>1. shown'[j] = p /\ \A m \in j..Len(shown') : m = j
        BY <2>2, <2>4
      <3>2. /\ coord'.current = coord.current
            /\ coord'.ends[coord.current].cursor = coord.ends[coord.current].cursor + 1
        BY <1>2, <2>1, <3>1 DEF Moved
      <3> QED BY <1>1, <2>1, <3>1, <3>2
    <2> QED BY <2>2, <2>3, <2>4
  <1> QED BY <1>3, <1>4

\* The frontier when a chunk of the variable under the cursor is shown.
LEMMA FrontierShows ==
  ASSUME Shaped, Frontier, coord.current \in DOMAIN coord.ends, coord' = coord, cut' = cut,
         NEW p, p.end = coord.current, p.at = coord.ends[coord.current].cursor, p.k # 0,
         shown' = Append(shown, p)
  PROVE  Frontier'
  <1>1. /\ Len(shown) \in Nat /\ Len(shown') = Len(shown) + 1
        /\ \A i \in 1..Len(shown) : shown'[i] = shown[i]
        /\ shown'[Len(shown) + 1] = p
    BY Appended DEF Shaped
  <1>2. coord.ends[coord.current].cursor \in Nat
    BY DEF Shaped, IsCoordinator, IsOutput
  <1>3. SUFFICES ASSUME NEW j \in 1..Len(shown'), j > cut, shown'[j].end \in DOMAIN coord.ends,
                        shown'[j].end # NoEnd
                 PROVE  /\ coord.current = shown'[j].end
                        /\ shown'[j].at \in Nat
                        /\ shown'[j].at <= coord.ends[shown'[j].end].cursor
                        /\ shown'[j].at = coord.ends[shown'[j].end].cursor => shown'[j].k # 0
                        /\ \A m \in j..Len(shown') : shown'[m].end = shown'[j].end
    BY DEF Frontier
  <1>4. CASE j \in 1..Len(shown)
    <2>1. /\ coord.current = shown[j].end
          /\ shown[j].at \in Nat /\ shown[j].at <= coord.ends[shown[j].end].cursor
          /\ shown[j].at = coord.ends[shown[j].end].cursor => shown[j].k # 0
          /\ \A m \in j..Len(shown) : shown[m].end = shown[j].end
      BY <1>1, <1>3, <1>4 DEF Frontier
    <2>2. ASSUME NEW m \in j..Len(shown') PROVE shown'[m].end = shown'[j].end
      <3>1. (m \in 1..Len(shown) /\ m \in j..Len(shown)) \/ m = Len(shown) + 1
        BY <1>1, <1>4
      <3> QED BY <3>1, <1>1, <1>4, <2>1
    <2> QED BY <1>1, <1>4, <2>1, <2>2
  <1>5. CASE j = Len(shown) + 1
    <2>1. shown'[j] = p /\ \A m \in j..Len(shown') : m = j
      BY <1>1, <1>5
    <2> QED BY <1>2, <2>1
  <1>6. j \in 1..Len(shown) \/ j = Len(shown) + 1
    BY <1>1
  <1> QED BY <1>4, <1>5, <1>6

\* The frontier when a part of no End is shown: no End has been shown unfinished.
LEMMA FrontierDirect ==
  ASSUME Shaped, Frontier, coord.current = NoEnd, SamePlaces(coord, coord'), cut' = cut,
         NEW p, p.end = NoEnd, shown' = Append(shown, p)
  PROVE  Frontier'
  <1>1. /\ Len(shown) \in Nat /\ Len(shown') = Len(shown) + 1
        /\ \A i \in 1..Len(shown) : shown'[i] = shown[i]
        /\ shown'[Len(shown) + 1] = p
    BY Appended DEF Shaped
  <1>2. ASSUME NEW j \in 1..Len(shown'), j > cut, shown'[j].end \in DOMAIN coord'.ends,
               shown'[j].end # NoEnd
        PROVE  FALSE
    <2>1. j \in 1..Len(shown)
      BY <1>1, <1>2
    <2>2. shown[j].end \in DOMAIN coord.ends /\ shown[j].end # NoEnd
      BY <1>1, <1>2, <2>1 DEF SamePlaces
    <2> QED BY <1>2, <2>1, <2>2 DEF Frontier
  <1> QED BY <1>2 DEF Frontier

-----------------------------------------------------------------------------
(* The graph *)

\* The language models of a workflow do not change.
LEMMA SameModels == ASSUME wf' = wf PROVE Models' = Models
  BY DEF Models, Nodes

\* The chunk events of a model are its own and numbered from 1.
LEMMA StreamNumbered ==
  ASSUME wf \in Workflows, NEW n \in Models
  PROVE  /\ Len(Stream(n)) \in Nat
         /\ \A i \in 1..Len(Stream(n)) :
              Stream(n)[i].k # 0 /\ Stream(n)[i].node = n /\ IsChunk(Stream(n)[i])
  <1> DEFINE R == "reasoning_content"
             O == "output"
             Event == [node : {n}, field : {R, O}, k : Nat \ {0}]
             Pieces(f, last) == [k \in 1..last |-> [node |-> n, field |-> f, k |-> k]]
             Over(f) == << [node |-> n, field |-> f, k |-> Chunks + 1] >>
             both == [i \in 1..(2 * Chunks) |-> [node |-> n, field |-> IF i % 2 = 1 THEN R ELSE O,
                                                k |-> (i + 1) \div 2]]
             last == IF wf.manner[n] = "stopped" THEN Chunks - 1 ELSE Chunks
             output == Pieces(O, last) \o Over(O)
  <1>1. Chunks \in Nat
    BY WorkflowAssumption
  <1>2. ASSUME NEW f \in {R, O}, NEW l \in Nat \cup {-1} PROVE Pieces(f, l) \in Seq(Event)
    <2>1. CASE l \in Nat
      <3>1. \A k \in 1..l : [node |-> n, field |-> f, k |-> k] \in Event
        BY <2>1
      <3> HIDE DEF Event
      <3> QED BY <2>1, <3>1
    <2>2. CASE l = -1
      <3>1. Pieces(f, l) = << >>
        BY <2>2
      <3> HIDE DEF Event, Pieces
      <3> QED BY <3>1
    <2> QED BY <2>1, <2>2
  <1>3. \A f \in {R, O} : Over(f) \in Seq(Event)
    BY <1>1
  <1>4. both \in Seq(Event)
    <2>1. 2 * Chunks \in Nat
      BY <1>1
    <2>2. ASSUME NEW i \in 1..(2 * Chunks) PROVE both[i] \in Event
      <3>1. (i + 1) \div 2 \in Nat \ {0}
        BY <2>1
      <3> QED BY <3>1
    <2>3. both \in [1..(2 * Chunks) -> Event]
      <3> HIDE DEF Event
      <3> QED BY <2>2
    <2> HIDE DEF Event, both
    <2> QED BY <2>1, <2>3
  <1>5. last \in Nat \cup {-1}
    BY <1>1
  <1>6. output \in Seq(Event)
    <2>1. Pieces(O, last) \in Seq(Event) /\ Over(O) \in Seq(Event)
      BY <1>2, <1>3, <1>5
    <2> HIDE DEF Event, Pieces, Over, last
    <2> QED BY <2>1
  <1>7. Stream(n) = CASE n \notin wf.reasoning  -> output
                      [] wf.manner[n] = "mixed"  -> both \o Over(R) \o Over(O)
                      [] wf.manner[n] = "inline" -> Pieces(O, Chunks) \o Over(R) \o Over(O)
                      [] OTHER                   -> Pieces(R, Chunks) \o Over(R) \o output
    BY Zenon DEF Stream
  <1>8. Stream(n) \in Seq(Event)
    <2>1. /\ Pieces(O, Chunks) \in Seq(Event) /\ Pieces(R, Chunks) \in Seq(Event)
          /\ Over(O) \in Seq(Event) /\ Over(R) \in Seq(Event)
      BY <1>1, <1>2, <1>3
    <2> HIDE DEF Event, Pieces, Over, both, output
    <2> QED BY <1>4, <1>6, <1>7, <2>1
  <1>9. ASSUME NEW i \in 1..Len(Stream(n))
        PROVE  Stream(n)[i].k # 0 /\ Stream(n)[i].node = n /\ IsChunk(Stream(n)[i])
    <2>1. Stream(n)[i] \in Event
      <3> HIDE DEF Event
      <3> QED BY <1>8
    <2> QED BY <2>1 DEF IsChunk
  <1> HIDE DEF Event
  <1> QED BY <1>8, <1>9

\* Another event, one of a node that finishes or a numbered chunk.
LEMMA NumberedEvent ==
  ASSUME Numbered, NEW event, IsChunk(event) => event.k # 0, events' = Append(events, event)
  PROVE  Numbered'
  <1>1. /\ IsSequence(events') /\ Len(events) \in Nat /\ Len(events') = Len(events) + 1
        /\ \A i \in 1..Len(events) : events'[i] = events[i]
        /\ events'[Len(events) + 1] = event
    BY Appended DEF Numbered
  <1>2. ASSUME NEW i \in 1..Len(events'), IsChunk(events'[i]) PROVE events'[i].k # 0
    <2>1. i \in 1..Len(events) \/ i = Len(events) + 1
      BY <1>1
    <2> QED BY <1>1, <1>2, <2>1 DEF Numbered
  <1> QED BY <1>1, <1>2 DEF Numbered

\* An event that is taken leaves numbered ones.
LEMMA NumberedRest ==
  ASSUME Numbered, events # <<>>, events' = Tail(events)
  PROVE  Numbered'
  <1>1. /\ Len(events) \in Nat \ {0} /\ IsSequence(events') /\ Len(events') = Len(events) - 1
        /\ \A i \in 1..Len(events') : events'[i] = events[i + 1]
    BY Taken DEF Numbered
  <1>2. ASSUME NEW i \in 1..Len(events'), IsChunk(events'[i]) PROVE events'[i].k # 0
    <2>1. i + 1 \in 1..Len(events)
      BY <1>1
    <2> QED BY <1>1, <1>2, <2>1 DEF Numbered
  <1> QED BY <1>1, <1>2 DEF Numbered

-----------------------------------------------------------------------------
(* The invariant, action by action *)

\* What keeps the shapes, when nothing is shown.
LEMMA ShapedStays ==
  ASSUME Shaped, wf' = wf, sent' \in [Models -> Nat], IsCoordinator(coord'),
         shown' = shown, cut' = cut, stage' = "replay" => cut = -1
  PROVE  Shaped'
  BY SameModels DEF Shaped

\* While nothing is shown, the parts stay in order.
LEMMA OrderStays ==
  ASSUME InTemplateOrder, shown' = shown, cut' = cut
  PROVE  InTemplateOrder'
  BY DEF InTemplateOrder

\* The graph leaves the coordinator and the client alone.
LEMMA GraphKeepsOrder ==
  ASSUME StreamInv,
         \/ Step
         \/ \E n \in Models : Chunk(n) \/ AttemptFails(n)
         \/ \E u \in Units : Finish(u)
  PROVE  StreamInv'
  <1>1. UNCHANGED <<wf, coord, stage, shown, cut>>
    BY DEF Step, Chunk, AttemptFails, Finish
  <1>2. sent' \in [Models -> Nat]
    <2>1. \A n \in Models : Len(Stream(n)) \in Nat
      BY StreamNumbered DEF StreamInv, Shaped
    <2>2. sent \in [Models -> Nat]
      BY DEF StreamInv, Shaped
    <2>3. CASE Step
      BY <2>2, <2>3 DEF Step
    <2>4. ASSUME NEW n \in Models, Chunk(n) PROVE sent' \in [Models -> Nat]
      <3>1. sent' = [sent EXCEPT ![n] = sent[n] + 1]
        BY <2>4 DEF Chunk
      <3> QED BY <2>2, <3>1
    <2>5. ASSUME NEW n \in Models, AttemptFails(n) PROVE sent' \in [Models -> Nat]
      BY <2>1, <2>2, <2>5 DEF AttemptFails
    <2>6. ASSUME NEW u \in Units, Finish(u) PROVE sent' \in [Models -> Nat]
      BY <2>2, <2>6 DEF Finish
    <2> QED BY <2>3, <2>4, <2>5, <2>6
  <1>3. Shaped' /\ InTemplateOrder'
    BY <1>1, <1>2, ShapedStays, OrderStays DEF StreamInv, Shaped
  <1>4. ASSUME stage # "replay" PROVE Numbered'
    <2>1. CASE Step
      BY <1>4, <2>1 DEF StreamInv, Step, Numbered
    <2>2. ASSUME NEW n \in Models, Chunk(n) PROVE Numbered'
      <3>1. sent[n] + 1 \in 1..Len(Stream(n))
        <4>1. Len(Stream(n)) \in Nat /\ sent[n] \in Nat
          BY StreamNumbered DEF StreamInv, Shaped
        <4>2. sent[n] < Len(Stream(n))
          BY <2>2 DEF Chunk
        <4> QED BY <4>1, <4>2
      <3>2. Stream(n)[sent[n] + 1].k # 0 /\ events' = Append(events, Stream(n)[sent[n] + 1])
        BY <2>2, <3>1, StreamNumbered DEF StreamInv, Shaped, Chunk
      <3> QED BY <1>4, <3>2, NumberedEvent DEF StreamInv
    <2>3. ASSUME NEW n \in Models, AttemptFails(n) PROVE Numbered'
      BY <1>4, <2>3 DEF StreamInv, AttemptFails, Numbered
    <2>4. ASSUME NEW u \in Units, Finish(u) PROVE Numbered'
      <3>1. events' = Append(events, [unit |-> u]) /\ ~IsChunk([unit |-> u])
        BY <2>4 DEF Finish, IsChunk
      <3> QED BY <1>4, <3>1, NumberedEvent DEF StreamInv
    <2> QED BY <2>1, <2>2, <2>3, <2>4
  <1>5. ASSUME stage # "replay" PROVE Frontier'
    BY <1>1, <1>5 DEF StreamInv, Frontier
  <1>6. Handling'
    <2>1. events' = events \/ \E event : events' = Append(events, event)
      BY DEF Step, Chunk, AttemptFails, Finish
    <2>2. ASSUME NEW event, stage = "emit" PROVE Append(events, event) # <<>>
      <3>1. IsSequence(events)
        BY <2>2 DEF StreamInv, Numbered
      <3>2. Len(Append(events, event)) = Len(events) + 1 /\ Len(events) \in Nat
        BY <3>1, Appended
      <3> QED BY <3>2
    <2> QED BY <1>1, <2>1, <2>2 DEF StreamInv, Handling
  <1> QED BY <1>1, <1>3, <1>4, <1>5, <1>6 DEF StreamInv

\* The consumer shows nothing, and the Ends keep their places.
LEMMA PlacesKept ==
  ASSUME StreamInv, stage # "replay", UNCHANGED graph, UNCHANGED <<shown, cut>>,
         SamePlaces(coord, coord'), stage' # "replay", Handling',
         events' = events \/ (events # <<>> /\ events' = Tail(events))
  PROVE  StreamInv'
  <1>1. Shaped' /\ InTemplateOrder'
    BY ShapedStays, OrderStays DEF StreamInv, Shaped, SamePlaces, graph
  <1>2. Frontier'
    BY FrontierStays DEF StreamInv
  <1>3. Numbered'
    BY NumberedRest DEF StreamInv, Numbered
  <1> QED BY <1>1, <1>2, <1>3 DEF StreamInv

\* A coordinator that is left alone keeps its places.
LEMMA StaysPut == ASSUME NEW c, IsCoordinator(c) PROVE SamePlaces(c, c)
  BY DEF SamePlaces

\* An update makes Ends active; the one that is shown goes on first.
LEMMA UpdateKeepsOrder ==
  ASSUME StreamInv, HandleUpdate
  PROVE  StreamInv'
  <1>1. SamePlaces(coord, coord')
    BY ToldStays DEF StreamInv, Shaped, HandleUpdate
  <1>2. /\ stage # "replay" /\ stage' # "replay" /\ UNCHANGED graph /\ UNCHANGED <<shown, cut>>
        /\ events' = events \/ (events # <<>> /\ events' = Tail(events))
        /\ Handling'
    BY DEF HandleUpdate, Handling
  <1> QED BY <1>1, <1>2, PlacesKept

\* Leaving off shows nothing.
LEMMA WaitKeepsOrder ==
  ASSUME StreamInv, Wait
  PROVE  StreamInv'
  <1>1. SamePlaces(coord, coord')
    BY StaysPut DEF StreamInv, Shaped, Wait
  <1>2. /\ stage # "replay" /\ stage' # "replay" /\ UNCHANGED graph /\ UNCHANGED <<shown, cut>>
        /\ events' = events \/ (events # <<>> /\ events' = Tail(events))
        /\ Handling'
    BY DEF StreamInv, Wait, Handling
  <1> QED BY <1>1, <1>2, PlacesKept

\* A new End is turned to only when there is none; which, does not matter here.
LEMMA TurnStays ==
  ASSUME NEW c, IsCoordinator(c), c.current = NoEnd, NEW e
  PROVE  SamePlaces(c, [c EXCEPT !.current = e])
  <1>1. [c EXCEPT !.current = e] = [ends |-> c.ends, current |-> e, queue |-> c.queue,
                                    processed |-> c.processed, streamed |-> c.streamed]
    BY DEF IsCoordinator
  <1> QED BY <1>1 DEF SamePlaces, IsCoordinator

\* The next End is taken up when none is current, so that no End is left half shown.
LEMMA TurnKeepsOrder ==
  ASSUME StreamInv, TurnToNext
  PROVE  StreamInv'
  <1> DEFINE rest == Keep(EndOrder, DOMAIN coord.ends)
             queued == IF stage = "emit" THEN Told(coord, Head(events).unit) ELSE NextEnd(coord)
  <1>1. IsCoordinator(coord) /\ coord.current = NoEnd
    BY DEF StreamInv, Shaped, TurnToNext
  <1>2. SamePlaces(coord, queued)
    BY <1>1, ToldStays, NextEndStays
  <1>3. coord' = queued \/ \E e : coord' = [coord EXCEPT !.current = e]
    BY DEF TurnToNext
  <1>4. SamePlaces(coord, coord')
    BY <1>1, <1>2, <1>3, TurnStays
  <1>5. /\ stage # "replay" /\ stage' # "replay" /\ UNCHANGED graph /\ UNCHANGED <<shown, cut>>
        /\ events' = events \/ (events # <<>> /\ events' = Tail(events))
        /\ Handling'
    BY DEF StreamInv, TurnToNext, Handling
  <1> QED BY <1>4, <1>5, PlacesKept

\* The last flush forgets Ends that are not active, and moves none.
LEMMA FlushKeepsOrder ==
  ASSUME StreamInv, Flush
  PROVE  StreamInv'
  <1> DEFINE kept == [e \in {d \in DOMAIN coord.ends : coord.ends[d].active} |-> coord.ends[e]]
  <1>1. /\ DOMAIN kept \subseteq DOMAIN coord.ends /\ kept = [e \in DOMAIN kept |-> kept[e]]
        /\ \A e \in DOMAIN kept : kept[e] = coord.ends[e]
    OBVIOUS
  <1>2. coord' = [coord EXCEPT !.ends = kept]
    BY DEF Flush
  <1> HIDE DEF kept
  <1>3. IsCoordinator(coord)
    BY DEF StreamInv, Shaped
  <1>4. coord' = [ends |-> kept, current |-> coord.current, queue |-> coord.queue,
                  processed |-> coord.processed, streamed |-> coord.streamed]
    BY <1>2, <1>3 DEF IsCoordinator
  <1>5. SamePlaces(coord, coord')
    BY <1>1, <1>3, <1>4 DEF SamePlaces, IsCoordinator
  <1>6. /\ stage # "replay" /\ stage' # "replay" /\ UNCHANGED graph /\ UNCHANGED <<shown, cut>>
        /\ events' = events /\ Handling'
    BY DEF Flush, Handling
  <1> QED BY <1>5, <1>6, PlacesKept

\* The current End moves on by a segment, which is shown as a whole, or not.
LEMMA MoveKeepsOrder ==
  ASSUME StreamInv, stage # "replay", UNCHANGED graph, cut' = cut, stage' = stage,
         coord.current \in DOMAIN coord.ends, Moved(coord, coord'),
         \/ shown' = shown
         \/ \E p : /\ p.end = coord.current /\ p.at = coord.ends[coord.current].cursor
                   /\ shown' = Append(shown, p),
         events' = events \/ (stage # "emit" /\ events # <<>> /\ events' = Tail(events))
  PROVE  StreamInv'
  <1>1. Shaped /\ Frontier /\ Numbered /\ InTemplateOrder
    BY DEF StreamInv
  <1>2. Frontier'
    BY <1>1, FrontierMoves
  <1>3. InTemplateOrder' /\ IsSequence(shown') /\ cut' \in {-1} \cup 0..Len(shown')
    <2>1. CASE shown' = shown
      BY <1>1, <2>1, OrderStays DEF Shaped
    <2>2. ASSUME NEW p, p.end = coord.current, p.at = coord.ends[coord.current].cursor,
                 shown' = Append(shown, p)
          PROVE  InTemplateOrder' /\ IsSequence(shown') /\ cut' \in {-1} \cup 0..Len(shown')
      BY <1>1, <2>2, OneMoreInOrder DEF Fits
    <2> QED BY <2>1, <2>2
  <1>4. Shaped'
    BY <1>1, <1>3, SameModels DEF Shaped, Moved, graph
  <1>5. Numbered' /\ Handling'
    BY <1>1, NumberedRest DEF StreamInv, Numbered, Handling
  <1> QED BY <1>2, <1>3, <1>4, <1>5 DEF StreamInv

\* A segment is shown as one part with number 0 or not at all.
LEMMA WholeShown ==
  ASSUME IsSequence(shown)
  PROVE  shown \o Whole(coord) = shown \/ shown \o Whole(coord) = Append(shown, Part(coord, 0))
  <1>1. PICK S : shown \in Seq(S)
    BY DEF IsSequence
  <1>2. CASE Whole(coord) = <<>>
    BY <1>1, <1>2
  <1>3. CASE Whole(coord) = <<Part(coord, 0)>>
    <2> DEFINE p == Part(coord, 0)
    <2>1. shown \in Seq(S \cup {p}) /\ p \in S \cup {p}
      BY <1>1
    <2> HIDE DEF p
    <2>2. shown \o <<p>> = Append(shown, p)
      BY <2>1
    <2> QED BY <1>3, <2>2 DEF p
  <1> QED BY <1>2, <1>3 DEF Whole

\* A segment that a chunk passes is shown as a whole, or not at all.
LEMMA PassKeepsOrder ==
  ASSUME StreamInv, PassSegment
  PROVE  StreamInv'
  <1>1. /\ stage # "replay" /\ UNCHANGED graph /\ cut' = cut /\ stage' = stage
        /\ coord.current \in DOMAIN coord.ends /\ events' = events
        /\ shown' = shown \o Whole(coord) /\ coord' = Advance(coord)
    BY DEF PassSegment, Listening
  <1>2. Moved(coord, coord')
    BY <1>1, AdvanceMoves DEF StreamInv, Shaped
  <1>3. shown' = shown \/ shown' = Append(shown, Part(coord, 0))
    BY <1>1, WholeShown DEF StreamInv, Shaped
  <1>4. /\ Part(coord, 0).end = coord.current
        /\ Part(coord, 0).at = coord.ends[coord.current].cursor
    BY DEF Part
  <1> QED BY <1>1, <1>2, <1>3, <1>4, MoveKeepsOrder

\* One turn of emit_activate_chunk shows the segment under the cursor and goes on.
LEMMA EmitKeepsOrder ==
  ASSUME StreamInv, EmitSegment
  PROVE  StreamInv'
  <1>1. /\ stage # "replay" /\ UNCHANGED graph /\ cut' = cut /\ stage' = stage
        /\ coord.current \in DOMAIN coord.ends /\ events' = events
        /\ shown' = shown \/ shown' = shown \o Whole(coord)
        /\ coord' = Advance(coord)
    BY DEF EmitSegment, Listening
  <1>2. Moved(coord, coord')
    BY <1>1, AdvanceMoves DEF StreamInv, Shaped
  <1>3. shown' = shown \/ shown' = Append(shown, Part(coord, 0))
    BY <1>1, WholeShown DEF StreamInv, Shaped
  <1>4. /\ Part(coord, 0).end = coord.current
        /\ Part(coord, 0).at = coord.ends[coord.current].cursor
    BY DEF Part
  <1> QED BY <1>1, <1>2, <1>3, <1>4, MoveKeepsOrder

\* A variable counts as streamed: no End notices.
LEMMA MarkStays ==
  ASSUME NEW c, IsCoordinator(c), NEW marks
  PROVE  /\ SamePlaces(c, [c EXCEPT !.streamed = marks])
         /\ [c EXCEPT !.streamed = marks].ends = c.ends
         /\ [c EXCEPT !.streamed = marks].current = c.current
         /\ [c EXCEPT !.streamed = marks].queue = c.queue
         /\ [c EXCEPT !.streamed = marks].processed = c.processed
         /\ [c EXCEPT !.streamed = marks].streamed = marks
  <1>1. [c EXCEPT !.streamed = marks] =
          [ends |-> c.ends, current |-> c.current, queue |-> c.queue,
           processed |-> c.processed, streamed |-> marks]
    BY DEF IsCoordinator
  <1> QED BY <1>1 DEF SamePlaces, IsCoordinator

\* A chunk is shown under the cursor; the last event of its variable moves that on.
LEMMA ChunkKeepsOrder ==
  ASSUME StreamInv, ChunkToEnd
  PROVE  StreamInv'
  <1> DEFINE event == Head(events)
             mine == /\ Listening
                     /\ Segment(coord).node = event.node /\ Segment(coord).field = event.field
             marks == coord.streamed \cup {<<event.node, event.field>>}
             marked == [coord EXCEPT !.streamed = @ \cup {<<event.node, event.field>>}]
  <1>1. /\ stage = "idle" /\ UNCHANGED graph /\ cut' = cut /\ stage' = stage
        /\ events # <<>> /\ events' = Tail(events) /\ IsChunk(event)
        /\ coord' = IF mine /\ Done(event) THEN Advance(marked) ELSE coord
        /\ shown' = IF mine /\ ~Done(event) THEN Append(shown, Part(coord, event.k)) ELSE shown
    BY DEF ChunkToEnd
  <1>2. IsCoordinator(coord) /\ Shaped /\ Frontier /\ Numbered /\ InTemplateOrder
    BY <1>1 DEF StreamInv, Shaped
  <1>3. event.k # 0
    <2>1. Len(events) \in Nat \ {0} /\ event = events[1]
      BY <1>1, <1>2, Taken DEF Numbered
    <2>2. 1 \in 1..Len(events)
      BY <2>1
    <2> QED BY <1>1, <1>2, <2>1, <2>2 DEF Numbered
  <1>4. CASE mine /\ Done(event)
    <2>1. coord.current \in DOMAIN coord.ends /\ shown' = shown /\ coord' = Advance(marked)
      BY <1>1, <1>4 DEF Listening
    <2>2. marked = [coord EXCEPT !.streamed = marks]
      BY <1>2 DEF IsCoordinator
    <2> HIDE DEF marked, marks, mine
    <2>3. IsCoordinator(marked) /\ marked.ends = coord.ends /\ marked.current = coord.current
      BY <1>2, <2>2, MarkStays DEF SamePlaces
    <2>4. Moved(marked, coord')
      BY <2>1, <2>3, AdvanceMoves
    <2>5. Moved(coord, coord')
      BY <2>3, <2>4 DEF Moved
    <2> QED BY <1>1, <2>1, <2>5, MoveKeepsOrder
  <1>5. CASE mine /\ ~Done(event)
    <2> DEFINE p == Part(coord, event.k)
    <2>1. coord.current \in DOMAIN coord.ends /\ shown' = Append(shown, p) /\ coord' = coord
      BY <1>1, <1>5 DEF Listening
    <2>2. /\ p.end = coord.current /\ p.at = coord.ends[coord.current].cursor
          /\ p.k # 0
      BY <1>3 DEF Part
    <2> HIDE DEF p, mine, marked, event
    <2>3. Frontier'
      BY <1>1, <1>2, <2>1, <2>2, FrontierShows
    <2>4. InTemplateOrder' /\ IsSequence(shown') /\ cut' \in {-1} \cup 0..Len(shown')
      BY <1>1, <1>2, <2>1, <2>2, OneMoreInOrder DEF Fits
    <2>5. Shaped'
      BY <1>1, <1>2, <2>1, <2>4, SameModels DEF Shaped, graph
    <2>6. Numbered' /\ Handling'
      BY <1>1, <1>2, NumberedRest DEF Handling
    <2> QED BY <2>3, <2>4, <2>5, <2>6 DEF StreamInv
  <1>6. CASE ~mine
    <2>1. coord' = coord /\ shown' = shown
      BY <1>1, <1>6
    <2>2. SamePlaces(coord, coord')
      BY <1>2, <2>1, StaysPut
    <2>3. stage # "replay" /\ stage' # "replay" /\ Handling'
      BY <1>1 DEF Handling
    <2> QED BY <1>1, <2>1, <2>2, <2>3, PlacesKept
  <1> QED BY <1>4, <1>5, <1>6

\* A chunk that no End is current for is shown as part of none.
LEMMA DirectKeepsOrder ==
  ASSUME StreamInv, ChunkDirectly
  PROVE  StreamInv'
  <1> DEFINE event == Head(events)
             marks == coord.streamed \cup {<<event.node, event.field>>}
             p == [end |-> NoEnd, at |-> 0, node |-> event.node, field |-> event.field,
                   k |-> event.k]
  <1>1. /\ stage = "idle" /\ UNCHANGED graph /\ cut' = cut /\ stage' = stage
        /\ events # <<>> /\ events' = Tail(events) /\ coord.current = NoEnd
    BY DEF ChunkDirectly
  <1>2. IsCoordinator(coord) /\ Shaped /\ Frontier /\ Numbered /\ InTemplateOrder
    BY <1>1 DEF StreamInv, Shaped
  <1>3. coord' = coord \/ coord' = [coord EXCEPT !.streamed = marks]
    BY <1>2 DEF ChunkDirectly, IsCoordinator
  <1>4. shown' = shown \/ shown' = Append(shown, p)
    BY DEF ChunkDirectly
  <1>5. p.end = NoEnd
    OBVIOUS
  <1> HIDE DEF p, marks, event
  <1>6. SamePlaces(coord, coord')
    BY <1>2, <1>3, StaysPut, MarkStays
  <1>7. stage # "replay" /\ stage' # "replay" /\ Handling'
    BY <1>1 DEF Handling
  <1>8. CASE shown' = shown
    BY <1>1, <1>6, <1>7, <1>8, PlacesKept
  <1>9. CASE shown' = Append(shown, p)
    <2>1. Frontier'
      BY <1>1, <1>2, <1>5, <1>6, <1>9, FrontierDirect
    <2>2. InTemplateOrder' /\ IsSequence(shown') /\ cut' \in {-1} \cup 0..Len(shown')
      BY <1>1, <1>2, <1>5, <1>9, OneMoreInOrder DEF Fits
    <2>3. Shaped'
      BY <1>1, <1>2, <1>6, <2>2, SameModels DEF Shaped, SamePlaces, graph
    <2>4. Numbered'
      BY <1>1, <1>2, NumberedRest
    <2> QED BY <1>7, <2>1, <2>2, <2>3, <2>4 DEF StreamInv
  <1> QED BY <1>4, <1>8, <1>9

\* A resumed stream starts with a new coordinator, which only listens at first.
LEMMA ResumeKeepsOrder ==
  ASSUME StreamInv, \E u \in Units : \E l \in Labels(u[1]) : Resume(u, l)
  PROVE  StreamInv'
  <1>1. PICK u \in Units : \E l \in Labels(u[1]) : Resume(u, l)
    OBVIOUS
  <1>2. /\ UNCHANGED <<wf, sent, shown, cut>> /\ stage' = "replay" /\ cut = -1
        /\ coord' = UpdateScope(NewCoordinator, "sys", "")
    BY <1>1 DEF Resume, Interrupting
  <1>3. IsCoordinator(coord')
    BY <1>2, NewCoordinatorShaped, UpdateScopeStays DEF SamePlaces
  <1>4. Shaped' /\ InTemplateOrder'
    BY <1>2, <1>3, ShapedStays, OrderStays DEF StreamInv, Shaped
  <1> QED BY <1>2, <1>4 DEF StreamInv, Handling

\* While the coordinator is rebuilt, nothing is shown.
LEMMA ReplayKeepsOrder ==
  ASSUME StreamInv, Replay
  PROVE  StreamInv'
  <1>1. UNCHANGED <<wf, sent, shown, cut>> /\ stage = "replay" /\ stage' = "replay"
    BY DEF Replay, graph
  <1>2. IsCoordinator(coord')
    BY ToldStays DEF StreamInv, Shaped, Replay, SamePlaces
  <1>3. Shaped' /\ InTemplateOrder'
    BY <1>1, <1>2, ShapedStays, OrderStays DEF StreamInv, Shaped
  <1> QED BY <1>1, <1>3 DEF StreamInv, Handling

\* The coordinator of a resumed stream knows some of the Ends it was told of.
LEMMA RecoveredShaped ==
  ASSUME IsCoordinator(coord)
  PROVE  IsCoordinator(Recovered)
  <1> DEFINE gone == pool \cap Ends
             kept == [e \in DOMAIN coord.ends \ gone |-> coord.ends[e]]
             d == [coord EXCEPT
                     !.streamed = {<<n, "output">> : n \in pool \cap Nodes},
                     !.ends = kept,
                     !.queue = Keep(coord.queue, Ends \ gone),
                     !.processed = coord.processed \ gone,
                     !.current = IF coord.current \in gone THEN NoEnd ELSE coord.current]
  <1>1. Recovered = NextEnd(d)
    BY DEF Recovered
  <1>2. /\ kept = [e \in DOMAIN kept |-> kept[e]]
        /\ \A e \in DOMAIN kept : IsOutput(kept[e])
    BY DEF IsCoordinator
  <1>3. PICK marks, queue, processed, current :
          d = [coord EXCEPT !.streamed = marks, !.ends = kept, !.queue = queue,
                            !.processed = processed, !.current = current]
    OBVIOUS
  <1> HIDE DEF kept, d, gone
  <1>4. d = [ends |-> kept, current |-> current, queue |-> queue, processed |-> processed,
             streamed |-> marks]
    BY <1>3 DEF IsCoordinator
  <1>5. IsCoordinator(d)
    BY <1>2, <1>4 DEF IsCoordinator
  <1> QED BY <1>1, <1>5, NextEndStays DEF SamePlaces

\* From here on a new part may be one that was shown before the interruption.
LEMMA PreActivateKeepsOrder ==
  ASSUME StreamInv, PreActivate
  PROVE  StreamInv'
  <1>1. /\ UNCHANGED <<wf, sent, shown, events>> /\ stage = "replay" /\ stage' = "resume"
        /\ events = <<>> /\ cut' = Len(shown)
        /\ \E scope, status : coord' = UpdateScope(Recovered, scope, status)
    BY DEF PreActivate
  <1>2. Shaped /\ InTemplateOrder /\ cut = -1
    BY <1>1 DEF StreamInv, Shaped
  <1>3. IsCoordinator(coord')
    BY <1>1, <1>2, RecoveredShaped, UpdateScopeStays DEF Shaped, SamePlaces
  <1>4. Len(shown) \in Nat
    BY <1>2, Appended DEF Shaped
  <1>5. Shaped'
    BY <1>1, <1>2, <1>3, <1>4, SameModels DEF Shaped
  <1>6. InTemplateOrder'
    BY <1>1, <1>2, <1>4 DEF InTemplateOrder
  <1>7. Frontier'
    BY <1>1, <1>4 DEF Frontier
  <1>8. Numbered' /\ Handling'
    BY <1>1 DEF Numbered, IsSequence, Handling
  <1> QED BY <1>5, <1>6, <1>7, <1>8 DEF StreamInv

-----------------------------------------------------------------------------
\* At the start nothing has been shown.
LEMMA StreamInvInit == Init => StreamInv
  <1> SUFFICES ASSUME Init PROVE StreamInv
    OBVIOUS
  <1>1. /\ wf \in Workflows /\ sent = [n \in Models |-> 0] /\ events = <<>> /\ stage = "idle"
        /\ shown = <<>> /\ cut = -1 /\ coord = UpdateScope(NewCoordinator, "sys", "")
    BY DEF Init
  <1>2. IsCoordinator(coord)
    BY <1>1, NewCoordinatorShaped, UpdateScopeStays DEF SamePlaces
  <1>3. IsSequence(<<>>)
    <2>1. <<>> \in Seq({})
      OBVIOUS
    <2> QED BY <2>1 DEF IsSequence
  <1>4. \A i \in 1..Len(<<>>) : FALSE
    <2>1. Len(<<>>) = 0
      OBVIOUS
    <2> QED BY <2>1
  <1>5. Shaped /\ Numbered
    <2>1. sent \in [Models -> Nat]
      BY <1>1
    <2> QED BY <1>1, <1>2, <1>3, <1>4, <2>1 DEF Shaped, Numbered
  <1>6. Frontier /\ InTemplateOrder /\ Handling
    BY <1>1, <1>4 DEF Frontier, InTemplateOrder, Handling
  <1> QED BY <1>5, <1>6 DEF StreamInv

\* Every step keeps the invariant.
LEMMA StreamInvNext == ASSUME StreamInv, [Next]_vars PROVE StreamInv'
  <1>1. CASE Step
    BY <1>1, GraphKeepsOrder
  <1>2. ASSUME NEW n \in Models, Chunk(n) \/ AttemptFails(n) PROVE StreamInv'
    BY <1>2, GraphKeepsOrder
  <1>3. ASSUME NEW u \in Units, Finish(u) PROVE StreamInv'
    BY <1>3, GraphKeepsOrder
  <1>4. ASSUME NEW u \in Units, NEW l \in Labels(u[1]), Resume(u, l) PROVE StreamInv'
    BY <1>4, ResumeKeepsOrder
  <1>5. CASE HandleUpdate
    BY <1>5, UpdateKeepsOrder
  <1>6. CASE PassSegment
    BY <1>6, PassKeepsOrder
  <1>7. CASE ChunkToEnd
    BY <1>7, ChunkKeepsOrder
  <1>8. CASE ChunkDirectly
    BY <1>8, DirectKeepsOrder
  <1>9. CASE EmitSegment
    BY <1>9, EmitKeepsOrder
  <1>10. CASE TurnToNext
    BY <1>10, TurnKeepsOrder
  <1>11. CASE Wait
    BY <1>11, WaitKeepsOrder
  <1>12. CASE Flush
    BY <1>12, FlushKeepsOrder
  <1>13. CASE Replay
    BY <1>13, ReplayKeepsOrder
  <1>14. CASE PreActivate
    BY <1>14, PreActivateKeepsOrder
  <1>15. CASE UNCHANGED vars
    BY <1>15 DEF vars, StreamInv, Shaped, Numbered, Frontier, InTemplateOrder, Handling,
                 Models, Nodes
  <1> QED BY <1>1, <1>2, <1>3, <1>4, <1>5, <1>6, <1>7, <1>8, <1>9, <1>10, <1>11, <1>12,
             <1>13, <1>14, <1>15 DEF Next, Fails, Goes

\* Whatever the workflow, the parts of the template of one End come in its order,
\* literals and whole values once, and no part of anything else comes between them,
\* in whatever order branches are resolved and chunks and updates arrive, however
\* far the consumer lags and whichever calls fail; a resumed stream starts again
\* (stream_output_coordinator.py:331-357, 399-457).
THEOREM PartsInOrder == Spec => []InTemplateOrder
  <1>1. Init => StreamInv
    BY StreamInvInit
  <1>2. StreamInv /\ [Next]_vars => StreamInv'
    BY StreamInvNext
  <1>3. StreamInv => InTemplateOrder
    BY DEF StreamInv
  <1> QED BY <1>1, <1>2, <1>3, PTL DEF Spec

-----------------------------------------------------------------------------
(* Queues of different elements *)

Distinct(q) == \A i, j \in 1..Len(q) : q[i] = q[j] => i = j

LEMMA RangeIs ==
  ASSUME NEW T, NEW q \in Seq(T)
  PROVE  Range(q) = {q[i] : i \in 1..Len(q)} /\ Range(q) \subseteq T
  BY DEF Range

\* One more element at the end of a queue.
LEMMA QueueMore ==
  ASSUME NEW T, NEW q \in Seq(T), Distinct(q), NEW x \in T, x \notin Range(q)
  PROVE  /\ Append(q, x) \in Seq(T) /\ Distinct(Append(q, x))
         /\ Range(Append(q, x)) = Range(q) \cup {x}
  <1> DEFINE r == Append(q, x)
  <1>1. /\ r \in Seq(T) /\ Len(q) \in Nat /\ Len(r) = Len(q) + 1 /\ r[Len(q) + 1] = x
        /\ \A i \in 1..Len(q) : r[i] = q[i]
    OBVIOUS
  <1>2. \A i \in 1..Len(q) : q[i] # x
    BY RangeIs
  <1> HIDE DEF r
  <1>3. Distinct(r)
    <2> SUFFICES ASSUME NEW i \in 1..Len(r), NEW j \in 1..Len(r), r[i] = r[j] PROVE i = j
      BY DEF Distinct
    <2>1. (i \in 1..Len(q) \/ i = Len(q) + 1) /\ (j \in 1..Len(q) \/ j = Len(q) + 1)
      BY <1>1
    <2> QED BY <2>1, <1>1, <1>2 DEF Distinct
  <1>4. Range(r) = Range(q) \cup {x}
    <2>1. Range(r) = {r[i] : i \in 1..Len(r)} /\ Range(q) = {q[i] : i \in 1..Len(q)}
      BY <1>1, RangeIs
    <2>2. \A i \in 1..Len(r) : i \in 1..Len(q) \/ i = Len(q) + 1
      BY <1>1
    <2>3. \A i \in 1..Len(q) : i \in 1..Len(r)
      BY <1>1
    <2>4. Len(q) + 1 \in 1..Len(r)
      BY <1>1
    <2> QED BY <1>1, <2>1, <2>2, <2>3, <2>4
  <1> QED BY <1>1, <1>3, <1>4 DEF r

\* Taking the first element of a queue.
LEMMA QueueLess ==
  ASSUME NEW T, NEW q \in Seq(T), Distinct(q), q # <<>>
  PROVE  /\ Head(q) \in Range(q) /\ Tail(q) \in Seq(T) /\ Distinct(Tail(q))
         /\ Range(Tail(q)) = Range(q) \ {Head(q)}
  <1> DEFINE r == Tail(q)
  <1>1. /\ r \in Seq(T) /\ Len(q) \in Nat \ {0} /\ Len(r) = Len(q) - 1 /\ Head(q) = q[1]
        /\ \A i \in 1..Len(r) : r[i] = q[i + 1]
    OBVIOUS
  <1> HIDE DEF r
  <1>2. /\ 1 \in 1..Len(q)
        /\ \A i \in 1..Len(r) : i + 1 \in 1..Len(q) /\ i + 1 # 1
        /\ \A i \in 1..Len(q) : i # 1 => i - 1 \in 1..Len(r) /\ i = (i - 1) + 1
    BY <1>1
  <1>3. Range(r) = {r[i] : i \in 1..Len(r)} /\ Range(q) = {q[i] : i \in 1..Len(q)}
    BY <1>1, RangeIs
  <1>4. Distinct(r)
    <2> SUFFICES ASSUME NEW i \in 1..Len(r), NEW j \in 1..Len(r), r[i] = r[j] PROVE i = j
      BY DEF Distinct
    <2>1. i + 1 = j + 1
      BY <1>1, <1>2 DEF Distinct
    <2> QED BY <2>1, <1>1
  <1>5. Range(r) = Range(q) \ {q[1]}
    <2>1. ASSUME NEW i \in 1..Len(r) PROVE r[i] \in Range(q) /\ r[i] # q[1]
      BY <1>1, <1>2, <1>3 DEF Distinct
    <2>2. ASSUME NEW i \in 1..Len(q), q[i] # q[1] PROVE q[i] \in Range(r)
      <3>1. i - 1 \in 1..Len(r) /\ r[i - 1] = q[i]
        BY <1>1, <1>2, <2>2
      <3> QED BY <3>1, <1>3
    <2> QED BY <2>1, <2>2, <1>3
  <1> QED BY <1>1, <1>2, <1>3, <1>4, <1>5 DEF r

\* One queue behind another one.
LEMMA QueueJoined ==
  ASSUME NEW T, NEW q \in Seq(T), NEW r \in Seq(T), Distinct(q), Distinct(r),
         Range(q) \cap Range(r) = {}
  PROVE  q \o r \in Seq(T) /\ Distinct(q \o r) /\ Range(q \o r) = Range(q) \cup Range(r)
  <1> DEFINE s == q \o r
  <1>1. /\ s \in Seq(T) /\ Len(q) \in Nat /\ Len(r) \in Nat /\ Len(s) = Len(q) + Len(r)
        /\ \A i \in 1..Len(q) : s[i] = q[i]
        /\ \A i \in 1..Len(r) : s[Len(q) + i] = r[i]
    OBVIOUS
  <1> HIDE DEF s
  <1>2. /\ \A i \in 1..Len(s) : i \in 1..Len(q) \/ (i - Len(q) \in 1..Len(r) /\ i = Len(q) + (i - Len(q)))
        /\ \A i \in 1..Len(q) : i \in 1..Len(s)
        /\ \A i \in 1..Len(r) : Len(q) + i \in 1..Len(s)
    BY <1>1
  <1>3. /\ Range(s) = {s[i] : i \in 1..Len(s)} /\ Range(q) = {q[i] : i \in 1..Len(q)}
        /\ Range(r) = {r[i] : i \in 1..Len(r)}
    BY <1>1, RangeIs
  <1>4. ASSUME NEW i \in 1..Len(s)
        PROVE  \/ i \in 1..Len(q) /\ s[i] = q[i] /\ s[i] \in Range(q)
               \/ i - Len(q) \in 1..Len(r) /\ s[i] = r[i - Len(q)] /\ s[i] \in Range(r)
    BY <1>1, <1>2, <1>3
  <1>5. Distinct(s)
    <2> SUFFICES ASSUME NEW i \in 1..Len(s), NEW j \in 1..Len(s), s[i] = s[j] PROVE i = j
      BY DEF Distinct
    <2>1. \/ i \in 1..Len(q) /\ j \in 1..Len(q) /\ q[i] = q[j]
          \/ /\ i - Len(q) \in 1..Len(r) /\ j - Len(q) \in 1..Len(r)
             /\ r[i - Len(q)] = r[j - Len(q)]
      BY <1>4
    <2>2. i = j \/ i - Len(q) = j - Len(q)
      BY <2>1 DEF Distinct
    <2> QED BY <2>2, <1>1
  <1>6. Range(s) = Range(q) \cup Range(r)
    <2>1. \A i \in 1..Len(q) : q[i] \in Range(s)
      BY <1>1, <1>2, <1>3
    <2>2. \A i \in 1..Len(r) : r[i] \in Range(s)
      BY <1>1, <1>2, <1>3
    <2> QED BY <2>1, <2>2, <1>3, <1>4
  <1> QED BY <1>1, <1>5, <1>6 DEF s

-----------------------------------------------------------------------------
(* Keep: the elements of a sequence that are in a set *)

\* A nonempty set of numbers has a least element: the induction of this module.
LEMMA LeastNumber ==
  ASSUME NEW T, T \subseteq Nat, T # {} PROVE \E x \in T : \A y \in T : x <= y
  <1> DEFINE Less == OpToRel(<, Nat)
  <1>1. IsWellFoundedOn(Less, Nat)
    BY NatLessThanWellFounded
  <1>2. \A x, y \in Nat : y < x => <<y, x>> \in Less
    BY DEF OpToRel
  <1> HIDE DEF Less
  <1>3. PICK x \in T : \A y \in T : ~(<<y, x>> \in Less)
    BY <1>1, WFMin
  <1>4. ASSUME NEW y \in T PROVE x <= y
    <2>1. x \in Nat /\ y \in Nat /\ ~(y < x)
      BY <1>2, <1>3
    <2> QED BY <2>1
  <1> QED BY <1>4

\* Keep is element number Len(s) of a function with this equation.
KeptOf(s, S, g, k) ==
  IF k = 0 THEN <<>> ELSE IF s[k] \in S THEN Append(g[k - 1], s[k]) ELSE g[k - 1]
Keeps(s, S, g, n) == g = [k \in 0..n |-> KeptOf(s, S, g, k)]

\* There is such a function for every length: it is extended by one value at a time.
LEMMA KeepsExists ==
  ASSUME NEW s, NEW S PROVE \A n \in Nat : \E g : Keeps(s, S, g, n)
  <1> DEFINE Missing(n) == ~ \E g : Keeps(s, S, g, n)
             T == {n \in Nat : Missing(n)}
  <1>1. ~Missing(0)
    <2> DEFINE g == [k \in 0..0 |-> <<>>]
    <2>1. Keeps(s, S, g, 0)
      BY DEF Keeps, KeptOf
    <2> QED BY <2>1
  <1>2. ASSUME NEW n \in Nat, ~Missing(n) PROVE ~Missing(n + 1)
    <2>1. PICK g : g = [k \in 0..n |-> KeptOf(s, S, g, k)]
      BY <1>2 DEF Keeps
    <2> DEFINE h == [k \in 0..(n + 1) |-> IF k <= n THEN g[k] ELSE KeptOf(s, S, g, n + 1)]
    <2>2. ASSUME NEW k \in 0..(n + 1) PROVE h[k] = KeptOf(s, S, h, k)
      <3>1. k # 0 => h[k - 1] = g[k - 1]
        OBVIOUS
      <3>2. CASE k <= n
        <4>1. h[k] = KeptOf(s, S, g, k)
          BY <2>1, <3>2
        <4> QED BY <3>1, <4>1 DEF KeptOf
      <3>3. CASE k = n + 1
        <4>1. h[k] = KeptOf(s, S, g, k)
          BY <3>3
        <4> QED BY <3>1, <4>1 DEF KeptOf
      <3> QED BY <3>2, <3>3
    <2>3. Keeps(s, S, h, n + 1)
      BY <2>2 DEF Keeps
    <2> QED BY <2>3
  <1> HIDE DEF Missing
  <1>3. T = {}
    <2> SUFFICES ASSUME T # {} PROVE FALSE
      OBVIOUS
    <2>1. PICK n \in T : \A m \in T : n <= m
      BY LeastNumber
    <2>2. n \in Nat \ {0} /\ n - 1 \in Nat /\ n = (n - 1) + 1 /\ ~(n <= n - 1)
      BY <1>1, <2>1
    <2>3. ~Missing(n - 1)
      BY <2>1, <2>2
    <2> QED BY <1>2, <2>1, <2>2, <2>3
  <1> QED BY <1>3 DEF Missing

\* What has been kept of the first k elements of s.
KeptSoFar(s, S, T, q, k) ==
  q \in Seq(T) /\ Distinct(q) /\ Range(q) = {s[i] : i \in 1..k} \cap S

\* What is kept of a queue are those of its elements that are in S.
LEMMA KeepQueue ==
  ASSUME NEW T, NEW s \in Seq(T), Distinct(s), NEW S
  PROVE  Keep(s, S) \in Seq(T) /\ Distinct(Keep(s, S)) /\ Range(Keep(s, S)) = Range(s) \cap S
  <1>1. Keep(s, S) = (CHOOSE g : Keeps(s, S, g, Len(s)))[Len(s)] /\ Len(s) \in Nat
    BY DEF Keep, Keeps, KeptOf
  <1>2. PICK g : Keeps(s, S, g, Len(s)) /\ Keep(s, S) = g[Len(s)]
    BY <1>1, KeepsExists
  <1>3. ASSUME NEW k \in 0..Len(s) PROVE g[k] = KeptOf(s, S, g, k)
    <2>1. g = [m \in 0..Len(s) |-> KeptOf(s, S, g, m)]
      BY <1>2 DEF Keeps
    <2> QED BY <2>1, Zenon
  <1> DEFINE Wrong(k) == ~KeptSoFar(s, S, T, g[k], k)
             W == {k \in 0..Len(s) : Wrong(k)}
  <1>4. ~Wrong(0)
    <2>1. g[0] = <<>>
      BY <1>1, <1>3 DEF KeptOf
    <2>2. <<>> \in Seq(T) /\ Len(<<>>) = 0
      OBVIOUS
    <2>3. Distinct(<<>>)
      BY <2>2 DEF Distinct
    <2>4. Range(<<>>) = {<<>>[i] : i \in 1..0}
      BY <2>2, RangeIs
    <2>5. \A i \in 1..0 : FALSE
      OBVIOUS
    <2>6. Range(<<>>) = {} /\ {s[i] : i \in 1..0} = {}
      BY <2>4, <2>5, Zenon
    <2> QED BY <2>1, <2>2, <2>3, <2>6 DEF KeptSoFar
  <1>5. ASSUME NEW k \in 1..Len(s), ~Wrong(k - 1) PROVE ~Wrong(k)
    <2>1. /\ g[k - 1] \in Seq(T) /\ Distinct(g[k - 1])
          /\ Range(g[k - 1]) = {s[i] : i \in 1..(k - 1)} \cap S
      BY <1>5 DEF KeptSoFar
    <2>2. /\ g[k] = IF s[k] \in S THEN Append(g[k - 1], s[k]) ELSE g[k - 1]
          /\ s[k] \in T
      BY <1>1, <1>3 DEF KeptOf
    <2>3. {s[i] : i \in 1..k} = {s[i] : i \in 1..(k - 1)} \cup {s[k]}
      <3>1. 1..k = 1..(k - 1) \cup {k}
        BY <1>1
      <3> QED BY <3>1
    <2>4. s[k] \notin Range(g[k - 1])
      <3>1. \A i \in 1..(k - 1) : i \in 1..Len(s) /\ i # k
        BY <1>1
      <3> QED BY <2>1, <3>1 DEF Distinct
    <2>5. CASE s[k] \in S
      BY <2>1, <2>2, <2>3, <2>4, <2>5, QueueMore DEF KeptSoFar
    <2>6. CASE s[k] \notin S
      BY <2>1, <2>2, <2>3, <2>6 DEF KeptSoFar
    <2> QED BY <2>5, <2>6
  <1> HIDE DEF Wrong
  <1>6. W = {}
    <2> SUFFICES ASSUME W # {} PROVE FALSE
      OBVIOUS
    <2>1. W \subseteq Nat
      BY <1>1
    <2>2. PICK k \in W : \A m \in W : k <= m
      BY <2>1, LeastNumber
    <2>3. k \in 1..Len(s) /\ k - 1 \in 0..Len(s) /\ ~(k <= k - 1)
      BY <1>1, <1>4, <2>2
    <2>4. ~Wrong(k - 1)
      BY <2>2, <2>3
    <2> QED BY <1>5, <2>2, <2>3, <2>4
  <1>7. ~Wrong(Len(s))
    BY <1>1, <1>6
  <1> QED BY <1>2, <1>7, RangeIs DEF Wrong, KeptSoFar

-----------------------------------------------------------------------------
(* What the coordinator knows fits together *)

\* What the argument needs of a workflow: each node comes once in the order.
LEMMA WorkflowIs ==
  ASSUME wf \in Workflows
  PROVE  /\ NoEnd \notin Nodes /\ "" \notin Nodes /\ wf.start \in Nodes
         /\ wf.order \in Seq(Nodes) /\ Distinct(wf.order) /\ Range(wf.order) = Nodes
         /\ \A e \in Ends : Len(wf.template[e]) \in Nat \ {0}
  <1>1. IsWorkflow(wf)
    BY WorkflowAssumption
  <1>2. /\ NoEnd \notin Nodes /\ "" \notin Nodes /\ wf.start \in Nodes
        /\ wf.order \in Seq(Nodes) /\ Distinct(wf.order)
        /\ \A n \in Nodes : \E i \in 1..Len(wf.order) : wf.order[i] = n
    BY <1>1 DEF IsWorkflow, Nodes, Distinct
  <1>3. Range(wf.order) = Nodes
    <2>1. Range(wf.order) = {wf.order[i] : i \in 1..Len(wf.order)}
      BY <1>2, RangeIs, Zenon
    <2>2. Range(wf.order) \subseteq Nodes
      BY <1>2, RangeIs, Zenon
    <2> QED BY <1>2, <2>1, <2>2, Zenon
  <1>4. ASSUME NEW e \in Ends PROVE Len(wf.template[e]) \in Nat \ {0}
    <2>1. wf.template[e] \in Seq([node : STRING, field : STRING]) \ {<<>>}
      BY <1>1 DEF IsWorkflow, Ends, Nodes
    <2> QED BY <2>1
  <1> QED BY <1>2, <1>3, <1>4

\* Every End comes once in the order of the Ends.
LEMMA EndOrderIs ==
  ASSUME wf \in Workflows
  PROVE  EndOrder \in Seq(Nodes) /\ Distinct(EndOrder) /\ Range(EndOrder) = Ends
  <1>1. Ends \subseteq Nodes
    BY DEF Ends
  <1>2. wf.order \in Seq(Nodes) /\ Distinct(wf.order) /\ Range(wf.order) = Nodes
    BY WorkflowIs
  <1>3. /\ EndOrder \in Seq(Nodes) /\ Distinct(EndOrder)
        /\ Range(EndOrder) = Range(wf.order) \cap Ends
    BY <1>2, KeepQueue, Zenon DEF EndOrder
  <1> QED BY <1>1, <1>2, <1>3

\* The Ends a coordinator knows: those found active are the current one and those
\* that queue, each of them in one place.
KnownEnds(c) ==
  /\ DOMAIN c.ends \subseteq Ends /\ c.processed \subseteq Ends
  /\ \A e \in DOMAIN c.ends : /\ c.ends[e].cursor \in 1..Len(wf.template[e])
                              /\ c.ends[e].force => c.ends[e].active
                              /\ e \in c.processed => e = c.current \/ e \in Range(c.queue)
Waiting(c, e) == e \in DOMAIN c.ends /\ c.ends[e].active /\ e \in c.processed
QueuedEnds(c) == /\ c.queue \in Seq(Nodes) /\ Distinct(c.queue)
                 /\ \A e \in Range(c.queue) : Waiting(c, e) /\ e # c.current
CurrentEnd(c) == c.current # NoEnd => Waiting(c, c.current)
StreamedNodes(c) == \A x \in c.streamed : x[1] # ""

Coherent(c) == /\ IsCoordinator(c) /\ KnownEnds(c) /\ QueuedEnds(c) /\ CurrentEnd(c)
               /\ StreamedNodes(c)

\* Every End that is active has been found so.
AllNoticed(c) == \A e \in DOMAIN c.ends : c.ends[e].active => e \in c.processed

\* The next End that queues becomes the current one.
LEMMA NextEndCoherent ==
  ASSUME wf \in Workflows, NEW c, Coherent(c)
  PROVE  /\ Coherent(NextEnd(c)) /\ (AllNoticed(c) => AllNoticed(NextEnd(c)))
         /\ NextEnd(c).current = NoEnd => NextEnd(c).queue = <<>>
         /\ NextEnd(c).processed = c.processed /\ NextEnd(c).streamed = c.streamed
  <1>1. CASE c.current = NoEnd /\ c.queue # <<>>
    <2> DEFINE h == Head(c.queue)
               q == Tail(c.queue)
               n == NextEnd(c)
    <2>1. n = [ends |-> c.ends, current |-> h, queue |-> q,
               processed |-> c.processed, streamed |-> c.streamed]
      BY <1>1 DEF NextEnd, IsCoordinator, Coherent
    <2>2. /\ h \in Range(c.queue) /\ q \in Seq(Nodes) /\ Distinct(q)
          /\ Range(q) = Range(c.queue) \ {h}
      BY <1>1, QueueLess DEF Coherent, QueuedEnds
    <2>3. IsCoordinator(n)
      BY NextEndStays DEF SamePlaces, Coherent
    <2> HIDE DEF h, q, n
    <2>4. /\ n.ends = c.ends /\ n.current = h /\ n.queue = q
          /\ n.processed = c.processed /\ n.streamed = c.streamed
      BY <2>1
    <2>5. Waiting(c, h) /\ h # NoEnd
      BY <1>1, <2>2, WorkflowIs DEF Coherent, QueuedEnds, KnownEnds, Waiting, Ends
    <2>6. \A e \in DOMAIN c.ends : e # NoEnd
      BY WorkflowIs DEF Coherent, KnownEnds, Ends
    <2>7. KnownEnds(n)
      BY <1>1, <2>2, <2>4, <2>6 DEF KnownEnds, Coherent
    <2>8. QueuedEnds(n)
      BY <2>2, <2>4 DEF QueuedEnds, Waiting, Coherent
    <2>9. CurrentEnd(n) /\ StreamedNodes(n)
      BY <2>4, <2>5 DEF CurrentEnd, StreamedNodes, Waiting, Coherent
    <2>10. Coherent(n)
      BY <2>3, <2>7, <2>8, <2>9 DEF Coherent
    <2> QED BY <2>4, <2>5, <2>10 DEF AllNoticed, n
  <1>2. CASE ~(c.current = NoEnd /\ c.queue # <<>>)
    BY <1>2 DEF NextEnd
  <1> QED BY <1>1, <1>2

\* An output that hears of a scope stays active and forced, and its own node forces it.
LEMMA NoticeForces ==
  ASSUME NEW o, IsOutput(o), NEW e, NEW scope, NEW status
  PROVE  /\ o.active => Notice(o, e, scope, status).active
         /\ o.force \/ scope = e => Notice(o, e, scope, status).force
         /\ (o.force => o.active)
              => (Notice(o, e, scope, status).force => Notice(o, e, scope, status).active)
  <1> DEFINE branched == o.branched \/ <<scope, status>> \in deps[e].ctrl
             outs == o.outs \ {scope}
  <1>1. CASE o.force
    BY <1>1 DEF Notice
  <1>2. CASE ~o.force /\ scope = e
    <2>1. Notice(o, e, scope, status) = [o EXCEPT !.active = TRUE, !.force = TRUE]
      BY <1>2 DEF Notice
    <2> QED BY <2>1 DEF IsOutput
  <1>3. CASE ~o.force /\ scope # e
    <2>1. Notice(o, e, scope, status) =
            [o EXCEPT !.branched = branched, !.outs = outs, !.heard = @ \cup {scope},
                      !.active = o.active \/ (branched /\ outs = {})]
      BY <1>3 DEF Notice
    <2> HIDE DEF branched, outs
    <2>2. /\ Notice(o, e, scope, status).force = o.force
          /\ Notice(o, e, scope, status).active = (o.active \/ (branched /\ outs = {}))
      BY <2>1 DEF IsOutput
    <2> QED BY <1>3, <2>2
  <1> QED BY <1>1, <1>2, <1>3

\* After a scope has completed every active End has been found so, and one is shown
\* unless none queues; nothing that was active or forced is so no more.
LEMMA UpdateScopeCoherent ==
  ASSUME wf \in Workflows, NEW c, Coherent(c), NEW scope, NEW status
  PROVE  /\ Coherent(UpdateScope(c, scope, status)) /\ AllNoticed(UpdateScope(c, scope, status))
         /\ UpdateScope(c, scope, status).current = NoEnd
              => UpdateScope(c, scope, status).queue = <<>>
         /\ UpdateScope(c, scope, status).streamed = c.streamed
         /\ DOMAIN UpdateScope(c, scope, status).ends = DOMAIN c.ends
         /\ \A e \in DOMAIN c.ends :
              LET o == UpdateScope(c, scope, status).ends[e]
              IN  /\ o.cursor = c.ends[e].cursor
                  /\ c.ends[e].active => o.active
                  /\ c.ends[e].force \/ scope = e => o.force
  <1> DEFINE ends == [e \in DOMAIN c.ends |-> Notice(c.ends[e], e, scope, status)]
             woken == Keep(EndOrder, {e \in DOMAIN ends : ends[e].active} \ c.processed)
             q == c.queue \o woken
             p == c.processed \cup Range(woken)
             d == [c EXCEPT !.ends = ends, !.queue = @ \o woken,
                            !.processed = @ \cup Range(woken)]
  <1>1. UpdateScope(c, scope, status) = NextEnd(d)
    BY DEF UpdateScope
  <1>2. /\ DOMAIN ends = DOMAIN c.ends /\ ends = [e \in DOMAIN ends |-> ends[e]]
        /\ \A e \in DOMAIN ends : IsOutput(ends[e]) /\ ends[e].cursor = c.ends[e].cursor
    BY NoticeStays DEF IsCoordinator, Coherent
  <1>3. \A e \in DOMAIN ends : /\ c.ends[e].active => ends[e].active
                               /\ c.ends[e].force \/ scope = e => ends[e].force
                               /\ ends[e].force => ends[e].active
    BY NoticeForces DEF IsCoordinator, Coherent, KnownEnds
  <1>4. d = [c EXCEPT !.ends = ends, !.queue = q, !.processed = p]
    OBVIOUS
  <1>5. /\ woken \in Seq(Nodes) /\ Distinct(woken)
        /\ Range(woken) = Ends \cap ({e \in DOMAIN ends : ends[e].active} \ c.processed)
    BY EndOrderIs, KeepQueue
  <1> HIDE DEF ends, woken, d
  <1>6. Range(woken) = {e \in DOMAIN ends : ends[e].active} \ c.processed
    BY <1>2, <1>5 DEF Coherent, KnownEnds
  <1>7. q \in Seq(Nodes) /\ Distinct(q) /\ Range(q) = Range(c.queue) \cup Range(woken)
    <2>1. Range(c.queue) \cap Range(woken) = {}
      BY <1>6 DEF Coherent, QueuedEnds, Waiting
    <2> QED BY <1>5, <2>1, QueueJoined DEF Coherent, QueuedEnds
  <1>8. p = c.processed \cup Range(woken)
    OBVIOUS
  <1> HIDE DEF q, p
  <1>9. d = [ends |-> ends, current |-> c.current, queue |-> q, processed |-> p,
             streamed |-> c.streamed]
    BY <1>4 DEF Coherent, IsCoordinator
  <1>10. /\ d.ends = ends /\ d.current = c.current /\ d.queue = q /\ d.processed = p
         /\ d.streamed = c.streamed
    BY <1>9
  <1>11. IsCoordinator(d)
    BY <1>2, <1>9 DEF IsCoordinator
  <1>12. Coherent(d)
    <2>1. p \subseteq Ends
      BY <1>5, <1>8 DEF Coherent, KnownEnds
    <2>2. \A e \in DOMAIN ends : e \in p => e = c.current \/ e \in Range(q)
      BY <1>2, <1>7, <1>8 DEF Coherent, KnownEnds
    <2>3. KnownEnds(d)
      BY <1>2, <1>3, <1>10, <2>1, <2>2 DEF Coherent, KnownEnds
    <2>4. \A e : Waiting(c, e) => Waiting(d, e)
      BY <1>2, <1>3, <1>8, <1>10 DEF Waiting
    <2>5. \A e \in Range(woken) : Waiting(d, e) /\ e # c.current
      <3>1. NoEnd \notin Ends
        BY WorkflowIs DEF Ends
      <3> QED BY <1>5, <1>6, <1>8, <1>10, <3>1 DEF Waiting, Coherent, CurrentEnd
    <2>6. QueuedEnds(d)
      BY <1>7, <1>10, <2>4, <2>5 DEF Coherent, QueuedEnds
    <2>7. CurrentEnd(d) /\ StreamedNodes(d)
      BY <1>10, <2>4 DEF Coherent, CurrentEnd, StreamedNodes
    <2> QED BY <1>11, <2>3, <2>6, <2>7 DEF Coherent
  <1>13. AllNoticed(d)
    BY <1>6, <1>8, <1>10 DEF AllNoticed
  <1>14. NextEnd(d).ends = ends
    BY <1>10, <1>11, NextEndStays
  <1> QED BY <1>1, <1>2, <1>3, <1>10, <1>12, <1>13, <1>14, NextEndCoherent

\* d is c after it has been told of some scopes.
Informed(c, d) ==
  /\ Coherent(d) /\ AllNoticed(d) /\ d.streamed = c.streamed
  /\ DOMAIN d.ends = DOMAIN c.ends
  /\ \A e \in DOMAIN c.ends : /\ d.ends[e].cursor = c.ends[e].cursor
                              /\ c.ends[e].active => d.ends[e].active
                              /\ c.ends[e].force => d.ends[e].force

\* A coordinator that is told of a scope is informed.
LEMMA UpdateScopeInforms ==
  ASSUME wf \in Workflows, NEW c, Coherent(c), NEW scope, NEW status
  PROVE  Informed(c, UpdateScope(c, scope, status))
  BY UpdateScopeCoherent DEF Informed

\* What an update tells the coordinator: a node that executed, or nothing.
LEMMA ToldCoherent ==
  ASSUME wf \in Workflows, NEW c, Coherent(c), AllNoticed(c), NEW u
  PROVE  /\ Informed(c, Told(c, u))
         /\ \/ Told(c, u) = c
            \/ Told(c, u).current = NoEnd => Told(c, u).queue = <<>>
         /\ IsNode(u) /\ live[u] =>
              /\ Told(c, u).current = NoEnd => Told(c, u).queue = <<>>
              /\ u[1] \in DOMAIN c.ends => Told(c, u).ends[u[1]].force
  <1>1. CASE IsNode(u) /\ live[u]
    <2>1. Told(c, u) = UpdateScope(c, u[1], Status(u[1]))
      BY <1>1 DEF Told
    <2> QED BY <2>1, UpdateScopeCoherent DEF Informed
  <1>2. CASE ~(IsNode(u) /\ live[u])
    BY <1>2 DEF Told, Informed
  <1> QED BY <1>1, <1>2

\* A new coordinator knows all Ends and has found none active.
LEMMA NewCoherent ==
  ASSUME wf \in Workflows
  PROVE  /\ Coherent(NewCoordinator) /\ DOMAIN NewCoordinator.ends = Ends
         /\ NewCoordinator.streamed = {}
         /\ \A e \in Ends : NewCoordinator.ends[e].cursor = 1
  <1> DEFINE c == NewCoordinator
  <1>1. /\ DOMAIN c.ends = Ends /\ c.current = NoEnd /\ c.queue = <<>> /\ c.processed = {}
        /\ c.streamed = {}
        /\ \A e \in Ends : c.ends[e].cursor = 1 /\ c.ends[e].force = FALSE
    BY DEF NewCoordinator, StartOutput
  <1>2. IsCoordinator(c)
    BY NewCoordinatorShaped
  <1> HIDE DEF c
  <1>3. \A e \in Ends : 1 \in 1..Len(wf.template[e])
    <2>1. \A e \in Ends : Len(wf.template[e]) \in Nat \ {0}
      BY WorkflowIs
    <2> QED BY <2>1
  <1>4. KnownEnds(c)
    BY <1>1, <1>3 DEF KnownEnds
  <1>5. QueuedEnds(c)
    <2>1. <<>> \in Seq(Nodes) /\ Len(<<>>) = 0
      OBVIOUS
    <2>2. \A i \in 1..0 : FALSE
      OBVIOUS
    <2>3. Range(<<>>) = {<<>>[i] : i \in 1..0}
      BY <2>1, RangeIs
    <2>4. Range(<<>>) = {} /\ Distinct(<<>>)
      BY <2>1, <2>2, <2>3, Zenon DEF Distinct
    <2> QED BY <1>1, <2>1, <2>4 DEF QueuedEnds
  <1>6. CurrentEnd(c) /\ StreamedNodes(c)
    BY <1>1 DEF CurrentEnd, StreamedNodes
  <1> QED BY <1>1, <1>2, <1>4, <1>5, <1>6 DEF Coherent, c

\* Variables count as streamed: the Ends stay.
LEMMA MarkCoherent ==
  ASSUME NEW c, Coherent(c), NEW marks, \A x \in marks : x[1] # ""
  PROVE  LET d == [c EXCEPT !.streamed = marks]
         IN  /\ Coherent(d) /\ d.ends = c.ends /\ d.current = c.current /\ d.queue = c.queue
             /\ d.processed = c.processed /\ d.streamed = marks
  <1> DEFINE d == [c EXCEPT !.streamed = marks]
  <1>1. IsCoordinator(c)
    BY DEF Coherent
  <1>2. IsCoordinator(d)
    BY <1>1, MarkStays DEF SamePlaces
  <1>3. /\ d.ends = c.ends /\ d.current = c.current /\ d.queue = c.queue
        /\ d.processed = c.processed /\ d.streamed = marks
    BY <1>1, MarkStays
  <1> HIDE DEF d
  <1>4. Coherent(d)
    BY <1>2, <1>3 DEF Coherent, KnownEnds, QueuedEnds, CurrentEnd, StreamedNodes, Waiting
  <1> QED BY <1>3, <1>4 DEF d

\* d is c after the segment under the cursor: the End goes on, or is finished.
Forth(c, d) ==
  /\ d.queue = c.queue /\ d.processed = c.processed
  /\ \/ /\ d.current = c.current /\ DOMAIN d.ends = DOMAIN c.ends
        /\ d.ends[c.current].cursor = c.ends[c.current].cursor + 1
        /\ c.ends[c.current].cursor + 1 <= Len(wf.template[c.current])
     \/ /\ d.current = NoEnd /\ DOMAIN d.ends = DOMAIN c.ends \ {c.current}
        /\ c.ends[c.current].cursor + 1 > Len(wf.template[c.current])
  /\ \A e \in DOMAIN d.ends : /\ d.ends[e].branched = c.ends[e].branched
                              /\ d.ends[e].active = c.ends[e].active
                              /\ d.ends[e].force = c.ends[e].force
                              /\ d.ends[e].heard = c.ends[e].heard
                              /\ e # c.current => d.ends[e] = c.ends[e]

\* The cursor of the current End moves by one, and it is taken out behind its template.
LEMMA AdvanceForth ==
  ASSUME NEW c, IsCoordinator(c), c.current \in DOMAIN c.ends,
         Len(wf.template[c.current]) \in Nat
  PROVE  Forth(c, Advance(c)) /\ Advance(c).streamed = c.streamed
  <1> DEFINE n == c.current
             o == [c.ends[n] EXCEPT !.cursor = c.ends[n].cursor + 1]
             ends == [c.ends EXCEPT ![n] = o]
             d == [c EXCEPT !.ends[c.current].cursor = c.ends[n].cursor + 1]
  <1>1. d = [ends |-> ends, current |-> n, queue |-> c.queue, processed |-> c.processed,
             streamed |-> c.streamed]
    BY DEF IsCoordinator
  <1>2. /\ o.cursor = c.ends[n].cursor + 1 /\ o.active = c.ends[n].active
        /\ o.force = c.ends[n].force /\ o.heard = c.ends[n].heard
        /\ o.branched = c.ends[n].branched
        /\ c.ends[n].cursor \in Nat
    BY DEF IsCoordinator, IsOutput
  <1>3. /\ DOMAIN ends = DOMAIN c.ends /\ ends[n] = o
        /\ \A e \in DOMAIN ends : e # n => ends[e] = c.ends[e]
    BY DEF IsCoordinator
  <1>4. Advance(c) = IF c.ends[n].cursor + 1 > Len(wf.template[n]) THEN PopEnd(d) ELSE d
    BY DEF Advance
  <1> HIDE DEF ends, d, o
  <1>5. CASE c.ends[n].cursor + 1 > Len(wf.template[n])
    <2> DEFINE kept == [e \in DOMAIN ends \ {n} |-> ends[e]]
    <2>0. d.ends = ends /\ d.current = n
      BY <1>1
    <2>1. PopEnd(d) = [ends |-> kept, current |-> NoEnd, queue |-> c.queue,
                       processed |-> c.processed, streamed |-> c.streamed]
      <3>1. PopEnd(d) = [d EXCEPT !.ends = kept, !.current = NoEnd]
        BY <2>0 DEF PopEnd
      <3> HIDE DEF kept
      <3> QED BY <1>1, <3>1
    <2>2. DOMAIN kept = DOMAIN c.ends \ {n} /\ \A e \in DOMAIN kept : kept[e] = c.ends[e]
      BY <1>3
    <2> HIDE DEF kept
    <2> QED BY <1>4, <1>5, <2>1, <2>2 DEF Forth
  <1>6. CASE ~(c.ends[n].cursor + 1 > Len(wf.template[n]))
    <2>1. c.ends[n].cursor + 1 <= Len(wf.template[n])
      BY <1>2, <1>6
    <2> QED BY <1>1, <1>2, <1>3, <1>4, <1>6, <2>1 DEF Forth
  <1> QED BY <1>5, <1>6

\* What is known of the Ends still fits together when the current one goes on.
LEMMA AdvanceCoherent ==
  ASSUME wf \in Workflows, NEW c, Coherent(c), AllNoticed(c), c.current \in DOMAIN c.ends
  PROVE  Coherent(Advance(c)) /\ AllNoticed(Advance(c)) /\ Forth(c, Advance(c))
  <1> DEFINE d == Advance(c)
  <1>1. /\ NoEnd \notin Ends /\ \A e \in Ends : Len(wf.template[e]) \in Nat \ {0}
        /\ DOMAIN c.ends \subseteq Ends
    BY WorkflowIs DEF Ends, Coherent, KnownEnds
  <1>2. Forth(c, d) /\ d.streamed = c.streamed
    BY <1>1, AdvanceForth DEF Coherent
  <1>3. IsCoordinator(d)
    BY AdvanceMoves DEF Coherent, Moved
  <1>4. c.current # NoEnd /\ \A e \in Range(c.queue) : e # c.current
    BY <1>1 DEF Coherent, QueuedEnds
  <1> HIDE DEF d
  <1>5. ASSUME NEW e \in DOMAIN d.ends
        PROVE  /\ e \in DOMAIN c.ends /\ d.ends[e].cursor \in 1..Len(wf.template[e])
               /\ e # c.current => d.ends[e].cursor = c.ends[e].cursor
    <2>1. e \in DOMAIN c.ends /\ c.ends[e].cursor \in 1..Len(wf.template[e])
      BY <1>2 DEF Forth, Coherent, KnownEnds
    <2>2. CASE e # c.current
      BY <1>2, <2>1, <2>2 DEF Forth
    <2>3. CASE e = c.current
      <3>1. /\ d.ends[e].cursor = c.ends[e].cursor + 1
            /\ c.ends[e].cursor + 1 <= Len(wf.template[e])
        BY <1>2, <2>3 DEF Forth
      <3> QED BY <1>1, <2>1, <2>3, <3>1
    <2> QED BY <2>2, <2>3
  <1>6. KnownEnds(d)
    <2>1. DOMAIN d.ends \subseteq Ends /\ d.processed \subseteq Ends
      BY <1>1, <1>2, <1>5 DEF Forth, Coherent, KnownEnds
    <2>2. ASSUME NEW e \in DOMAIN d.ends
          PROVE  /\ d.ends[e].force => d.ends[e].active
                 /\ e \in d.processed => e = d.current \/ e \in Range(d.queue)
      BY <1>2, <1>5 DEF Forth, Coherent, KnownEnds
    <2> QED BY <1>5, <2>1, <2>2 DEF KnownEnds
  <1>7. QueuedEnds(d)
    <2>1. ASSUME NEW e \in Range(c.queue) PROVE Waiting(d, e) /\ e # d.current
      <3>1. Waiting(c, e) /\ e # c.current /\ e # NoEnd
        BY <1>1 DEF Coherent, QueuedEnds, Waiting
      <3> QED BY <1>2, <3>1 DEF Forth, Waiting
    <2> QED BY <1>2, <2>1 DEF Forth, Coherent, QueuedEnds
  <1>8. CurrentEnd(d) /\ StreamedNodes(d)
    BY <1>2, <1>4 DEF Forth, Coherent, CurrentEnd, StreamedNodes, Waiting
  <1>9. AllNoticed(d)
    BY <1>2, <1>5 DEF Forth, AllNoticed
  <1> QED BY <1>2, <1>3, <1>6, <1>7, <1>8, <1>9 DEF Coherent, d

\* The last flush forgets the Ends that are not active; the queue is not touched.
LEMMA FlushCoherent ==
  ASSUME wf \in Workflows, Coherent(coord), AllNoticed(coord), Flush
  PROVE  /\ Coherent(coord') /\ AllNoticed(coord')
         /\ coord'.current = coord.current /\ coord'.queue = coord.queue
         /\ DOMAIN coord'.ends \subseteq DOMAIN coord.ends
         /\ \A e \in DOMAIN coord'.ends : coord'.ends[e].active /\ coord'.ends[e] = coord.ends[e]
         /\ \A e \in DOMAIN coord.ends : coord.ends[e].active => e \in DOMAIN coord'.ends
  <1> DEFINE kept == [e \in {d \in DOMAIN coord.ends : coord.ends[d].active} |-> coord.ends[e]]
  <1>1. /\ DOMAIN kept \subseteq DOMAIN coord.ends /\ kept = [e \in DOMAIN kept |-> kept[e]]
        /\ \A e \in DOMAIN kept : kept[e] = coord.ends[e] /\ coord.ends[e].active
        /\ \A e \in DOMAIN coord.ends : coord.ends[e].active => e \in DOMAIN kept
    OBVIOUS
  <1>2. coord' = [coord EXCEPT !.ends = kept]
    BY DEF Flush
  <1> HIDE DEF kept
  <1>3. IsCoordinator(coord)
    BY DEF Coherent
  <1>4. coord' = [ends |-> kept, current |-> coord.current, queue |-> coord.queue,
                  processed |-> coord.processed, streamed |-> coord.streamed]
    BY <1>2, <1>3 DEF IsCoordinator
  <1>5. /\ coord'.ends = kept /\ coord'.current = coord.current /\ coord'.queue = coord.queue
        /\ coord'.processed = coord.processed /\ coord'.streamed = coord.streamed
    BY <1>4
  <1>6. IsCoordinator(coord')
    BY <1>1, <1>3, <1>4 DEF IsCoordinator
  <1>7. KnownEnds(coord')
    BY <1>1, <1>5 DEF Coherent, KnownEnds
  <1>8. \A e : Waiting(coord, e) => Waiting(coord', e)
    BY <1>1, <1>5 DEF Waiting
  <1>9. QueuedEnds(coord') /\ CurrentEnd(coord') /\ StreamedNodes(coord')
    BY <1>5, <1>8 DEF Coherent, QueuedEnds, CurrentEnd, StreamedNodes
  <1> QED BY <1>1, <1>5, <1>6, <1>7, <1>9 DEF Coherent, AllNoticed

\* Of a coordinator that is rebuilt the Ends that have completed are taken out.
LEMMA RecoveredCoherent ==
  ASSUME wf \in Workflows, Coherent(coord), AllNoticed(coord)
  PROVE  /\ Coherent(Recovered) /\ AllNoticed(Recovered)
         /\ DOMAIN Recovered.ends = DOMAIN coord.ends \ (pool \cap Ends)
         /\ \A e \in DOMAIN Recovered.ends : Recovered.ends[e] = coord.ends[e]
  <1> DEFINE gone == pool \cap Ends
             kept == [e \in DOMAIN coord.ends \ gone |-> coord.ends[e]]
             queue == Keep(coord.queue, Ends \ gone)
             processed == coord.processed \ gone
             current == IF coord.current \in gone THEN NoEnd ELSE coord.current
             marks == {<<n, "output">> : n \in pool \cap Nodes}
             d == [coord EXCEPT
                     !.streamed = {<<n, "output">> : n \in pool \cap Nodes},
                     !.ends = [e \in DOMAIN coord.ends \ gone |-> coord.ends[e]],
                     !.queue = Keep(coord.queue, Ends \ gone),
                     !.processed = coord.processed \ gone,
                     !.current = IF coord.current \in gone THEN NoEnd ELSE coord.current]
  <1>1. Recovered = NextEnd(d)
    BY DEF Recovered
  <1>2. /\ DOMAIN kept = DOMAIN coord.ends \ gone /\ kept = [e \in DOMAIN kept |-> kept[e]]
        /\ \A e \in DOMAIN kept : kept[e] = coord.ends[e]
    OBVIOUS
  <1>3. d = [coord EXCEPT !.streamed = marks, !.ends = kept, !.queue = queue,
                          !.processed = processed, !.current = current]
    OBVIOUS
  <1>4. queue \in Seq(Nodes) /\ Distinct(queue) /\ Range(queue) = Range(coord.queue) \cap (Ends \ gone)
    BY KeepQueue DEF Coherent, QueuedEnds
  <1>5. processed = coord.processed \ gone
    OBVIOUS
  <1>6. current = NoEnd \/ (current = coord.current /\ current \notin gone)
    OBVIOUS
  <1>7. \A e \in DOMAIN kept : e = coord.current => e = current
    BY <1>2
  <1>8. ASSUME NEW x \in marks PROVE x[1] # ""
    <2>1. "" \notin Nodes
      BY WorkflowIs
    <2>2. PICK n \in Nodes : x = <<n, "output">>
      OBVIOUS
    <2>3. x[1] = n
      BY <2>2
    <2> QED BY <2>1, <2>2, <2>3
  <1>9. IsCoordinator(coord)
    BY DEF Coherent
  <1> HIDE DEF kept, queue, processed, current, marks, d, gone
  <1>10. d = [ends |-> kept, current |-> current, queue |-> queue, processed |-> processed,
              streamed |-> marks]
    BY <1>3, <1>9 DEF IsCoordinator
  <1>11. /\ d.ends = kept /\ d.current = current /\ d.queue = queue
         /\ d.processed = processed /\ d.streamed = marks
    BY <1>10
  <1>12. IsCoordinator(d)
    BY <1>2, <1>9, <1>10 DEF IsCoordinator
  <1>13. KnownEnds(d)
    BY <1>2, <1>4, <1>5, <1>7, <1>11 DEF Coherent, KnownEnds
  <1>14. ASSUME NEW e, Waiting(coord, e), e \notin gone PROVE Waiting(d, e)
    BY <1>2, <1>5, <1>11, <1>14 DEF Waiting
  <1>15. QueuedEnds(d)
    <2>1. ASSUME NEW e \in Range(queue) PROVE Waiting(d, e) /\ e # current
      <3>1. e \in Range(coord.queue) /\ e \in Ends /\ e \notin gone
        BY <1>4
      <3>2. Waiting(coord, e) /\ e # coord.current /\ e # NoEnd
        BY <3>1, WorkflowIs DEF Coherent, QueuedEnds, Ends
      <3> QED BY <1>6, <1>14, <3>1, <3>2
    <2> QED BY <1>4, <1>11, <2>1 DEF QueuedEnds
  <1>16. CurrentEnd(d)
    BY <1>6, <1>11, <1>14 DEF Coherent, CurrentEnd
  <1>17. StreamedNodes(d)
    BY <1>8, <1>11 DEF StreamedNodes
  <1>18. Coherent(d)
    BY <1>12, <1>13, <1>15, <1>16, <1>17 DEF Coherent
  <1>19. AllNoticed(d)
    BY <1>2, <1>5, <1>11 DEF AllNoticed
  <1>20. NextEnd(d).ends = kept
    BY <1>11, <1>12, NextEndStays
  <1> QED BY <1>1, <1>2, <1>18, <1>19, <1>20, NextEndCoherent DEF gone

-----------------------------------------------------------------------------
(* Type correctness *)

\* What the parts of a workflow are does not change while it runs.
LEMMA SameWorkflow ==
  ASSUME wf' = wf
  PROVE  /\ Nodes' = Nodes /\ Ends' = Ends /\ Models' = Models /\ Routing' = Routing
         /\ Units' = Units
  <1>1. Nodes' = Nodes
    BY DEF Nodes
  <1>2. Ends' = Ends /\ Models' = Models /\ Routing' = Routing
    BY <1>1 DEF Ends, Models, Routing
  <1>3. Units' = Units
    BY <1>1, <1>2 DEF Units
  <1> QED BY <1>1, <1>2, <1>3

\* The workflow never changes.
LEMMA SameWf == ASSUME [Next]_vars PROVE wf' = wf
  BY DEF Next, Fails, Goes, Step, Chunk, AttemptFails, Finish, Resume, HandleUpdate,
         PassSegment, ChunkToEnd, ChunkDirectly, EmitSegment, TurnToNext, Wait, Flush, Replay,
         PreActivate, graph, vars

\* A unit of the compiled graph belongs to a node.
LEMMA UnitNode == ASSUME NEW u \in Units PROVE u[1] \in Nodes
  <1>1. CASE u \in {<<n, "">> : n \in Nodes}
    <2>1. PICK n \in Nodes : u = <<n, "">>
      BY <1>1
    <2>2. u[1] = n
      BY <2>1
    <2> QED BY <2>2
  <1>2. CASE u \in {<<e.from, e.label>> : e \in {d \in wf.edges : d.from \in Routing}}
    <2>1. PICK e \in wf.edges : e.from \in Routing /\ u = <<e.from, e.label>>
      BY <1>2
    <2> QED BY <2>1 DEF Routing
  <1> QED BY <1>1, <1>2 DEF Units

\* What fits together is told of the workflow that runs.
LEMMA CoherentThen ==
  ASSUME wf' = wf, Coherent(coord') PROVE Coherent(coord)'
  <1>1. Nodes' = Nodes /\ Ends' = Ends
    BY SameWorkflow
  <1>2. KnownEnds(coord)'
    BY <1>1 DEF KnownEnds, Coherent
  <1>3. QueuedEnds(coord)'
    BY <1>1 DEF QueuedEnds, Waiting, Coherent
  <1>4. IsCoordinator(coord)' /\ CurrentEnd(coord)' /\ StreamedNodes(coord)'
    BY DEF IsCoordinator, IsOutput, CurrentEnd, StreamedNodes, Waiting, Coherent
  <1> QED BY <1>2, <1>3, <1>4 DEF Coherent

GraphTyped ==
  /\ at \in [Units -> {"idle", "run", "done"}] /\ live \in [Units -> BOOLEAN]
  /\ tries \in [Models -> 0..MaxAttempts]
  /\ pool \subseteq Nodes \cup {"sys"} /\ abreast \in BOOLEAN /\ stage \in Stages

\* Chunks are those of language models.
EventsTyped == /\ IsSequence(events)
               /\ \A i \in 1..Len(events) : IsChunk(events[i]) => events[i].node \in Models

\* At the last flush only the Ends that are active are known.
FlushesActive == stage = "flush" => \A e \in DOMAIN coord.ends : coord.ends[e].active

TypeInv == /\ wf \in Workflows /\ GraphTyped /\ EventsTyped
           /\ Coherent(coord) /\ AllNoticed(coord) /\ FlushesActive

\* Every step keeps the types of the graph's variables.
LEMMA GraphTypedNext ==
  ASSUME TypeInv, [Next]_vars PROVE GraphTyped'
  <1> DEFINE Same == Units' = Units /\ Models' = Models /\ Nodes' = Nodes
  <1>1. wf' = wf
    BY SameWf
  <1>2. Same
    BY <1>1, SameWorkflow
  <1>3. GraphTyped
    BY DEF TypeInv
  <1> HIDE DEF Same
  <1>4. CASE Step
    <2>1. /\ UNCHANGED <<tries, pool, stage>> /\ abreast' \in BOOLEAN
          /\ \E ready : at' = [u \in Units |-> IF u \in ready THEN "run" ELSE at[u]]
      BY <1>3, <1>4 DEF Step, GraphTyped
    <2>2. live' \in [Units -> BOOLEAN]
      <3> DEFINE ready == {u \in Units : at[u] = "idle" /\ \A p \in Preds(u) : at[p] = "done"}
                 lives(u) == \/ u = <<wf.start, "">>
                             \/ ~IsNode(u) /\ live[<<u[1], "">>] /\ taken[u[1]] = u[2]
                             \/ IsNode(u) /\ \E p \in Preds(u) : live[p]
      <3>1. live' = [u \in Units |-> IF u \in ready THEN lives(u) ELSE live[u]]
        BY <1>4 DEF Step
      <3>2. ASSUME NEW u \in Units PROVE lives(u) \in BOOLEAN /\ live[u] \in BOOLEAN
        BY <1>3, Zenon DEF GraphTyped
      <3> HIDE DEF ready, lives
      <3> QED BY <3>1, <3>2
    <2>3. at' \in [Units -> {"idle", "run", "done"}]
      BY <1>3, <2>1 DEF GraphTyped
    <2> QED BY <1>2, <1>3, <2>1, <2>2, <2>3 DEF GraphTyped, Same
  <1>5. ASSUME NEW n \in Models, Chunk(n) PROVE GraphTyped'
    BY <1>2, <1>3, <1>5 DEF Chunk, GraphTyped, Same
  <1>6. ASSUME NEW n \in Models, AttemptFails(n) PROVE GraphTyped'
    <2>1. tries' = [tries EXCEPT ![n] = tries[n] + 1] /\ tries[n] < MaxAttempts
      BY <1>6 DEF AttemptFails
    <2>2. tries' \in [Models -> 0..MaxAttempts]
      BY <1>3, <2>1, WorkflowAssumption DEF GraphTyped
    <2>3. UNCHANGED <<at, live, pool, abreast, stage>>
      BY <1>6 DEF AttemptFails
    <2> QED BY <1>2, <1>3, <2>2, <2>3 DEF GraphTyped, Same
  <1>7. ASSUME NEW u \in Units, Finish(u) PROVE GraphTyped'
    <2>1. /\ at' = [at EXCEPT ![u] = "done"] /\ (pool' = pool \cup {u[1]} \/ pool' = pool)
          /\ UNCHANGED <<live, tries, abreast, stage>>
      BY <1>7 DEF Finish
    <2>2. u[1] \in Nodes
      BY UnitNode
    <2>3. at' \in [Units -> {"idle", "run", "done"}]
      BY <1>3, <2>1 DEF GraphTyped
    <2> QED BY <1>2, <1>3, <2>1, <2>2, <2>3 DEF GraphTyped, Same
  <1>8. ASSUME UNCHANGED <<at, live, tries, abreast>>, stage' \in Stages,
               pool' = pool \/ \E u \in Units : pool' = pool \cup {u[1]}
        PROVE  GraphTyped'
    <2>1. \A u \in Units : u[1] \in Nodes
      BY UnitNode
    <2> QED BY <1>2, <1>3, <1>8, <2>1 DEF GraphTyped, Same
  <1>9. ASSUME NEW u \in Units, NEW l \in Labels(u[1]), Resume(u, l) PROVE GraphTyped'
    BY <1>8, <1>9 DEF Resume, Stages
  <1>10. CASE HandleUpdate \/ PassSegment \/ ChunkToEnd \/ ChunkDirectly \/ Wait \/ Flush
    BY <1>8, <1>10 DEF HandleUpdate, PassSegment, ChunkToEnd, ChunkDirectly, Wait, Flush, Stages, graph
  <1>11. CASE EmitSegment \/ TurnToNext \/ Replay \/ PreActivate
    <2>1. CASE PreActivate
      BY <1>8, <2>1 DEF PreActivate, Stages
    <2>2. CASE EmitSegment \/ TurnToNext \/ Replay
      BY <1>8, <2>2 DEF EmitSegment, TurnToNext, Replay, Stages, graph
    <2> QED BY <1>11, <2>1, <2>2
  <1>12. CASE UNCHANGED vars
    BY <1>2, <1>3, <1>12 DEF GraphTyped, Same, vars
  <1> QED BY <1>4, <1>5, <1>6, <1>7, <1>9, <1>10, <1>11, <1>12 DEF Next, Fails, Goes

\* Every step keeps the events those of nodes and of language models.
LEMMA EventsTypedNext ==
  ASSUME StreamInv, TypeInv, [Next]_vars PROVE EventsTyped'
  <1>1. wf' = wf
    BY SameWf
  <1>2. Models' = Models
    BY <1>1, SameWorkflow
  <1>3. IsSequence(events) /\ \A i \in 1..Len(events) : IsChunk(events[i]) => events[i].node \in Models
    BY DEF TypeInv, EventsTyped
  <1>4. ASSUME NEW event, IsChunk(event) => event.node \in Models, events' = Append(events, event)
        PROVE  EventsTyped'
    <2>1. /\ IsSequence(events') /\ Len(events) \in Nat /\ Len(events') = Len(events) + 1
          /\ \A i \in 1..Len(events) : events'[i] = events[i]
          /\ events'[Len(events) + 1] = event
      BY <1>3, <1>4, Appended
    <2>2. ASSUME NEW i \in 1..Len(events'), IsChunk(events'[i]) PROVE events'[i].node \in Models
      <3>1. i \in 1..Len(events) \/ i = Len(events) + 1
        BY <2>1
      <3> QED BY <1>3, <1>4, <2>1, <2>2, <3>1
    <2> QED BY <1>2, <2>1, <2>2 DEF EventsTyped
  <1>5. ASSUME events # <<>>, events' = Tail(events) PROVE EventsTyped'
    <2>1. /\ Len(events) \in Nat \ {0} /\ IsSequence(events') /\ Len(events') = Len(events) - 1
          /\ \A i \in 1..Len(events') : events'[i] = events[i + 1]
      BY <1>3, <1>5, Taken
    <2>2. ASSUME NEW i \in 1..Len(events'), IsChunk(events'[i]) PROVE events'[i].node \in Models
      <3>1. i + 1 \in 1..Len(events)
        BY <2>1
      <3> QED BY <1>3, <2>1, <2>2, <3>1
    <2> QED BY <1>2, <2>1, <2>2 DEF EventsTyped
  <1>6. CASE events' = events
    BY <1>2, <1>3, <1>6 DEF EventsTyped
  <1>7. ASSUME NEW n \in Models, Chunk(n) PROVE EventsTyped'
    <2>1. sent[n] + 1 \in 1..Len(Stream(n))
      <3>1. Len(Stream(n)) \in Nat /\ sent[n] \in Nat
        BY StreamNumbered DEF StreamInv, Shaped
      <3>2. sent[n] < Len(Stream(n))
        BY <1>7 DEF Chunk
      <3> QED BY <3>1, <3>2
    <2>2. Stream(n)[sent[n] + 1].node = n /\ events' = Append(events, Stream(n)[sent[n] + 1])
      BY <1>7, <2>1, StreamNumbered DEF TypeInv, Chunk
    <2> QED BY <1>4, <2>2
  <1>8. ASSUME NEW u \in Units, Finish(u) PROVE EventsTyped'
    <2>1. events' = Append(events, [unit |-> u]) /\ ~IsChunk([unit |-> u])
      BY <1>8 DEF Finish, IsChunk
    <2> QED BY <1>4, <2>1
  <1>9. ASSUME NEW u \in Units, NEW l \in Labels(u[1]), Resume(u, l) PROVE EventsTyped'
    <2> DEFINE done == Keep(wf.order, pool)
               update(i) == [unit |-> <<done[i], "">>]
    <2>1. events' = [i \in 1..Len(done) |-> update(i)]
      BY <1>9 DEF Resume
    <2>2. done \in Seq(Nodes)
      BY WorkflowIs, KeepQueue DEF TypeInv
    <2>3. Len(done) \in Nat /\ \A i \in 1..Len(done) : ~IsChunk(update(i))
      BY <2>2 DEF IsChunk
    <2> HIDE DEF done, update
    <2>4. events' \in Seq({update(i) : i \in 1..Len(done)}) /\ Len(events') = Len(done)
      BY <2>1, <2>3
    <2>5. \A i \in 1..Len(events') : ~IsChunk(events'[i])
      BY <2>1, <2>3, <2>4
    <2> QED BY <2>4, <2>5 DEF EventsTyped, IsSequence
  <1>10. CASE HandleUpdate \/ ChunkToEnd \/ ChunkDirectly \/ Replay
    <2>1. events # <<>> /\ (events' = events \/ events' = Tail(events))
      BY <1>10 DEF HandleUpdate, ChunkToEnd, ChunkDirectly, Replay
    <2> QED BY <1>5, <1>6, <2>1
  <1>11. CASE TurnToNext \/ Wait
    <2>1. events' = events \/ (stage = "emit" /\ events' = Tail(events))
      BY <1>11 DEF TurnToNext, Wait
    <2> QED BY <1>5, <1>6, <2>1 DEF StreamInv, Handling
  <1>12. CASE Step \/ (\E n \in Models : AttemptFails(n)) \/ PassSegment \/ EmitSegment \/ Flush
    BY <1>6, <1>12 DEF Step, AttemptFails, PassSegment, EmitSegment, Flush
  <1>13. CASE PreActivate \/ UNCHANGED vars
    BY <1>6, <1>13 DEF PreActivate, vars
  <1> QED BY <1>7, <1>8, <1>9, <1>10, <1>11, <1>12, <1>13 DEF Next, Fails, Goes

\* A chunk marks its variable as streamed, or moves the End that shows it, or neither.
LEMMA ChunkCoherent ==
  ASSUME TypeInv, ChunkToEnd \/ ChunkDirectly
  PROVE  /\ Coherent(coord') /\ AllNoticed(coord')
         /\ \/ coord'.ends = coord.ends /\ coord'.current = coord.current
            \/ /\ coord.current \in DOMAIN coord.ends /\ Forth(coord, coord')
               /\ Segment(coord).node # ""
  <1> DEFINE event == Head(events)
             marks == coord.streamed \cup {<<event.node, event.field>>}
             marked == [coord EXCEPT !.streamed = marks]
  <1>1. wf \in Workflows /\ Coherent(coord) /\ AllNoticed(coord)
    BY DEF TypeInv
  <1>2. /\ events # <<>> /\ IsChunk(event)
        /\ \/ coord' = coord \/ coord' = marked
           \/ /\ coord.current \in DOMAIN coord.ends /\ coord' = Advance(marked)
              /\ Segment(coord).node = event.node
    <2>1. [coord EXCEPT !.streamed = @ \cup {<<event.node, event.field>>}] = marked
      BY <1>1 DEF Coherent, IsCoordinator
    <2> HIDE DEF marked
    <2>2. CASE ChunkToEnd
      BY <2>1, <2>2 DEF ChunkToEnd, Listening
    <2>3. CASE ChunkDirectly
      BY <2>1, <2>3 DEF ChunkDirectly
    <2> QED BY <2>2, <2>3
  <1>3. event.node # ""
    <2>1. 1 \in 1..Len(events) /\ event = events[1]
      <3>1. Len(events) \in Nat \ {0} /\ event = events[1]
        BY <1>2, Taken DEF TypeInv, EventsTyped
      <3> QED BY <3>1
    <2>2. event.node \in Models /\ "" \notin Nodes
      BY <1>1, <1>2, <2>1, WorkflowIs DEF TypeInv, EventsTyped
    <2> QED BY <2>2 DEF Models
  <1>4. ASSUME NEW x \in marks PROVE x[1] # ""
    <2>1. x \in coord.streamed \/ x = <<event.node, event.field>>
      OBVIOUS
    <2>2. \A y \in coord.streamed : y[1] # ""
      BY <1>1 DEF Coherent, StreamedNodes
    <2>3. <<event.node, event.field>>[1] = event.node
      OBVIOUS
    <2> HIDE DEF event
    <2>4. CASE x = <<event.node, event.field>>
      BY <1>3, <2>3, <2>4, Zenon
    <2> QED BY <2>1, <2>2, <2>4
  <1> HIDE DEF marks, event
  <1>5. /\ Coherent(marked) /\ marked.ends = coord.ends /\ marked.current = coord.current
        /\ marked.processed = coord.processed /\ marked.queue = coord.queue
    BY <1>1, <1>4, MarkCoherent
  <1> HIDE DEF marked
  <1>6. AllNoticed(marked)
    BY <1>1, <1>5 DEF AllNoticed
  <1>7. coord' = Advance(marked) /\ coord.current \in DOMAIN coord.ends
          => Coherent(coord') /\ AllNoticed(coord') /\ Forth(coord, coord')
    BY <1>1, <1>5, <1>6, AdvanceCoherent DEF Forth
  <1> QED BY <1>1, <1>2, <1>3, <1>5, <1>6, <1>7

\* At the last flush all Ends that are left queue: no other is turned to.
LEMMA FlushTurns ==
  ASSUME TypeInv, TurnToNext, stage = "flush"
  PROVE  /\ coord' = NextEnd(coord) /\ coord'.ends = coord.ends
         /\ coord'.current = NoEnd => DOMAIN coord.ends = {}
  <1> DEFINE rest == Keep(EndOrder, DOMAIN coord.ends)
  <1>1. /\ wf \in Workflows /\ Coherent(coord) /\ AllNoticed(coord)
        /\ \A e \in DOMAIN coord.ends : coord.ends[e].active
    BY DEF TypeInv, FlushesActive
  <1>2. /\ Coherent(NextEnd(coord)) /\ AllNoticed(NextEnd(coord))
        /\ NextEnd(coord).current = NoEnd => NextEnd(coord).queue = <<>>
        /\ NextEnd(coord).ends = coord.ends
    BY <1>1, NextEndCoherent, NextEndStays DEF Coherent
  <1>3. NextEnd(coord).current = NoEnd => DOMAIN coord.ends = {}
    <2> SUFFICES ASSUME NextEnd(coord).current = NoEnd, NEW e \in DOMAIN coord.ends PROVE FALSE
      OBVIOUS
    <2>1. /\ e \in DOMAIN NextEnd(coord).ends /\ NextEnd(coord).ends[e].active
          /\ NextEnd(coord).queue = <<>>
      BY <1>1, <1>2
    <2>2. e # NoEnd
      BY <1>1, WorkflowIs DEF Coherent, KnownEnds, Ends
    <2>3. e \in Range(<<>>)
      BY <1>2, <2>1, <2>2 DEF Coherent, KnownEnds, AllNoticed
    <2> QED BY <2>3 DEF Range
  <1>4. DOMAIN coord.ends = {} => rest = <<>>
    <2>1. rest \in Seq(Nodes) /\ Range(rest) = Range(EndOrder) \cap DOMAIN coord.ends
      BY <1>1, EndOrderIs, KeepQueue
    <2> HIDE DEF rest
    <2>2. rest # <<>> => rest[1] \in Range(rest)
      BY <2>1 DEF Range
    <2> QED BY <2>1, <2>2
  <1>5. coord' = IF NextEnd(coord).current = NoEnd /\ rest # <<>>
                 THEN [coord EXCEPT !.current = Head(rest)] ELSE NextEnd(coord)
    BY DEF TurnToNext
  <1> QED BY <1>2, <1>3, <1>4, <1>5

\* Every step keeps what the coordinator knows together.
LEMMA CoherentNext ==
  ASSUME StreamInv, TypeInv, [Next]_vars
  PROVE  Coherent(coord)' /\ AllNoticed(coord)' /\ FlushesActive'
  <1>1. wf' = wf
    BY SameWf
  <1>2. /\ wf \in Workflows /\ Coherent(coord) /\ AllNoticed(coord)
        /\ stage = "flush" => \A e \in DOMAIN coord.ends : coord.ends[e].active
    BY DEF TypeInv, FlushesActive
  <1>3. ASSUME Coherent(coord'), AllNoticed(coord'),
               stage' = "flush" => \A e \in DOMAIN coord'.ends : coord'.ends[e].active
        PROVE  Coherent(coord)' /\ AllNoticed(coord)' /\ FlushesActive'
    BY <1>1, <1>3, CoherentThen DEF AllNoticed, FlushesActive
  <1>4. CASE UNCHANGED <<coord, stage>>
    BY <1>2, <1>3, <1>4
  <1>5. CASE \/ Step \/ (\E n \in Models : Chunk(n) \/ AttemptFails(n))
             \/ (\E u \in Units : Finish(u)) \/ UNCHANGED vars
    BY <1>4, <1>5 DEF Step, Chunk, AttemptFails, Finish, vars
  <1>6. ASSUME NEW u \in Units, NEW l \in Labels(u[1]), Resume(u, l)
        PROVE  Coherent(coord)' /\ AllNoticed(coord)' /\ FlushesActive'
    <2>1. coord' = UpdateScope(NewCoordinator, "sys", "") /\ stage' = "replay"
      BY <1>6 DEF Resume
    <2>2. Coherent(coord') /\ AllNoticed(coord')
      BY <1>2, <2>1, NewCoherent, UpdateScopeCoherent
    <2> QED BY <1>3, <2>1, <2>2
  <1>7. CASE HandleUpdate \/ Replay
    <2>1. coord' = Told(coord, Head(events).unit) /\ stage' # "flush"
      BY <1>7 DEF HandleUpdate, Replay
    <2>2. Coherent(coord') /\ AllNoticed(coord')
      BY <1>2, <2>1, ToldCoherent DEF Informed
    <2> QED BY <1>3, <2>1, <2>2
  <1>8. CASE PassSegment \/ EmitSegment
    <2>1. coord' = Advance(coord) /\ stage' = stage /\ coord.current \in DOMAIN coord.ends
      BY <1>8 DEF PassSegment, EmitSegment, Listening
    <2>2. Coherent(coord') /\ AllNoticed(coord') /\ Forth(coord, coord')
      BY <1>2, <2>1, AdvanceCoherent
    <2>3. \A e \in DOMAIN coord'.ends : e \in DOMAIN coord.ends /\ coord'.ends[e].active = coord.ends[e].active
      BY <2>2 DEF Forth
    <2> QED BY <1>2, <1>3, <2>1, <2>2, <2>3
  <1>9. CASE ChunkToEnd \/ ChunkDirectly
    <2>1. stage' # "flush"
      BY <1>9 DEF ChunkToEnd, ChunkDirectly
    <2> QED BY <1>3, <1>9, <2>1, ChunkCoherent DEF TypeInv
  <1>10. CASE TurnToNext /\ stage = "emit"
    <2>1. coord' = Told(coord, Head(events).unit) /\ stage' # "flush"
      BY <1>10 DEF TurnToNext
    <2>2. Coherent(coord') /\ AllNoticed(coord')
      BY <1>2, <2>1, ToldCoherent DEF Informed
    <2> QED BY <1>3, <2>1, <2>2
  <1>11. CASE TurnToNext /\ stage = "flush"
    <2>1. coord' = NextEnd(coord)
      BY <1>11, FlushTurns
    <2>2. Coherent(coord') /\ AllNoticed(coord') /\ coord'.ends = coord.ends
      BY <1>2, <2>1, NextEndCoherent, NextEndStays DEF Coherent
    <2> QED BY <1>2, <1>3, <1>11, <2>2
  <1>12. TurnToNext => stage \in {"emit", "flush"}
    BY DEF TurnToNext
  <1>13. CASE Wait
    BY <1>2, <1>3, <1>13 DEF Wait
  <1>14. CASE Flush
    BY <1>2, <1>3, <1>14, FlushCoherent
  <1>15. CASE PreActivate
    <2>1. /\ \E scope, status : coord' = UpdateScope(Recovered, scope, status)
          /\ stage' = "resume"
      BY <1>15 DEF PreActivate
    <2>2. Coherent(coord') /\ AllNoticed(coord')
      BY <1>2, <2>1, RecoveredCoherent, UpdateScopeCoherent
    <2> QED BY <1>3, <2>1, <2>2
  <1> QED BY <1>5, <1>6, <1>7, <1>8, <1>9, <1>10, <1>11, <1>12, <1>13, <1>14,
             <1>15 DEF Next, Fails, Goes

\* At the start the coordinator is new and has heard of the system variables.
LEMMA TypeInvInit == Init => TypeInv
  <1> SUFFICES ASSUME Init PROVE TypeInv
    OBVIOUS
  <1>1. wf \in Workflows /\ coord = UpdateScope(NewCoordinator, "sys", "") /\ stage = "idle"
    BY DEF Init
  <1>2. Coherent(coord) /\ AllNoticed(coord)
    BY <1>1, NewCoherent, UpdateScopeCoherent
  <1>3. at \in [Units -> {"idle", "run", "done"}] /\ live \in [Units -> BOOLEAN]
    BY DEF Init
  <1>4. tries \in [Models -> 0..MaxAttempts]
    <2>1. tries = [n \in Models |-> 0]
      BY DEF Init
    <2>2. 0 \in 0..MaxAttempts
      BY WorkflowAssumption
    <2> QED BY <2>1, <2>2
  <1>5. pool \subseteq Nodes \cup {"sys"} /\ abreast \in BOOLEAN /\ stage \in Stages
    BY DEF Init, Stages
  <1>6. EventsTyped
    <2>1. <<>> \in Seq({}) /\ Len(<<>>) = 0
      OBVIOUS
    <2>2. \A i \in 1..0 : FALSE
      OBVIOUS
    <2>3. events = <<>>
      BY DEF Init
    <2> QED BY <2>1, <2>2, <2>3 DEF EventsTyped, IsSequence
  <1> QED BY <1>1, <1>2, <1>3, <1>4, <1>5, <1>6 DEF TypeInv, GraphTyped, FlushesActive

\* Every step keeps the types.
LEMMA TypeInvNext == ASSUME StreamInv, TypeInv, [Next]_vars PROVE TypeInv'
  <1>1. wf' = wf
    BY SameWf
  <1>2. (wf \in Workflows)'
    BY <1>1 DEF TypeInv
  <1> QED BY <1>2, GraphTypedNext, EventsTypedNext, CoherentNext DEF TypeInv

\* Whatever the workflow, the coordinator's view of the Ends fits together: the
\* current End and those that queue are known, active and in one place only, and a
\* cursor stands on a segment of its template (stream_output_coordinator.py:182-331).
THEOREM StreamTypeCorrect == Spec => []TypeOK
  <1>1. Init => StreamInv /\ TypeInv
    BY StreamInvInit, TypeInvInit
  <1>2. StreamInv /\ TypeInv /\ [Next]_vars => (StreamInv /\ TypeInv)'
    BY StreamInvNext, TypeInvNext
  <1>3. StreamInv /\ TypeInv => TypeOK
    BY DEF StreamInv, Shaped, TypeInv, GraphTyped, Coherent, KnownEnds, QueuedEnds,
           CurrentEnd, Waiting, TypeOK
  <1> QED BY <1>1, <1>2, <1>3, PTL DEF Spec

-----------------------------------------------------------------------------
(* Literals: what is still to be told to the coordinator *)

Unit(n) == <<n, "">>
Update(u) == [unit |-> u]
InEvents(u) == \E i \in 1..Len(events) : events[i] = Update(u)
Executes(u) == IsNode(u) /\ live[u]

\* The stream has not been interrupted so far.
First == cut = -1 /\ stage # "replay"

\* A node that executes has not completed, or the consumer has not heard of it.
Awaited == \E u \in Units : Executes(u) /\ (at[u] # "done" \/ InEvents(u))
\* The current End waits for a variable.
Held == coord.current # NoEnd /\ ~Ready(coord)

\* Before it runs only the start is known to execute.
LiveStarted == \A u \in Units : at[u] = "idle" /\ live[u] => u = Unit(wf.start)

\* The node of a chunk executes, and its update comes after the chunk.
From(i, n) == /\ n \in Models /\ live[Unit(n)]
              /\ \/ at[Unit(n)] = "run"
                 \/ \E l \in (i + 1)..Len(events) : events[l] = Update(Unit(n))
ChunkOrigin ==
  stage # "replay" =>
    \A i \in 1..Len(events) : IsChunk(events[i]) => From(i, events[i].node)

\* An End that has executed is finished, or forced, or its update is still to come;
\* the update that is being handled has been heard.
Heard(e) == e \in DOMAIN coord.ends => coord.ends[e].force
DoneHeard ==
  stage # "replay" =>
    \A e \in Ends : at[Unit(e)] = "done" /\ live[Unit(e)] => Heard(e) \/ InEvents(Unit(e))
EmitHeard ==
  stage = "emit" => ~IsChunk(Head(events)) /\ (Executes(Head(events).unit) => Heard(Head(events).unit[1]))

\* While the consumer is idle no End queues, unless the current one waits or more
\* is to come; and so it will be after the update that is being handled.
Settled == stage = "idle" => Awaited \/ Held \/ (coord.current = NoEnd /\ coord.queue = <<>>)
Settling == stage = "emit" => Executes(Head(events).unit) \/ Awaited \/ Held

\* A stream that is taken up again has been interrupted, by a node that is awaited.
Resumed == stage = "resume" => cut # -1 /\ Awaited

\* A node that interrupts does not finish before that, and one that has executed is in
\* the pool, from which the coordinator is rebuilt.
Open == \A u \in Units : Interrupting(u) => at[u] # "done"
PoolDone == \A n \in Nodes : at[Unit(n)] = "done" /\ live[Unit(n)] => n \in pool

Pending == /\ LiveStarted /\ ChunkOrigin /\ DoneHeard /\ EmitHeard /\ Settled /\ Settling
           /\ Resumed /\ Open /\ PoolDone

\* A step of the graph that leaves what executes as it is.
Works == (\E n \in Models : Chunk(n) \/ AttemptFails(n)) \/ (\E u \in Units : Finish(u))

LEMMA WorksIs ==
  ASSUME TypeInv, Works
  PROVE  /\ UNCHANGED <<wf, live, coord, stage, shown, cut>>
         /\ events' = events \/ \E event : events' = Append(events, event)
         /\ \A u \in Units : \/ at'[u] = at[u]
                             \/ at[u] = "run" /\ at'[u] = "done" /\ events' = Append(events, Update(u))
  <1>1. CASE \E n \in Models : Chunk(n) \/ AttemptFails(n)
    BY <1>1 DEF Chunk, AttemptFails
  <1>2. ASSUME NEW v \in Units, Finish(v)
        PROVE  /\ UNCHANGED <<wf, live, coord, stage, shown, cut>>
               /\ events' = Append(events, Update(v))
               /\ at[v] = "run" /\ at' = [at EXCEPT ![v] = "done"]
    BY <1>2 DEF Finish, Update
  <1>3. at \in [Units -> {"idle", "run", "done"}]
    BY DEF TypeInv, GraphTyped
  <1> QED BY <1>1, <1>2, <1>3 DEF Works

\* An event more: those that were there are still there.
LEMMA EventsMore ==
  ASSUME IsSequence(events), NEW event, events' = Append(events, event)
  PROVE  /\ \A u : InEvents(u) => InEvents(u)'
         /\ \A u : event = Update(u) => InEvents(u)'
         /\ events # <<>> => Head(events') = Head(events)
  <1>1. /\ Len(events) \in Nat /\ Len(events') = Len(events) + 1
        /\ \A i \in 1..Len(events) : events'[i] = events[i]
        /\ events'[Len(events) + 1] = event /\ IsSequence(events')
    BY Appended
  <1>2. /\ \A i \in 1..Len(events) : i \in 1..Len(events')
        /\ Len(events) + 1 \in 1..Len(events')
    BY <1>1
  <1>3. ASSUME events # <<>> PROVE Head(events') = Head(events)
    <2>1. Len(events) \in Nat \ {0} /\ Head(events) = events[1]
      BY <1>3, Taken
    <2>2. events' # <<>>
      BY <1>1
    <2>3. Head(events') = events'[1]
      BY <1>1, <2>2, Taken
    <2> QED BY <1>1, <2>1, <2>3
  <1> QED BY <1>1, <1>2, <1>3 DEF InEvents

\* An event less: it is the first one, or still there.
LEMMA EventsRest ==
  ASSUME IsSequence(events), events # <<>>, events' = Tail(events)
  PROVE  \A u : InEvents(u) => Head(events) = Update(u) \/ InEvents(u)'
  <1>1. /\ Len(events) \in Nat \ {0} /\ Len(events') = Len(events) - 1 /\ Head(events) = events[1]
        /\ \A i \in 1..Len(events') : events'[i] = events[i + 1]
    BY Taken
  <1>2. ASSUME NEW i \in 1..Len(events), i # 1
        PROVE  i - 1 \in 1..Len(events') /\ events'[i - 1] = events[i]
    <2>1. i - 1 \in 1..Len(events') /\ (i - 1) + 1 = i
      BY <1>1, <1>2
    <2> QED BY <1>1, <2>1
  <1> QED BY <1>1, <1>2 DEF InEvents

\* What is awaited stays so while the graph works.
LEMMA AwaitedWorks ==
  ASSUME TypeInv, Works, Awaited
  PROVE  Awaited'
  <1>1. PICK u \in Units : Executes(u) /\ (at[u] # "done" \/ InEvents(u))
    BY DEF Awaited
  <1>2. Units' = Units /\ Executes(u)'
    BY <1>1, WorksIs, SameWorkflow DEF Executes, IsNode
  <1>3. InEvents(u) => InEvents(u)'
    BY WorksIs, EventsMore DEF TypeInv, EventsTyped, InEvents
  <1>4. at'[u] = at[u] \/ InEvents(u)'
    BY WorksIs, EventsMore DEF TypeInv, EventsTyped
  <1> QED BY <1>1, <1>2, <1>3, <1>4 DEF Awaited

\* What is awaited stays so when the event that is taken is not that of a node that
\* executes.
LEMMA AwaitedRest ==
  ASSUME IsSequence(events), UNCHANGED graph, events # <<>>, events' = Tail(events), Awaited,
         ~Executes(Head(events).unit)
  PROVE  Awaited'
  <1>1. PICK u \in Units : Executes(u) /\ (at[u] # "done" \/ InEvents(u))
    BY DEF Awaited
  <1>2. Units' = Units /\ Executes(u)' /\ at' = at
    BY <1>1, SameWorkflow DEF graph, Executes, IsNode
  <1>3. Head(events) # Update(u)
    BY <1>1 DEF Update
  <1>4. InEvents(u) => InEvents(u)'
    BY <1>3, EventsRest
  <1> QED BY <1>1, <1>2, <1>4 DEF Awaited

\* The node of a chunk is awaited, after the chunk, too.
LEMMA AwaitedChunk ==
  ASSUME IsSequence(events), UNCHANGED graph, events # <<>>, IsChunk(Head(events)), ChunkOrigin,
         stage # "replay", events' = events \/ events' = Tail(events)
  PROVE  Awaited'
  <1>1. /\ Len(events) \in Nat \ {0} /\ Head(events) = events[1] /\ 1 \in 1..Len(events)
        /\ events' = Tail(events) => Len(events') = Len(events) - 1
        /\ events' = Tail(events) => \A i \in 1..Len(events') : events'[i] = events[i + 1]
    <2>1. Len(events) \in Nat \ {0}
      BY Taken
    <2> QED BY <2>1, Taken
  <1>2. PICK n \in Models :
          /\ live[Unit(n)]
          /\ \/ at[Unit(n)] = "run"
             \/ \E l \in 2..Len(events) : events[l] = Update(Unit(n))
    <2>1. From(1, events[1].node)
      BY <1>1 DEF ChunkOrigin
    <2> QED BY <2>1 DEF From
  <1>3. Unit(n) \in Units /\ IsNode(Unit(n))
    BY <1>2 DEF Units, Unit, Models, IsNode
  <1>4. Units' = Units /\ Executes(Unit(n))' /\ at' = at
    BY <1>2, <1>3, SameWorkflow DEF graph, Executes
  <1>5. (\E l \in 2..Len(events) : events[l] = Update(Unit(n))) => InEvents(Unit(n))'
    <2> SUFFICES ASSUME NEW l \in 2..Len(events), events[l] = Update(Unit(n))
                 PROVE  InEvents(Unit(n))'
      OBVIOUS
    <2>1. CASE events' = events
      <3>1. l \in 1..Len(events)
        BY <1>1
      <3> QED BY <2>1, <3>1 DEF InEvents
    <2>2. CASE events' = Tail(events)
      <3>1. l - 1 \in 1..Len(events') /\ (l - 1) + 1 = l
        BY <1>1, <2>2
      <3>2. events'[l - 1] = events[l]
        BY <1>1, <2>2, <3>1
      <3> QED BY <3>1, <3>2 DEF InEvents
    <2> QED BY <2>1, <2>2
  <1> QED BY <1>2, <1>3, <1>4, <1>5 DEF Awaited

\* No End comes back, and none that is forced is so no more.
KeepsForced(c, d) == /\ DOMAIN d.ends \subseteq DOMAIN c.ends
                     /\ \A e \in DOMAIN d.ends : c.ends[e].force => d.ends[e].force

\* The coordinator is only rebuilt when an interrupted stream is taken up.
LEMMA HeardStep ==
  ASSUME StreamInv, TypeInv, [Next]_vars, stage' # "replay", ~PreActivate
  PROVE  stage # "replay" /\ cut' = cut /\ KeepsForced(coord, coord')
  <1>1. /\ wf \in Workflows /\ Coherent(coord) /\ AllNoticed(coord)
    BY DEF TypeInv
  <1>2. CASE coord'.ends = coord.ends /\ UNCHANGED <<stage, cut>>
    BY <1>2 DEF KeepsForced
  <1>3. CASE Works \/ Step \/ UNCHANGED vars
    BY <1>2, <1>3, WorksIs DEF Step, vars
  <1>4. \A u \in Units : \A l \in Labels(u[1]) : ~Resume(u, l)
    BY DEF Resume
  <1>6. ~Replay
    BY DEF Replay
  <1>7. CASE HandleUpdate
    <2>1. /\ coord' = Told(coord, Head(events).unit) /\ stage = "idle" /\ cut' = cut
      BY <1>7 DEF HandleUpdate
    <2>2. Informed(coord, coord')
      BY <1>1, <2>1, ToldCoherent
    <2> QED BY <2>1, <2>2 DEF Informed, KeepsForced
  <1>8. CASE PassSegment \/ EmitSegment
    <2>1. /\ coord' = Advance(coord) /\ stage' = stage /\ cut' = cut
          /\ coord.current \in DOMAIN coord.ends
      BY <1>8 DEF PassSegment, EmitSegment, Listening
    <2>2. Forth(coord, coord')
      BY <1>1, <2>1, AdvanceCoherent
    <2> QED BY <2>1, <2>2 DEF Forth, KeepsForced
  <1>9. CASE ChunkToEnd \/ ChunkDirectly
    <2>1. UNCHANGED <<stage, cut>>
      BY <1>9 DEF ChunkToEnd, ChunkDirectly
    <2>2. CASE Forth(coord, coord')
      BY <2>1, <2>2 DEF Forth, KeepsForced
    <2> QED BY <1>2, <1>9, <2>1, <2>2, ChunkCoherent
  <1>10. CASE TurnToNext
    <2>1. stage \in {"emit", "flush"} /\ cut' = cut
      BY <1>10 DEF TurnToNext
    <2>2. CASE stage = "emit"
      <3>1. coord' = Told(coord, Head(events).unit)
        BY <1>10, <2>2 DEF TurnToNext
      <3>2. Informed(coord, coord')
        BY <1>1, <3>1, ToldCoherent
      <3> QED BY <2>1, <2>2, <3>2 DEF Informed, KeepsForced
    <2>3. CASE stage = "flush"
      BY <1>10, <2>1, <2>3, FlushTurns DEF KeepsForced
    <2> QED BY <2>1, <2>2, <2>3
  <1>11. CASE Wait
    BY <1>11 DEF Wait, KeepsForced
  <1>12. CASE Flush
    <2>1. stage = "idle" /\ cut' = cut
      BY <1>12 DEF Flush
    <2>2. /\ DOMAIN coord'.ends \subseteq DOMAIN coord.ends
          /\ \A e \in DOMAIN coord'.ends : coord'.ends[e] = coord.ends[e]
      BY <1>1, <1>12, FlushCoherent
    <2> QED BY <2>1, <2>2 DEF KeepsForced
  <1> QED BY <1>3, <1>4, <1>6, <1>7, <1>8, <1>9, <1>10, <1>11, <1>12
          DEF Next, Fails, Goes, Works

\* Up to an interruption the coordinator is never rebuilt.
LEMMA FirstStep ==
  ASSUME StreamInv, TypeInv, [Next]_vars, First'
  PROVE  First /\ KeepsForced(coord, coord')
  <1>1. ~PreActivate
    <2>1. Len(shown) \in Nat
      BY Appended DEF StreamInv, Shaped
    <2>2. PreActivate => cut' = Len(shown)
      BY DEF PreActivate
    <2> QED BY <2>1, <2>2 DEF First
  <1> QED BY <1>1, HeardStep DEF First

\* The consumer takes no part in the graph until it takes up an interrupted stream.
LEMMA ConsumerIs ==
  ASSUME HandleUpdate \/ PassSegment \/ ChunkToEnd \/ ChunkDirectly \/ EmitSegment
           \/ TurnToNext \/ Wait \/ Flush \/ Replay
  PROVE  UNCHANGED graph
  BY DEF HandleUpdate, PassSegment, ChunkToEnd, ChunkDirectly, EmitSegment, TurnToNext, Wait,
         Flush, Replay

\* Before it runs, no node but the start gets to know that it executes.
LEMMA StartedNext ==
  ASSUME TypeInv, LiveStarted, [Next]_vars PROVE LiveStarted'
  <1>1. CASE UNCHANGED <<wf, at, live>>
    <2>1. Units' = Units
      BY <1>1, SameWorkflow
    <2> QED BY <1>1, <2>1 DEF LiveStarted
  <1>2. CASE Works
    <2>1. Units' = Units /\ UNCHANGED <<wf, live>>
      BY <1>2, WorksIs, SameWorkflow
    <2>2. \A u \in Units : at'[u] = "idle" => at[u] = "idle"
      BY <1>2, WorksIs
    <2> QED BY <2>1, <2>2 DEF LiveStarted
  <1>3. CASE Step
    <2> DEFINE ready == {u \in Units : at[u] = "idle" /\ \A p \in Preds(u) : at[p] = "done"}
               lives(u) == \/ u = <<wf.start, "">>
                           \/ ~IsNode(u) /\ live[<<u[1], "">>] /\ taken[u[1]] = u[2]
                           \/ IsNode(u) /\ \E p \in Preds(u) : live[p]
    <2>1. /\ at' = [u \in Units |-> IF u \in ready THEN "run" ELSE at[u]]
          /\ live' = [u \in Units |-> IF u \in ready THEN lives(u) ELSE live[u]]
          /\ wf' = wf
      BY <1>3 DEF Step
    <2> HIDE DEF ready, lives
    <2>2. \A u \in Units : at'[u] = "idle" => at[u] = "idle" /\ live'[u] = live[u]
      BY <2>1
    <2>3. Units' = Units
      BY <2>1, SameWorkflow
    <2> QED BY <2>1, <2>2, <2>3 DEF LiveStarted
  <1>4. CASE \/ HandleUpdate \/ PassSegment \/ ChunkToEnd \/ ChunkDirectly \/ EmitSegment
             \/ TurnToNext \/ Wait \/ Flush \/ Replay
    BY <1>1, <1>4, ConsumerIs DEF graph
  <1>5. CASE (\E u \in Units : \E l \in Labels(u[1]) : Resume(u, l)) \/ PreActivate \/ UNCHANGED vars
    BY <1>1, <1>5 DEF Resume, PreActivate, vars
  <1> QED BY <1>2, <1>3, <1>4, <1>5 DEF Next, Fails, Goes, Works

\* A node completes only behind its chunks.
LEMMA OriginNext ==
  ASSUME StreamInv, TypeInv, ChunkOrigin, [Next]_vars PROVE ChunkOrigin'
  <1> SUFFICES ASSUME stage' # "replay" PROVE ChunkOrigin'
    BY DEF ChunkOrigin
  <1>1. IsSequence(events)
    BY DEF TypeInv, EventsTyped
  <1>2. stage # "replay" => \A i \in 1..Len(events) : IsChunk(events[i]) => From(i, events[i].node)
    BY DEF ChunkOrigin
  <1>3. CASE UNCHANGED <<wf, at, live, events>> /\ stage # "replay"
    <2>1. Models' = Models
      BY <1>3, SameWorkflow
    <2> QED BY <1>3, <2>1 DEF ChunkOrigin, From
  <1>4. CASE UNCHANGED graph /\ stage # "replay" /\ events # <<>> /\ events' = Tail(events)
    <2>1. /\ Len(events) \in Nat \ {0} /\ Len(events') = Len(events) - 1
          /\ \A i \in 1..Len(events') : events'[i] = events[i + 1]
      BY <1>1, <1>4, Taken
    <2>2. Models' = Models /\ UNCHANGED <<at, live>>
      BY <1>4, SameWorkflow DEF graph
    <2>3. ASSUME NEW i \in 1..Len(events'), NEW n, n = events'[i].node, IsChunk(events'[i])
          PROVE  From(i, n)'
      <3>2. i + 1 \in 1..Len(events) /\ events'[i] = events[i + 1]
        BY <2>1
      <3>3. /\ n \in Models /\ live[Unit(n)]
            /\ \/ at[Unit(n)] = "run"
               \/ \E l \in (i + 2)..Len(events) : events[l] = Update(Unit(n))
        <4>1. (i + 1) + 1 = i + 2
          BY <2>1
        <4> QED BY <1>2, <1>4, <2>3, <3>2, <4>1 DEF From
      <3>4. ASSUME NEW l \in (i + 2)..Len(events), events[l] = Update(Unit(n))
            PROVE  \E m \in (i + 1)..Len(events') : events'[m] = Update(Unit(n))
        <4>1. l - 1 \in (i + 1)..Len(events') /\ l - 1 \in 1..Len(events') /\ (l - 1) + 1 = l
          BY <2>1
        <4> QED BY <2>1, <3>4, <4>1
      <3> QED BY <2>2, <3>3, <3>4 DEF From
    <2> QED BY <2>3 DEF ChunkOrigin
  <1>5. ASSUME Works, NEW event, events' = Append(events, event),
               IsChunk(event) => event.node \in Models /\ live[Unit(event.node)]
                                   /\ at'[Unit(event.node)] = "run"
        PROVE  ChunkOrigin'
    <2>1. /\ Len(events) \in Nat /\ Len(events') = Len(events) + 1
          /\ \A i \in 1..Len(events) : events'[i] = events[i]
          /\ events'[Len(events) + 1] = event
      BY <1>1, <1>5, Appended
    <2>2. Models' = Models /\ live' = live /\ stage' = stage
      BY <1>5, WorksIs, SameWorkflow
    <2>3. ASSUME NEW i \in 1..Len(events'), NEW n, n = events'[i].node, IsChunk(events'[i])
          PROVE  From(i, n)'
      <3>2. CASE i = Len(events) + 1
        BY <1>5, <2>1, <2>2, <2>3, <3>2 DEF From
      <3>3. CASE i \in 1..Len(events)
        <4>1. /\ n \in Models /\ live[Unit(n)]
              /\ \/ at[Unit(n)] = "run"
                 \/ \E l \in (i + 1)..Len(events) : events[l] = Update(Unit(n))
          BY <1>2, <2>1, <2>2, <2>3, <3>3 DEF From
        <4>2. Unit(n) \in Units
          BY <4>1 DEF Units, Unit, Models
        <4>3. at'[Unit(n)] = at[Unit(n)] \/ event = Update(Unit(n))
          <5>1. CASE events' = Append(events, Update(Unit(n)))
            <6>1. events'[Len(events) + 1] = Update(Unit(n))
              BY <1>1, <5>1, Appended
            <6> QED BY <2>1, <6>1
          <5> QED BY <1>5, <4>2, <5>1, WorksIs
        <4>4. Len(events) + 1 \in (i + 1)..Len(events')
          BY <2>1, <3>3
        <4>5. \A l \in (i + 1)..Len(events) : l \in (i + 1)..Len(events') /\ l \in 1..Len(events)
          BY <2>1, <3>3
        <4> QED BY <2>1, <2>2, <4>1, <4>3, <4>4, <4>5 DEF From
      <3> QED BY <2>1, <3>2, <3>3
    <2> QED BY <2>3 DEF ChunkOrigin
  <1>6. ASSUME NEW n \in Models, Chunk(n) PROVE ChunkOrigin'
    <2>1. sent[n] + 1 \in 1..Len(Stream(n))
      <3>1. Len(Stream(n)) \in Nat /\ sent[n] \in Nat
        BY StreamNumbered DEF StreamInv, Shaped
      <3>2. sent[n] < Len(Stream(n))
        BY <1>6 DEF Chunk
      <3> QED BY <3>1, <3>2
    <2>2. Stream(n)[sent[n] + 1].node = n /\ events' = Append(events, Stream(n)[sent[n] + 1])
      BY <1>6, <2>1, StreamNumbered DEF TypeInv, Chunk
    <2>3. live[Unit(n)] /\ at'[Unit(n)] = "run" /\ Works
      BY <1>6 DEF Chunk, Unit, Works
    <2> QED BY <1>5, <2>2, <2>3
  <1>7. ASSUME NEW n \in Models, AttemptFails(n) PROVE ChunkOrigin'
    BY <1>3, <1>7 DEF AttemptFails
  <1>8. ASSUME NEW u \in Units, Finish(u) PROVE ChunkOrigin'
    <2>1. events' = Append(events, Update(u)) /\ ~IsChunk(Update(u)) /\ Works
      BY <1>8 DEF Finish, IsChunk, Update, Works
    <2> QED BY <1>5, <2>1
  <1>9. CASE Step \/ PreActivate
    <2>1. events' = <<>>
      BY <1>9 DEF Step, PreActivate
    <2>2. Len(<<>>) = 0 /\ \A i \in 1..0 : FALSE
      OBVIOUS
    <2> QED BY <2>1, <2>2 DEF ChunkOrigin
  <1>10. CASE HandleUpdate \/ ChunkToEnd \/ ChunkDirectly
    <2>1. stage # "replay" /\ events # <<>> /\ (events' = events \/ events' = Tail(events))
      BY <1>10 DEF HandleUpdate, ChunkToEnd, ChunkDirectly
    <2> QED BY <1>3, <1>4, <1>10, <2>1, ConsumerIs DEF graph
  <1>11. CASE TurnToNext \/ Wait
    <2>1. stage # "replay" /\ (events' = events \/ (events # <<>> /\ events' = Tail(events)))
      BY <1>11 DEF TurnToNext, Wait, StreamInv, Handling
    <2> QED BY <1>3, <1>4, <1>11, <2>1, ConsumerIs DEF graph
  <1>12. CASE PassSegment \/ EmitSegment \/ Flush
    <2>1. stage # "replay" /\ events' = events
      BY <1>12 DEF PassSegment, EmitSegment, Flush
    <2> QED BY <1>3, <1>12, <2>1, ConsumerIs DEF graph
  <1>13. ~Replay /\ \A u \in Units : \A l \in Labels(u[1]) : ~Resume(u, l)
    BY DEF Replay, Resume
  <1>14. CASE UNCHANGED vars
    BY <1>3, <1>14 DEF vars
  <1> QED BY <1>6, <1>7, <1>8, <1>9, <1>10, <1>11, <1>12, <1>13, <1>14
          DEF Next, Fails, Goes

\* The unit that an update is about.
LEMMA UpdateUnit ==
  ASSUME NEW e, NEW event, event = Update(Unit(e))
  PROVE  event.unit = Unit(e) /\ IsNode(Unit(e)) /\ Unit(e)[1] = e
  <1>1. Unit(e)[1] = e /\ Unit(e)[2] = ""
    BY DEF Unit
  <1>2. Update(Unit(e)).unit = Unit(e)
    BY DEF Update
  <1> QED BY <1>1, <1>2 DEF IsNode

\* What has been heard of an End stays so.
LEMMA HeardStays ==
  ASSUME KeepsForced(coord, coord'), NEW e, Heard(e) PROVE Heard(e)'
  BY DEF KeepsForced, Heard

\* An End that has executed is heard of in time.
LEMMA DoneHeardNext ==
  ASSUME StreamInv, TypeInv, EmitHeard, DoneHeard, PoolDone, [Next]_vars PROVE DoneHeard'
  <1>0. CASE PreActivate
    <2>1. PICK u \in Units : /\ Interrupting(u) /\ UNCHANGED <<wf, at, live>>
                             /\ coord' = UpdateScope(Recovered, u[1], taken[u[1]])
      BY <1>0 DEF PreActivate
    <2>2. Coherent(Recovered) /\ DOMAIN Recovered.ends = DOMAIN coord.ends \ (pool \cap Ends)
      BY RecoveredCoherent DEF TypeInv
    <2>3. DOMAIN coord'.ends = DOMAIN coord.ends \ (pool \cap Ends)
      BY <2>1, <2>2, UpdateScopeInforms DEF Informed, TypeInv
    <2>4. Ends' = Ends /\ Ends \subseteq Nodes
      BY <2>1, SameWorkflow DEF Ends
    <2> QED BY <2>1, <2>3, <2>4 DEF DoneHeard, PoolDone, Heard
  <1> SUFFICES ASSUME stage' # "replay", ~PreActivate PROVE DoneHeard'
    BY <1>0 DEF DoneHeard
  <1>1. stage # "replay" /\ KeepsForced(coord, coord') /\ IsSequence(events)
    BY HeardStep DEF TypeInv, EventsTyped
  <1>2. /\ Coherent(coord) /\ AllNoticed(coord) /\ wf \in Workflows
        /\ \A e \in Ends : at[Unit(e)] = "done" /\ live[Unit(e)] => Heard(e) \/ InEvents(Unit(e))
    BY <1>1 DEF TypeInv, DoneHeard
  <1>3. CASE UNCHANGED <<wf, at, live, events>>
    <2>1. Ends' = Ends
      BY <1>3, SameWorkflow
    <2>2. ASSUME NEW e PROVE InEvents(Unit(e)) => InEvents(Unit(e))'
      BY <1>3 DEF InEvents
    <2> QED BY <1>1, <1>2, <1>3, <2>1, <2>2, HeardStays DEF DoneHeard
  <1>4. ASSUME UNCHANGED graph, events # <<>>, events' = Tail(events),
               \A e \in Ends : Head(events) = Update(Unit(e)) /\ live[Unit(e)] => Heard(e)'
        PROVE  DoneHeard'
    <2>1. Ends' = Ends /\ UNCHANGED <<at, live>>
      BY <1>4, SameWorkflow DEF graph
    <2>2. ASSUME NEW e PROVE InEvents(Unit(e)) => Head(events) = Update(Unit(e)) \/ InEvents(Unit(e))'
      BY <1>1, <1>4, EventsRest
    <2> QED BY <1>1, <1>2, <1>4, <2>1, <2>2, HeardStays DEF DoneHeard
  <1>5. CASE Works
    <2>1. Ends' = Ends /\ live' = live
      BY <1>5, WorksIs, SameWorkflow
    <2>2. ASSUME NEW e \in Ends
          PROVE  /\ InEvents(Unit(e)) => InEvents(Unit(e))'
                 /\ at'[Unit(e)] = at[Unit(e)] \/ InEvents(Unit(e))'
      <3>1. Unit(e) \in Units
        BY DEF Units, Unit, Ends
      <3>2. InEvents(Unit(e)) => InEvents(Unit(e))'
        BY <1>1, <1>5, WorksIs, EventsMore DEF InEvents
      <3>3. at'[Unit(e)] = at[Unit(e)] \/ InEvents(Unit(e))'
        BY <1>1, <1>5, <3>1, WorksIs, EventsMore
      <3> QED BY <3>2, <3>3
    <2> QED BY <1>1, <1>2, <2>1, <2>2, HeardStays DEF DoneHeard
  <1>6. CASE Step
    <2> DEFINE ready == {u \in Units : at[u] = "idle" /\ \A p \in Preds(u) : at[p] = "done"}
               lives(u) == \/ u = <<wf.start, "">>
                           \/ ~IsNode(u) /\ live[<<u[1], "">>] /\ taken[u[1]] = u[2]
                           \/ IsNode(u) /\ \E p \in Preds(u) : live[p]
    <2>1. /\ at' = [u \in Units |-> IF u \in ready THEN "run" ELSE at[u]]
          /\ live' = [u \in Units |-> IF u \in ready THEN lives(u) ELSE live[u]]
          /\ wf' = wf /\ events' = events
      BY <1>6 DEF Step
    <2> HIDE DEF ready, lives
    <2>2. ASSUME NEW e \in Ends
          PROVE  /\ at'[Unit(e)] = "done" => at[Unit(e)] = "done" /\ live'[Unit(e)] = live[Unit(e)]
                 /\ InEvents(Unit(e)) => InEvents(Unit(e))'
      <3>1. Unit(e) \in Units
        BY DEF Units, Unit, Ends
      <3> QED BY <2>1, <3>1 DEF InEvents
    <2>3. Ends' = Ends
      BY <2>1, SameWorkflow
    <2> QED BY <1>1, <1>2, <2>2, <2>3, HeardStays DEF DoneHeard
  <1>7. ASSUME coord' = Told(coord, Head(events).unit), UNCHANGED graph,
               events' = events \/ (events # <<>> /\ events' = Tail(events))
        PROVE  DoneHeard'
    <2>1. ASSUME NEW e \in Ends, Head(events) = Update(Unit(e)), live[Unit(e)] PROVE Heard(e)'
      <3>1. Head(events).unit = Unit(e) /\ IsNode(Unit(e)) /\ Unit(e)[1] = e
        BY <2>1, UpdateUnit
      <3>2. /\ e \in DOMAIN coord.ends => coord'.ends[e].force
            /\ DOMAIN coord'.ends = DOMAIN coord.ends
        <4>1. coord' = Told(coord, Unit(e))
          BY <1>7, <3>1
        <4>2. /\ e \in DOMAIN coord.ends => Told(coord, Unit(e)).ends[e].force
              /\ DOMAIN Told(coord, Unit(e)).ends = DOMAIN coord.ends
          BY <1>2, <2>1, <3>1, ToldCoherent DEF Informed
        <4> QED BY <4>1, <4>2
      <3> QED BY <3>2 DEF Heard
    <2> QED BY <1>3, <1>4, <1>7, <2>1 DEF graph
  <1>8. CASE HandleUpdate
    <2>1. /\ coord' = Told(coord, Head(events).unit)
          /\ events' = events \/ (events # <<>> /\ events' = Tail(events))
      BY <1>8 DEF HandleUpdate
    <2> QED BY <1>7, <1>8, <2>1, ConsumerIs
  <1>9. CASE TurnToNext
    <2>1. stage \in {"emit", "flush"}
      BY <1>9 DEF TurnToNext
    <2>2. CASE stage = "emit"
      <3>1. /\ coord' = Told(coord, Head(events).unit)
            /\ events' = events \/ (events # <<>> /\ events' = Tail(events))
        BY <1>9, <2>2 DEF TurnToNext, StreamInv, Handling
      <3> QED BY <1>7, <1>9, <3>1, ConsumerIs
    <2>3. CASE stage = "flush"
      <3>1. events' = events
        BY <1>9, <2>3 DEF TurnToNext
      <3> QED BY <1>3, <1>9, <3>1, ConsumerIs DEF graph
    <2> QED BY <2>1, <2>2, <2>3
  <1>10. CASE ChunkToEnd \/ ChunkDirectly
    <2>1. events # <<>> /\ IsChunk(Head(events)) /\ events' = Tail(events)
      BY <1>10 DEF ChunkToEnd, ChunkDirectly
    <2>2. \A u : Head(events) # Update(u)
      BY <2>1 DEF IsChunk, Update
    <2> QED BY <1>4, <1>10, <2>1, <2>2, ConsumerIs
  <1>11. CASE PassSegment \/ EmitSegment \/ Flush
    <2>1. events' = events
      BY <1>11 DEF PassSegment, EmitSegment, Flush
    <2> QED BY <1>3, <1>11, <2>1, ConsumerIs DEF graph
  <1>12. CASE Wait
    <2>1. events' = events \/ (stage = "emit" /\ events # <<>> /\ events' = Tail(events))
      BY <1>12 DEF Wait, StreamInv, Handling
    <2>2. ASSUME stage = "emit", NEW e \in Ends, Head(events) = Update(Unit(e)), live[Unit(e)]
          PROVE  Heard(e)'
      <3>1. Head(events).unit = Unit(e) /\ IsNode(Unit(e)) /\ Unit(e)[1] = e
        BY <2>2, UpdateUnit
      <3>2. Heard(e)
        BY <2>2, <3>1 DEF EmitHeard, Executes
      <3> QED BY <1>1, <3>2, HeardStays
    <2> QED BY <1>3, <1>4, <1>12, <2>1, <2>2, ConsumerIs DEF graph
  <1>13. ~Replay /\ \A u \in Units : \A l \in Labels(u[1]) : ~Resume(u, l)
    BY <1>1 DEF Replay, Resume
  <1>14. CASE UNCHANGED vars
    BY <1>3, <1>14 DEF vars
  <1> QED BY <1>5, <1>6, <1>8, <1>9, <1>10, <1>11, <1>12, <1>13, <1>14
          DEF Next, Fails, Goes, Works

\* The update that is being handled has been heard.
LEMMA EmitHeardNext ==
  ASSUME StreamInv, TypeInv, EmitHeard, [Next]_vars PROVE EmitHeard'
  <1> SUFFICES ASSUME stage' = "emit" PROVE EmitHeard'
    BY DEF EmitHeard
  <1>1. /\ Coherent(coord) /\ AllNoticed(coord) /\ wf \in Workflows /\ IsSequence(events)
        /\ stage = "emit" => events # <<>> /\ ~IsChunk(Head(events))
        /\ stage = "emit" /\ Executes(Head(events).unit) => Heard(Head(events).unit[1])
    BY DEF TypeInv, EventsTyped, EmitHeard, StreamInv, Handling
  <1>2. ASSUME stage = "emit", live' = live, Head(events') = Head(events),
               KeepsForced(coord, coord')
        PROVE  EmitHeard'
    <2>1. PICK head : head = Head(events)
      OBVIOUS
    <2>2. Executes(head.unit) => Heard(head.unit[1])
      BY <1>1, <1>2, <2>1
    <2>3. Executes(head.unit)' => Heard(head.unit[1])'
      BY <1>2, <2>2, HeardStays DEF Executes
    <2> QED BY <1>1, <1>2, <2>1, <2>3 DEF EmitHeard
  <1>3. ASSUME coord' = Told(coord, Head(events).unit), live' = live, events' = events,
               ~IsChunk(Head(events))
        PROVE  EmitHeard'
    <2>1. PICK head : head = Head(events)
      OBVIOUS
    <2>2. Executes(head.unit) /\ head.unit[1] \in DOMAIN coord.ends => coord'.ends[head.unit[1]].force
      BY <1>1, <1>3, <2>1, ToldCoherent DEF Executes
    <2>3. DOMAIN coord'.ends = DOMAIN coord.ends
      BY <1>1, <1>3, ToldCoherent DEF Informed
    <2>4. Executes(head.unit)' => Heard(head.unit[1])'
      BY <1>3, <2>2, <2>3 DEF Executes, Heard
    <2> QED BY <1>3, <2>1, <2>4 DEF EmitHeard
  <1>4. CASE Works
    <2>1. /\ live' = live /\ stage = "emit" /\ coord' = coord
          /\ events' = events \/ \E event : events' = Append(events, event)
      BY <1>4, WorksIs
    <2>2. Head(events') = Head(events)
      BY <1>1, <2>1, EventsMore
    <2> QED BY <1>2, <2>1, <2>2 DEF KeepsForced
  <1>5. CASE HandleUpdate
    <2>1. /\ coord' = Told(coord, Head(events).unit) /\ ~IsChunk(Head(events)) /\ live' = live
          /\ events' = events
      BY <1>5 DEF HandleUpdate, graph
    <2> QED BY <1>3, <2>1
  <1>6. CASE EmitSegment
    <2>1. /\ coord' = Advance(coord) /\ stage = "emit" /\ coord.current \in DOMAIN coord.ends
          /\ live' = live /\ events' = events
      BY <1>6 DEF EmitSegment, Listening, graph
    <2>2. KeepsForced(coord, coord')
      BY <1>1, <2>1, AdvanceCoherent DEF Forth, KeepsForced
    <2> QED BY <1>2, <2>1, <2>2
  <1>7. CASE TurnToNext
    <2>1. /\ stage = "emit" => coord' = Told(coord, Head(events).unit)
          /\ live' = live /\ events' = events /\ stage = "emit"
      BY <1>7 DEF TurnToNext, graph
    <2> QED BY <1>1, <1>3, <2>1
  <1>8. CASE UNCHANGED vars
    BY <1>2, <1>8 DEF vars, KeepsForced
  <1>9. /\ ~Step /\ ~PassSegment /\ ~ChunkToEnd /\ ~ChunkDirectly /\ ~Wait /\ ~Flush
        /\ ~Replay /\ ~PreActivate
        /\ \A u \in Units : \A l \in Labels(u[1]) : ~Resume(u, l)
    BY DEF Step, PassSegment, ChunkToEnd, ChunkDirectly, Wait, Flush, Replay, PreActivate, Resume
  <1> QED BY <1>4, <1>5, <1>6, <1>7, <1>8, <1>9 DEF Next, Fails, Goes, Works

\* What is awaited, or waits, does so while nothing that it is about changes.
LEMMA AwaitedSame ==
  ASSUME UNCHANGED graph, events' = events, Awaited PROVE Awaited'
  <1>1. PICK u \in Units : Executes(u) /\ (at[u] # "done" \/ InEvents(u))
    BY DEF Awaited
  <1>2. Units' = Units /\ Executes(u)' /\ at' = at
    BY <1>1, SameWorkflow DEF graph, Executes, IsNode
  <1>3. InEvents(u) => InEvents(u)'
    BY DEF InEvents
  <1> QED BY <1>1, <1>2, <1>3 DEF Awaited

LEMMA HeldSame ==
  ASSUME wf' = wf, coord' = coord, stage' # "flush", Held PROVE Held'
  BY DEF Held, Ready, Segment

\* A superstep starts the nodes that are awaited: at first, that is the start.
LEMMA AwaitedStep ==
  ASSUME TypeInv, LiveStarted, Step, Awaited PROVE Awaited'
  <1> DEFINE ready == {u \in Units : at[u] = "idle" /\ \A p \in Preds(u) : at[p] = "done"}
             lives(u) == \/ u = <<wf.start, "">>
                         \/ ~IsNode(u) /\ live[<<u[1], "">>] /\ taken[u[1]] = u[2]
                         \/ IsNode(u) /\ \E p \in Preds(u) : live[p]
  <1>1. /\ at' = [u \in Units |-> IF u \in ready THEN "run" ELSE at[u]]
        /\ live' = [u \in Units |-> IF u \in ready THEN lives(u) ELSE live[u]]
        /\ wf' = wf /\ Running = {} /\ events = <<>>
    BY DEF Step
  <1>2. lives(Unit(wf.start))
    BY DEF Unit
  <1> HIDE DEF ready, lives
  <1>3. PICK u \in Units : Executes(u) /\ (at[u] # "done" \/ InEvents(u))
    BY DEF Awaited
  <1>4. ~InEvents(u)
    <2>1. Len(<<>>) = 0 /\ \A i \in 1..0 : FALSE
      OBVIOUS
    <2> QED BY <1>1, <2>1 DEF InEvents
  <1>5. at[u] = "idle"
    BY <1>1, <1>3, <1>4 DEF TypeInv, GraphTyped, Running
  <1>6. u = Unit(wf.start)
    BY <1>3, <1>5 DEF LiveStarted, Executes
  <1>7. live'[u] /\ at'[u] # "done" /\ Units' = Units
    BY <1>1, <1>2, <1>3, <1>5, <1>6, SameWorkflow DEF Executes
  <1> QED BY <1>3, <1>7 DEF Awaited, Executes, IsNode

\* An idle consumer has turned to every End that queues, or more is to come.
LEMMA SettledNext ==
  ASSUME StreamInv, TypeInv, Pending, [Next]_vars PROVE Settled'
  <1> SUFFICES ASSUME stage' = "idle"
               PROVE  Awaited' \/ Held' \/ (coord'.current = NoEnd /\ coord'.queue = <<>>)
    BY DEF Settled
  <1>1. IsSequence(events) /\ wf \in Workflows /\ Coherent(coord) /\ AllNoticed(coord)
    BY DEF TypeInv, EventsTyped
  <1>2. /\ stage = "idle" => Awaited \/ Held \/ (coord.current = NoEnd /\ coord.queue = <<>>)
        /\ stage = "emit" => Executes(Head(events).unit) \/ Awaited \/ Held
        /\ stage = "resume" => Awaited
        /\ ChunkOrigin /\ LiveStarted
    BY <1>1 DEF Pending, Settled, Settling, Resumed
  <1>3. CASE Works
    BY <1>2, <1>3, WorksIs, AwaitedWorks, HeldSame
  <1>4. CASE Step
    BY <1>2, <1>4, AwaitedStep, HeldSame DEF Step
  <1>5. ASSUME coord' = Told(coord, Head(events).unit), coord'.current = NoEnd, UNCHANGED graph,
               events # <<>>, events' = Tail(events), stage \in {"idle", "emit"}
        PROVE  Awaited' \/ (coord'.current = NoEnd /\ coord'.queue = <<>>)
    <2>1. CASE Executes(Head(events).unit)
      BY <1>1, <1>5, <2>1, ToldCoherent DEF Executes
    <2>2. CASE ~Executes(Head(events).unit)
      <3>1. coord' = coord
        BY <1>5, <2>2 DEF Told, Executes
      <3>2. ~Held
        BY <1>5, <3>1 DEF Held
      <3> QED BY <1>1, <1>2, <1>5, <2>2, <3>1, <3>2, AwaitedRest
    <2> QED BY <2>1, <2>2
  <1>6. CASE HandleUpdate
    <2>1. /\ coord' = Told(coord, Head(events).unit) /\ coord'.current = NoEnd /\ stage = "idle"
          /\ events # <<>> /\ events' = Tail(events)
      BY <1>6 DEF HandleUpdate
    <2> QED BY <1>5, <1>6, <2>1, ConsumerIs
  <1>7. CASE PassSegment \/ ChunkToEnd \/ ChunkDirectly
    <2>1. /\ events # <<>> /\ IsChunk(Head(events)) /\ stage # "replay"
          /\ events' = events \/ events' = Tail(events)
      BY <1>7 DEF PassSegment, ChunkToEnd, ChunkDirectly
    <2> QED BY <1>1, <1>2, <1>7, <2>1, AwaitedChunk, ConsumerIs
  <1>8. CASE TurnToNext
    <2>1. /\ stage = "emit" /\ coord' = Told(coord, Head(events).unit)
          /\ coord'.current = NoEnd /\ events' = Tail(events) /\ events # <<>>
      BY <1>8 DEF TurnToNext, StreamInv, Handling
    <2> QED BY <1>5, <1>8, <2>1, ConsumerIs
  <1>9. CASE Wait
    <2>1. coord' = coord /\ wf' = wf /\ UNCHANGED graph
      BY <1>9 DEF Wait, graph
    <2>2. CASE coord.current # NoEnd
      <3>1. ~(Listening /\ Ready(coord))
        BY <1>9, <2>2 DEF Wait
      <3>2. Listening
        BY <1>1, <2>2 DEF Coherent, CurrentEnd, Waiting, Listening
      <3> QED BY <2>1, <2>2, <3>1, <3>2, HeldSame DEF Held
    <2>3. CASE coord.current = NoEnd
      <3>1. stage = "resume" /\ events' = events
        BY <1>9, <2>3 DEF Wait
      <3> QED BY <1>2, <2>1, <3>1, AwaitedSame
    <2> QED BY <2>2, <2>3
  <1>10. CASE UNCHANGED vars
    <2>1. UNCHANGED graph /\ UNCHANGED <<wf, events, coord, stage>>
      BY <1>10 DEF vars, graph
    <2> QED BY <1>2, <2>1, AwaitedSame, HeldSame
  <1>11. /\ ~EmitSegment /\ ~Flush /\ ~Replay /\ ~PreActivate
         /\ \A u \in Units : \A l \in Labels(u[1]) : ~Resume(u, l)
    BY DEF EmitSegment, Flush, Replay, PreActivate, Resume
  <1> QED BY <1>3, <1>4, <1>6, <1>7, <1>8, <1>9, <1>10, <1>11 DEF Next, Fails, Goes, Works

\* So it will be after the update that is being handled.
LEMMA SettlingNext ==
  ASSUME StreamInv, TypeInv, Pending, [Next]_vars PROVE Settling'
  <1> SUFFICES ASSUME stage' = "emit" PROVE Settling'
    BY DEF Settling
  <1>1. IsSequence(events) /\ wf \in Workflows /\ Coherent(coord) /\ AllNoticed(coord)
    BY DEF TypeInv, EventsTyped
  <1>2. /\ stage = "idle" => Awaited \/ Held \/ (coord.current = NoEnd /\ coord.queue = <<>>)
        /\ stage = "emit" => Executes(Head(events).unit) \/ Awaited \/ Held
        /\ stage = "emit" => events # <<>>
    BY <1>1 DEF Pending, Settled, Settling, StreamInv, Handling
  <1>3. ASSUME live' = live, Head(events') = Head(events), Executes(Head(events).unit)
        PROVE  Executes(Head(events).unit)'
    <2>1. PICK u : u = Head(events).unit
      OBVIOUS
    <2>2. Executes(u)'
      BY <1>3, <2>1 DEF Executes, IsNode
    <2>3. u = Head(events').unit
      BY <1>3, <2>1
    <2> QED BY <2>2, <2>3
  <1>4. CASE Works
    <2>1. /\ UNCHANGED <<wf, live, coord, stage>>
          /\ events' = events \/ \E event : events' = Append(events, event)
      BY <1>4, WorksIs
    <2>2. Head(events') = Head(events)
      BY <1>1, <1>2, <2>1, EventsMore
    <2> QED BY <1>2, <1>3, <1>4, <2>1, <2>2, AwaitedWorks, HeldSame DEF Settling
  <1>5. CASE HandleUpdate
    <2>1. /\ coord' = Told(coord, Head(events).unit) /\ stage = "idle" /\ events' = events
          /\ coord'.current # NoEnd /\ UNCHANGED graph /\ live' = live /\ wf' = wf
      BY <1>5 DEF HandleUpdate, graph
    <2>2. CASE Executes(Head(events).unit)
      BY <1>3, <2>1, <2>2 DEF Settling
    <2>3. CASE ~Executes(Head(events).unit)
      <3>1. coord' = coord
        BY <2>1, <2>3 DEF Told, Executes
      <3> QED BY <1>2, <2>1, <3>1, AwaitedSame, HeldSame DEF Settling
    <2> QED BY <2>2, <2>3
  <1>6. CASE EmitSegment \/ TurnToNext
    <2>1. /\ stage = "emit" /\ events' = events /\ UNCHANGED graph /\ live' = live
          /\ coord.current = NoEnd \/ Ready(coord)
      BY <1>6 DEF EmitSegment, TurnToNext, graph
    <2>2. ~Held
      BY <2>1 DEF Held
    <2> QED BY <1>2, <1>3, <2>1, <2>2, AwaitedSame DEF Settling
  <1>7. CASE UNCHANGED vars
    <2>1. UNCHANGED graph /\ UNCHANGED <<wf, live, events, coord, stage>>
      BY <1>7 DEF vars, graph
    <2> QED BY <1>2, <1>3, <2>1, AwaitedSame, HeldSame DEF Settling
  <1>8. /\ ~Step /\ ~PassSegment /\ ~ChunkToEnd /\ ~ChunkDirectly /\ ~Wait /\ ~Flush
        /\ ~Replay /\ ~PreActivate
        /\ \A u \in Units : \A l \in Labels(u[1]) : ~Resume(u, l)
    BY DEF Step, PassSegment, ChunkToEnd, ChunkDirectly, Wait, Flush, Replay, PreActivate, Resume
  <1> QED BY <1>4, <1>5, <1>6, <1>7, <1>8 DEF Next, Fails, Goes, Works

\* A node that interrupts does not finish: it ends the stream first.
LEMMA OpenNext ==
  ASSUME StreamInv, TypeInv, Open, [Next]_vars PROVE Open'
  <1>1. wf' = wf /\ Units' = Units
    BY SameWf, SameWorkflow
  <1>2. ASSUME cut' = cut,
               \A u \in Units : at'[u] = "done" => at[u] = "done" /\ live'[u] = live[u]
        PROVE  Open'
    <2>1. ASSUME NEW u \in Units, Interrupting(u)', at'[u] = "done" PROVE FALSE
      <3>1. Interrupting(u)
        BY <1>1, <1>2, <2>1 DEF Interrupting, IsNode
      <3> QED BY <1>2, <2>1, <3>1 DEF Open
    <2> QED BY <1>1, <2>1 DEF Open
  <1>3. CASE UNCHANGED <<at, live, cut>>
    BY <1>2, <1>3
  <1>4. ASSUME NEW v \in Units, Finish(v) PROVE Open'
    <2>1. /\ ~Interrupting(v) /\ live' = live /\ cut' = cut /\ at' = [at EXCEPT ![v] = "done"]
      BY <1>4 DEF Finish
    <2>2. ASSUME NEW u \in Units, Interrupting(u)' PROVE at'[u] # "done"
      <3>1. Interrupting(u)
        BY <1>1, <2>1, <2>2 DEF Interrupting, IsNode
      <3>2. at[u] # "done" /\ u # v
        BY <2>1, <3>1 DEF Open
      <3> QED BY <2>1, <3>2 DEF TypeInv, GraphTyped
    <2> QED BY <1>1, <2>2 DEF Open
  <1>5. CASE Step
    <2> DEFINE ready == {u \in Units : at[u] = "idle" /\ \A p \in Preds(u) : at[p] = "done"}
               lives(u) == \/ u = <<wf.start, "">>
                           \/ ~IsNode(u) /\ live[<<u[1], "">>] /\ taken[u[1]] = u[2]
                           \/ IsNode(u) /\ \E p \in Preds(u) : live[p]
    <2>1. /\ at' = [u \in Units |-> IF u \in ready THEN "run" ELSE at[u]]
          /\ live' = [u \in Units |-> IF u \in ready THEN lives(u) ELSE live[u]]
          /\ cut' = cut
      BY <1>5 DEF Step
    <2> HIDE DEF ready, lives
    <2> QED BY <1>2, <2>1
  <1>6. CASE PreActivate
    <2>1. Len(shown) \in Nat /\ cut' = Len(shown)
      BY <1>6, Appended DEF StreamInv, Shaped, PreActivate
    <2> QED BY <2>1 DEF Open, Interrupting
  <1>7. CASE \/ HandleUpdate \/ PassSegment \/ ChunkToEnd \/ ChunkDirectly \/ EmitSegment
             \/ TurnToNext \/ Wait \/ Flush \/ Replay
    <2>1. cut' = cut
      BY <1>7 DEF HandleUpdate, PassSegment, ChunkToEnd, ChunkDirectly, EmitSegment, TurnToNext,
                  Wait, Flush, Replay
    <2> QED BY <1>3, <1>7, <2>1, ConsumerIs DEF graph
  <1>8. CASE \/ \E n \in Models : Chunk(n) \/ AttemptFails(n)
             \/ \E u \in Units : \E l \in Labels(u[1]) : Resume(u, l)
             \/ UNCHANGED vars
    BY <1>3, <1>8 DEF Chunk, AttemptFails, Resume, vars
  <1> QED BY <1>4, <1>5, <1>6, <1>7, <1>8 DEF Next, Fails, Goes

\* What a node that executes has computed is in the pool.
LEMMA PoolDoneNext ==
  ASSUME TypeInv, PoolDone, [Next]_vars PROVE PoolDone'
  <1>1. wf' = wf /\ Nodes' = Nodes
    BY SameWf, SameWorkflow
  <1>2. \A n \in Nodes : Unit(n) \in Units /\ Unit(n)[1] = n /\ IsNode(Unit(n))
    BY DEF Unit, Units, IsNode
  <1>3. CASE UNCHANGED <<at, live>> /\ pool \subseteq pool'
    BY <1>1, <1>3 DEF PoolDone
  <1>4. ASSUME NEW v \in Units, Finish(v) PROVE PoolDone'
    <2>1. /\ live' = live /\ at' = [at EXCEPT ![v] = "done"]
          /\ pool' = IF IsNode(v) /\ live[v] THEN pool \cup {v[1]} ELSE pool
      BY <1>4 DEF Finish
    <2>2. ASSUME NEW n \in Nodes, at'[Unit(n)] = "done", live'[Unit(n)] PROVE n \in pool'
      <3>1. CASE Unit(n) = v
        BY <1>2, <2>1, <2>2, <3>1
      <3>2. CASE Unit(n) # v
        BY <1>2, <2>1, <2>2, <3>2 DEF TypeInv, GraphTyped, PoolDone
      <3> QED BY <3>1, <3>2
    <2> QED BY <1>1, <2>2 DEF PoolDone
  <1>5. CASE Step
    <2> DEFINE ready == {u \in Units : at[u] = "idle" /\ \A p \in Preds(u) : at[p] = "done"}
               lives(u) == \/ u = <<wf.start, "">>
                           \/ ~IsNode(u) /\ live[<<u[1], "">>] /\ taken[u[1]] = u[2]
                           \/ IsNode(u) /\ \E p \in Preds(u) : live[p]
    <2>1. /\ at' = [u \in Units |-> IF u \in ready THEN "run" ELSE at[u]]
          /\ live' = [u \in Units |-> IF u \in ready THEN lives(u) ELSE live[u]]
          /\ pool' = pool
      BY <1>5 DEF Step
    <2> HIDE DEF ready, lives
    <2>2. \A u \in Units : at'[u] = "done" => at[u] = "done" /\ live'[u] = live[u]
      BY <2>1
    <2> QED BY <1>1, <1>2, <2>1, <2>2 DEF PoolDone
  <1>6. CASE \/ HandleUpdate \/ PassSegment \/ ChunkToEnd \/ ChunkDirectly \/ EmitSegment
             \/ TurnToNext \/ Wait \/ Flush \/ Replay
    BY <1>3, <1>6, ConsumerIs DEF graph
  <1>7. CASE \/ \E n \in Models : Chunk(n) \/ AttemptFails(n)
             \/ \E u \in Units : \E l \in Labels(u[1]) : Resume(u, l)
             \/ PreActivate \/ UNCHANGED vars
    BY <1>3, <1>7 DEF Chunk, AttemptFails, Resume, PreActivate, vars
  <1> QED BY <1>4, <1>5, <1>6, <1>7 DEF Next, Fails, Goes

\* A stream is taken up while the node that interrupted it is awaited.
LEMMA ResumedNext ==
  ASSUME StreamInv, TypeInv, Pending, [Next]_vars PROVE Resumed'
  <1> SUFFICES ASSUME stage' = "resume" PROVE cut' # -1 /\ Awaited'
    BY DEF Resumed
  <1>1. stage = "resume" => cut # -1 /\ Awaited
    BY DEF Pending, Resumed
  <1>2. CASE PreActivate
    <2>1. cut' = Len(shown) /\ Len(shown) \in Nat
      BY <1>2, Appended DEF PreActivate, StreamInv, Shaped
    <2>2. PICK u \in Units : Interrupting(u)
      BY <1>2 DEF PreActivate
    <2>3. IsNode(u) /\ live[u] /\ at[u] # "done" /\ u \in Units
      BY <2>2 DEF Pending, Open, Interrupting
    <2>4. UNCHANGED <<wf, at, live>>
      BY <1>2 DEF PreActivate
    <2>5. Units' = Units
      BY <2>4, SameWorkflow
    <2>6. u \in Units' /\ Executes(u)' /\ at'[u] # "done"
      BY <2>3, <2>4, <2>5 DEF Executes, IsNode
    <2>7. Awaited'
      BY <2>6 DEF Awaited
    <2> QED BY <2>1, <2>7
  <1>3. CASE Works
    BY <1>1, <1>3, WorksIs, AwaitedWorks
  <1>4. CASE EmitSegment \/ UNCHANGED vars
    <2>1. UNCHANGED graph /\ events' = events /\ UNCHANGED <<stage, cut>>
      BY <1>4 DEF EmitSegment, vars, graph
    <2> QED BY <1>1, <2>1, AwaitedSame
  <1>5. /\ ~Step /\ ~HandleUpdate /\ ~PassSegment /\ ~ChunkToEnd /\ ~ChunkDirectly /\ ~TurnToNext
        /\ ~Wait /\ ~Flush /\ ~Replay /\ \A u \in Units : \A l \in Labels(u[1]) : ~Resume(u, l)
    BY DEF Step, HandleUpdate, PassSegment, ChunkToEnd, ChunkDirectly, TurnToNext, Wait, Flush,
           Replay, Resume
  <1> QED BY <1>2, <1>3, <1>4, <1>5 DEF Next, Fails, Goes, Works

\* Every step keeps what is still to come.
LEMMA PendingNext ==
  ASSUME StreamInv, TypeInv, Pending, [Next]_vars PROVE Pending'
  <1>1. /\ LiveStarted /\ ChunkOrigin /\ DoneHeard /\ EmitHeard /\ Open /\ PoolDone
    BY DEF Pending
  <1>2. LiveStarted' /\ ChunkOrigin' /\ DoneHeard' /\ EmitHeard'
    BY <1>1, StartedNext, OriginNext, DoneHeardNext, EmitHeardNext
  <1>3. Settled' /\ Settling' /\ Resumed'
    BY SettledNext, SettlingNext, ResumedNext
  <1>4. Open' /\ PoolDone'
    BY <1>1, OpenNext, PoolDoneNext
  <1> QED BY <1>2, <1>3, <1>4 DEF Pending

\* At the start everything is still to come.
LEMMA PendingInit == ASSUME Init PROVE Pending
  <1>1. /\ at = [u \in Units |-> "idle"] /\ live = [u \in Units |-> u = <<wf.start, "">>]
        /\ events = <<>> /\ stage = "idle" /\ wf \in Workflows
    BY DEF Init
  <1>2. Len(<<>>) = 0 /\ \A i \in 1..0 : FALSE
    OBVIOUS
  <1>3. LiveStarted /\ ChunkOrigin /\ EmitHeard /\ Settling /\ Resumed /\ Open
    BY <1>1, <1>2 DEF LiveStarted, Unit, ChunkOrigin, EmitHeard, Settling, Resumed, Open
  <1>4. \A n \in Nodes : Unit(n) \in Units
    BY DEF Unit, Units
  <1>5. DoneHeard /\ PoolDone
    BY <1>1, <1>4 DEF DoneHeard, PoolDone, Ends
  <1>6. Settled
    <2>1. Unit(wf.start) \in Units /\ IsNode(Unit(wf.start)) /\ Unit(wf.start) = <<wf.start, "">>
      BY <1>1, WorkflowIs DEF Unit, Units, IsNode
    <2>2. Awaited
      BY <1>1, <2>1 DEF Awaited, Executes
    <2> QED BY <2>2 DEF Settled
  <1> QED BY <1>3, <1>5, <1>6 DEF Pending

-----------------------------------------------------------------------------
(* Literals: what has been shown *)

IsLiteral(e, i) == ~IsVariable(wf.template[e][i])
ShowsPart(e, i) == \E j \in 1..Len(shown) : shown[j].end = e /\ shown[j].at = i

\* The literals before the cursor of an End have been shown, all of them when it is
\* finished; an End that does not execute may be forgotten at the end.
ShowsLiterals(e) ==
  \A i \in 1..Len(wf.template[e]) :
    IsLiteral(e, i) /\ (e \in DOMAIN coord.ends => i < coord.ends[e].cursor) => ShowsPart(e, i)
Passed ==
  First => \A e \in Ends : live[Unit(e)] \/ stage \notin {"flush", "over"} => ShowsLiterals(e)

\* A part of an End is one of a segment of its template, and a literal is whole.
Wholes ==
  \A j \in 1..Len(shown) : shown[j].end \in Ends =>
    /\ shown[j].at \in 1..Len(wf.template[shown[j].end])
    /\ IsLiteral(shown[j].end, shown[j].at) => shown[j].k = 0

\* In the end every End that has executed is finished.
OverDone == First /\ stage = "over" => \A e \in Ends : live[Unit(e)] => e \notin DOMAIN coord.ends

LiteralsInv == Pending /\ Passed /\ Wholes /\ OverDone

\* A literal under the cursor is shown.
LEMMA LiteralShown ==
  ASSUME IsSequence(shown), ~IsVariable(Segment(coord))
  PROVE  shown \o Whole(coord) = Append(shown, Part(coord, 0))
  <1> DEFINE p == Part(coord, 0)
  <1>1. PICK S : shown \in Seq(S)
    BY DEF IsSequence
  <1>2. Whole(coord) = <<p>>
    BY DEF Whole
  <1>3. shown \in Seq(S \cup {p}) /\ p \in S \cup {p}
    BY <1>1
  <1> HIDE DEF p
  <1>4. shown \o <<p>> = Append(shown, p)
    BY <1>3
  <1> QED BY <1>2, <1>4 DEF p

\* What a step shows: a part of the segment under the cursor, or a chunk that an active
\* End waits for.
FromCursor(p) ==
  \/ /\ p.end = NoEnd
     /\ \E e \in DOMAIN coord.ends : /\ coord.ends[e].active
                                    /\ [node |-> p.node, field |-> p.field] \in Range(wf.template[e])
  \/ /\ coord.current \in DOMAIN coord.ends /\ p.end = coord.current
     /\ p.at = coord.ends[coord.current].cursor
     /\ ~IsVariable(Segment(coord)) => p.k = 0

LEMMA ShownIs ==
  ASSUME StreamInv, TypeInv, [Next]_vars
  PROVE  shown' = shown \/ \E p : shown' = Append(shown, p) /\ FromCursor(p)
  <1>1. IsSequence(shown)
    BY DEF StreamInv, Shaped
  <1>2. CASE PassSegment \/ EmitSegment
    <2>1. coord.current \in DOMAIN coord.ends /\ (shown' = shown \/ shown' = shown \o Whole(coord))
      BY <1>2 DEF PassSegment, EmitSegment, Listening
    <2>2. shown' = shown \/ shown' = Append(shown, Part(coord, 0))
      BY <1>1, <2>1, WholeShown
    <2>3. FromCursor(Part(coord, 0))
      BY <2>1 DEF FromCursor, Part
    <2> QED BY <2>2, <2>3
  <1>3. CASE ChunkToEnd
    <2> DEFINE event == Head(events)
               mine == /\ Listening
                       /\ Segment(coord).node = event.node /\ Segment(coord).field = event.field
    <2>1. /\ events # <<>> /\ IsChunk(event)
          /\ shown' = IF mine /\ ~Done(event) THEN Append(shown, Part(coord, event.k)) ELSE shown
      BY <1>3 DEF ChunkToEnd
    <2>2. event.node # ""
      <3>1. Len(events) \in Nat \ {0} /\ event = events[1]
        BY <2>1, Taken DEF TypeInv, EventsTyped
      <3>2. 1 \in 1..Len(events)
        BY <3>1
      <3>3. event.node \in Models /\ "" \notin Nodes
        BY <2>1, <3>1, <3>2, WorkflowIs DEF TypeInv, EventsTyped
      <3> QED BY <3>3 DEF Models
    <2>3. CASE mine
      <3>1. FromCursor(Part(coord, event.k))
        BY <2>2, <2>3 DEF FromCursor, Part, Listening, IsVariable
      <3> QED BY <2>1, <3>1
    <2> QED BY <2>1, <2>3
  <1>4. CASE ChunkDirectly
    <2> DEFINE event == Head(events)
               p == [end |-> NoEnd, at |-> 0, node |-> event.node, field |-> event.field,
                     k |-> event.k]
    <2>1. shown' = shown \/ shown' = Append(shown, p)
      BY <1>4 DEF ChunkDirectly
    <2>2. p.end = NoEnd /\ p.node = event.node /\ p.field = event.field
      OBVIOUS
    <2> HIDE DEF p
    <2>3. CASE \E e \in DOMAIN coord.ends :
                 /\ coord.ends[e].active
                 /\ \E seg \in Range(wf.template[e]) :
                      seg.node = event.node /\ seg.field = event.field
      <3>0. PICK e \in DOMAIN coord.ends :
              /\ coord.ends[e].active
              /\ \E seg \in Range(wf.template[e]) :
                   seg.node = event.node /\ seg.field = event.field
        BY <2>3
      <3>1. PICK seg \in Range(wf.template[e]) : seg.node = event.node /\ seg.field = event.field
        BY <3>0
      <3>2. seg = [node |-> event.node, field |-> event.field]
        <4>1. wf.template[e] \in Seq([node : STRING, field : STRING])
          <5>1. e \in Ends /\ IsWorkflow(wf)
            BY WorkflowAssumption DEF TypeInv, Coherent, KnownEnds
          <5> QED BY <5>1 DEF IsWorkflow, Ends, Nodes
        <4>2. seg \in [node : STRING, field : STRING]
          BY <4>1, RangeIs
        <4> QED BY <3>1, <4>2
      <3> QED BY <2>1, <2>2, <3>0, <3>1, <3>2 DEF FromCursor
    <2>4. CASE ~\E e \in DOMAIN coord.ends :
                 /\ coord.ends[e].active
                 /\ \E seg \in Range(wf.template[e]) :
                      seg.node = event.node /\ seg.field = event.field
      BY <1>4, <2>4 DEF ChunkDirectly
    <2> QED BY <2>3, <2>4
  <1>5. CASE Works \/ Step \/ UNCHANGED vars
    BY <1>5, WorksIs DEF Step, vars
  <1>6. CASE HandleUpdate \/ TurnToNext \/ Wait \/ Flush \/ Replay \/ PreActivate
    BY <1>6 DEF HandleUpdate, TurnToNext, Wait, Flush, Replay, PreActivate
  <1>7. CASE \E u \in Units : \E l \in Labels(u[1]) : Resume(u, l)
    BY <1>7 DEF Resume
  <1> QED BY <1>2, <1>3, <1>4, <1>5, <1>6, <1>7 DEF Next, Fails, Goes, Works

\* What has been shown stays shown.
LEMMA ShowsPartStays ==
  ASSUME IsSequence(shown), shown' = shown \/ \E p : shown' = Append(shown, p), NEW e, NEW i,
         ShowsPart(e, i)
  PROVE  ShowsPart(e, i)'
  <1>1. CASE shown' = shown
    BY <1>1 DEF ShowsPart
  <1>2. ASSUME NEW p, shown' = Append(shown, p) PROVE ShowsPart(e, i)'
    <2>1. /\ Len(shown) \in Nat /\ Len(shown') = Len(shown) + 1
          /\ \A j \in 1..Len(shown) : shown'[j] = shown[j]
      BY <1>2, Appended
    <2>2. \A j \in 1..Len(shown) : j \in 1..Len(shown')
      BY <2>1
    <2> QED BY <2>1, <2>2 DEF ShowsPart
  <1> QED BY <1>1, <1>2

\* Every step shows parts of segments, and literals whole.
LEMMA WholesNext ==
  ASSUME StreamInv, TypeInv, Wholes, [Next]_vars PROVE Wholes'
  <1>1. wf' = wf /\ Ends' = Ends
    BY SameWf, SameWorkflow
  <1>2. CASE shown' = shown
    BY <1>1, <1>2 DEF Wholes, IsLiteral
  <1>3. ASSUME NEW p, shown' = Append(shown, p), FromCursor(p) PROVE Wholes'
    <2>1. /\ Len(shown) \in Nat /\ Len(shown') = Len(shown) + 1
          /\ \A j \in 1..Len(shown) : shown'[j] = shown[j]
          /\ shown'[Len(shown) + 1] = p
      BY <1>3, Appended DEF StreamInv, Shaped
    <2>2. p.end \in Ends => /\ p.at \in 1..Len(wf.template[p.end])
                            /\ IsLiteral(p.end, p.at) => p.k = 0
      BY <1>3, WorkflowIs DEF FromCursor, TypeInv, Coherent, KnownEnds, IsLiteral, Segment, Ends
    <2>3. \A j \in 1..Len(shown') : j \in 1..Len(shown) \/ j = Len(shown) + 1
      BY <2>1
    <2> QED BY <1>1, <2>1, <2>2, <2>3 DEF Wholes, IsLiteral
  <1> QED BY <1>2, <1>3, ShownIs

\* A segment that the cursor passes has been shown if it is a literal.
LEMMA ForthShows ==
  ASSUME StreamInv, TypeInv, Passed, First, wf' = wf, UNCHANGED <<live, stage>>,
         Coherent(coord'), coord.current \in DOMAIN coord.ends, Forth(coord, coord'),
         shown' = shown \/ \E p : shown' = Append(shown, p),
         ~IsVariable(Segment(coord)) =>
           \E j \in 1..Len(shown') : /\ shown'[j].end = coord.current
                                   /\ shown'[j].at = coord.ends[coord.current].cursor
  PROVE  Passed'
  <1>1. Ends' = Ends /\ IsSequence(shown)
    BY SameWorkflow DEF StreamInv, Shaped
  <1>2. PICK c : c = coord.current
    OBVIOUS
  <1>3. PICK k : k = coord.ends[c].cursor
    OBVIOUS
  <1>4. k \in Nat /\ (IsLiteral(c, k) => ShowsPart(c, k)')
    <2>1. Len(wf.template[c]) \in Nat /\ k \in 1..Len(wf.template[c])
      BY <1>2, <1>3, WorkflowIs DEF TypeInv, Coherent, KnownEnds
    <2> QED BY <1>2, <1>3, <2>1 DEF IsLiteral, Segment, ShowsPart
  <1>5. ASSUME NEW e \in Ends, live[Unit(e)] \/ stage \notin {"flush", "over"},
               NEW i \in 1..Len(wf.template[e]), IsLiteral(e, i),
               e \in DOMAIN coord'.ends => i < coord'.ends[e].cursor
        PROVE  ShowsPart(e, i)'
    <2>1. ShowsLiterals(e)
      BY <1>5 DEF Passed
    <2>2. CASE e # c
      <3>1. e \in DOMAIN coord.ends => i < coord.ends[e].cursor
        BY <1>2, <1>5, <2>2 DEF Forth
      <3> QED BY <1>1, <1>5, <2>1, <3>1, ShowsPartStays DEF ShowsLiterals
    <2>3. CASE e = c /\ i < k
      BY <1>1, <1>3, <1>5, <2>1, <2>3, ShowsPartStays DEF ShowsLiterals
    <2>4. CASE e = c /\ i = k
      BY <1>4, <1>5, <2>4
    <2>5. CASE e = c /\ ~(i < k) /\ i # k
      <3>1. Len(wf.template[e]) \in Nat
        BY WorkflowIs DEF TypeInv
      <3>2. k + 1 > Len(wf.template[e]) => FALSE
        BY <1>4, <1>5, <2>5, <3>1
      <3>3. e \in DOMAIN coord'.ends /\ coord'.ends[e].cursor = k + 1
        BY <1>2, <1>3, <2>5, <3>2 DEF Forth
      <3> QED BY <1>4, <1>5, <2>5, <3>1, <3>3
    <2> QED BY <2>2, <2>3, <2>4, <2>5
  <1> QED BY <1>1, <1>5 DEF Passed, ShowsLiterals, IsLiteral

\* While the Ends keep their places, what was shown is what has to be.
LEMMA SamePlacesShow ==
  ASSUME StreamInv, Passed, First, wf' = wf,
         DOMAIN coord'.ends = DOMAIN coord.ends,
         \A e \in DOMAIN coord.ends : coord'.ends[e].cursor = coord.ends[e].cursor,
         shown' = shown \/ \E p : shown' = Append(shown, p),
         \A e \in Ends : live'[Unit(e)] \/ stage' \notin {"flush", "over"}
                           => live[Unit(e)] \/ stage \notin {"flush", "over"}
  PROVE  Passed'
  <1>1. Ends' = Ends /\ IsSequence(shown)
    BY SameWorkflow DEF StreamInv, Shaped
  <1>2. ASSUME NEW e \in Ends, live'[Unit(e)] \/ stage' \notin {"flush", "over"},
               NEW i \in 1..Len(wf.template[e]), IsLiteral(e, i),
               e \in DOMAIN coord'.ends => i < coord'.ends[e].cursor
        PROVE  ShowsPart(e, i)'
    BY <1>1, <1>2, ShowsPartStays DEF Passed, ShowsLiterals
  <1> QED BY <1>1, <1>2 DEF Passed, ShowsLiterals, IsLiteral

\* At the last flush an End that has executed is still known, if it is not finished.
LEMMA FlushKeepsExecuted ==
  ASSUME StreamInv, TypeInv, Pending, First, Flush
  PROVE  \A e \in Ends : live[Unit(e)] /\ e \in DOMAIN coord.ends
                            => e \in DOMAIN coord'.ends /\ coord.ends[e].active
  <1>1. /\ Coherent(coord) /\ AllNoticed(coord) /\ wf \in Workflows
        /\ events = <<>> /\ \A u \in Units : at[u] = "done"
    BY DEF TypeInv, Flush
  <1>2. ASSUME NEW e \in Ends, live[Unit(e)], e \in DOMAIN coord.ends
        PROVE  e \in DOMAIN coord'.ends /\ coord.ends[e].active
    <2>1. Unit(e) \in Units
      BY DEF Unit, Units, Ends
    <2>2. ~InEvents(Unit(e))
      <3>1. Len(<<>>) = 0 /\ \A i \in 1..0 : FALSE
        OBVIOUS
      <3> QED BY <1>1, <3>1 DEF InEvents
    <2>3. coord.ends[e].force
      BY <1>1, <1>2, <2>1, <2>2 DEF Pending, DoneHeard, Heard, First
    <2>4. coord.ends[e].active
      BY <1>1, <1>2, <2>3 DEF Coherent, KnownEnds
    <2> QED BY <1>1, <1>2, <2>4, FlushCoherent
  <1> QED BY <1>2

\* No cursor passes a literal that is not shown.
LEMMA PassedNext ==
  ASSUME StreamInv, TypeInv, LiteralsInv, [Next]_vars PROVE Passed'
  <1> SUFFICES ASSUME First' PROVE Passed'
    BY DEF Passed
  <1>1. /\ First /\ Passed /\ wf' = wf /\ IsSequence(shown)
        /\ wf \in Workflows /\ Coherent(coord) /\ AllNoticed(coord)
    BY FirstStep, SameWf DEF LiteralsInv, StreamInv, Shaped, TypeInv
  <1>2. shown' = shown \/ \E p : shown' = Append(shown, p)
    BY ShownIs
  <1>3. ASSUME coord'.ends = coord.ends \/ Informed(coord, coord'),
               \A e \in Ends : live'[Unit(e)] \/ stage' \notin {"flush", "over"}
                                 => live[Unit(e)] \/ stage \notin {"flush", "over"}
        PROVE  Passed'
    BY <1>1, <1>2, <1>3, SamePlacesShow DEF Informed
  <1>4. CASE Works \/ Step \/ UNCHANGED vars
    <2>1. /\ coord' = coord /\ stage' = stage /\ (live' = live \/ stage = "idle")
      BY <1>4, WorksIs DEF Step, vars
    <2> QED BY <1>3, <2>1
  <1>5. CASE HandleUpdate \/ TurnToNext
    <2>1. /\ live' = live /\ stage \in {"idle", "emit", "flush"}
          /\ stage = "flush" => stage' \in {"flush", "over"}
      BY <1>5 DEF HandleUpdate, TurnToNext, graph
    <2>2. coord'.ends = coord.ends \/ Informed(coord, coord')
      <3>1. CASE HandleUpdate
        BY <1>1, <3>1, ToldCoherent DEF HandleUpdate
      <3>2. CASE TurnToNext /\ stage = "flush"
        BY <3>2, FlushTurns
      <3>3. CASE TurnToNext /\ stage = "emit"
        BY <1>1, <3>3, ToldCoherent DEF TurnToNext
      <3>4. TurnToNext => stage \in {"emit", "flush"}
        BY DEF TurnToNext
      <3> QED BY <1>5, <3>1, <3>2, <3>3, <3>4
    <2> QED BY <1>3, <2>1, <2>2
  <1>6. CASE Wait
    BY <1>3, <1>6 DEF Wait, graph
  <1>7. ASSUME NEW p, shown' = Append(shown, p), p.end = coord.current,
               p.at = coord.ends[coord.current].cursor
        PROVE  \E j \in 1..Len(shown') : /\ shown'[j].end = coord.current
                                         /\ shown'[j].at = coord.ends[coord.current].cursor
    <2>1. Len(shown) \in Nat /\ Len(shown') = Len(shown) + 1 /\ shown'[Len(shown) + 1] = p
      BY <1>1, <1>7, Appended
    <2>2. Len(shown) + 1 \in 1..Len(shown')
      BY <2>1
    <2> QED BY <1>7, <2>1, <2>2
  <1>8. CASE PassSegment \/ EmitSegment
    <2>1. /\ coord' = Advance(coord) /\ UNCHANGED <<live, stage>>
          /\ coord.current \in DOMAIN coord.ends
          /\ \/ shown' = shown \o Whole(coord)
             \/ <<Segment(coord).node, Segment(coord).field>> \in coord.streamed
      BY <1>8 DEF PassSegment, EmitSegment, Listening, graph
    <2>2. Coherent(coord') /\ Forth(coord, coord')
      BY <1>1, <2>1, AdvanceCoherent
    <2>3. ASSUME ~IsVariable(Segment(coord)) PROVE shown' = shown \o Whole(coord)
      <3>1. <<Segment(coord).node, Segment(coord).field>>[1] = Segment(coord).node
        OBVIOUS
      <3>2. \A x \in coord.streamed : x[1] # ""
        BY <1>1 DEF Coherent, StreamedNodes
      <3>3. Segment(coord).node = ""
        BY <2>3 DEF IsVariable
      <3> QED BY <2>1, <3>1, <3>2, <3>3, Zenon
    <2>4. ASSUME ~IsVariable(Segment(coord))
          PROVE  \E j \in 1..Len(shown') : /\ shown'[j].end = coord.current
                                           /\ shown'[j].at = coord.ends[coord.current].cursor
      <3>1. shown' = Append(shown, Part(coord, 0))
        BY <1>1, <2>3, <2>4, LiteralShown
      <3>2. /\ Part(coord, 0).end = coord.current
            /\ Part(coord, 0).at = coord.ends[coord.current].cursor
        BY DEF Part
      <3> QED BY <1>7, <3>1, <3>2
    <2> QED BY <1>1, <1>2, <2>1, <2>2, <2>4, ForthShows
  <1>9. CASE ChunkToEnd \/ ChunkDirectly
    <2>1. UNCHANGED <<live, stage>>
      BY <1>9 DEF ChunkToEnd, ChunkDirectly, graph
    <2>2. CASE coord'.ends = coord.ends
      BY <1>3, <2>1, <2>2
    <2>3. CASE /\ coord.current \in DOMAIN coord.ends /\ Forth(coord, coord')
               /\ Segment(coord).node # "" /\ Coherent(coord')
      BY <1>1, <1>2, <2>1, <2>3, ForthShows DEF IsVariable
    <2> QED BY <1>9, <2>2, <2>3, ChunkCoherent
  <1>10. CASE Flush
    <2>1. /\ stage = "idle" /\ shown' = shown /\ live' = live /\ stage' \in {"flush", "over"}
          /\ \A e \in DOMAIN coord'.ends : coord'.ends[e] = coord.ends[e]
      BY <1>1, <1>10, FlushCoherent DEF Flush, graph
    <2>2. \A e \in Ends : live[Unit(e)] /\ e \in DOMAIN coord.ends => e \in DOMAIN coord'.ends
      BY <1>1, <1>10, FlushKeepsExecuted DEF LiteralsInv
    <2>3. Ends' = Ends
      BY <1>1, SameWorkflow
    <2> QED BY <1>1, <2>1, <2>2, <2>3 DEF Passed, ShowsLiterals, ShowsPart, IsLiteral
  <1>11. ~Replay /\ ~PreActivate /\ \A u \in Units : \A l \in Labels(u[1]) : ~Resume(u, l)
    BY <1>1 DEF Replay, PreActivate, Resume, First
  <1> QED BY <1>4, <1>5, <1>6, <1>8, <1>9, <1>10, <1>11 DEF Next, Fails, Goes, Works

\* The stream ends only when every End that has executed is finished.
LEMMA OverDoneNext ==
  ASSUME StreamInv, TypeInv, LiteralsInv, [Next]_vars PROVE OverDone'
  <1> SUFFICES ASSUME First', stage' = "over"
               PROVE  \A e \in Ends : live'[Unit(e)] => e \notin DOMAIN coord'.ends
    <2>1. Ends' = Ends
      BY SameWf, SameWorkflow
    <2> QED BY <2>1 DEF OverDone
  <1>1. /\ First /\ OverDone /\ Pending
        /\ wf \in Workflows /\ Coherent(coord) /\ AllNoticed(coord)
    BY FirstStep DEF LiteralsInv, TypeInv
  <1>2. CASE UNCHANGED <<live, coord, stage>>
    BY <1>1, <1>2 DEF OverDone
  <1>3. CASE Works \/ UNCHANGED vars
    BY <1>2, <1>3, WorksIs DEF vars
  <1>4. CASE TurnToNext
    <2>1. stage = "flush" /\ coord'.current = NoEnd
      BY <1>4 DEF TurnToNext
    <2> QED BY <1>4, <2>1, FlushTurns
  <1>5. CASE Flush
    <2>1. /\ stage = "idle" /\ coord.current = NoEnd /\ live' = live /\ events = <<>>
          /\ \A u \in Units : at[u] = "done"
      BY <1>5 DEF Flush, graph
    <2>2. ~Awaited /\ ~Held
      <3>1. Len(<<>>) = 0 /\ \A i \in 1..0 : FALSE
        OBVIOUS
      <3> QED BY <2>1, <3>1 DEF Awaited, InEvents, Held
    <2>3. coord.queue = <<>>
      BY <1>1, <2>1, <2>2 DEF Pending, Settled
    <2>4. ASSUME NEW e \in Ends, live[Unit(e)], e \in DOMAIN coord.ends PROVE FALSE
      <3>1. coord.ends[e].active
        BY <1>1, <1>5, <2>4, FlushKeepsExecuted
      <3>2. e # NoEnd
        BY <1>1, WorkflowIs DEF Ends
      <3>3. e \in Range(<<>>)
        BY <1>1, <2>1, <2>3, <2>4, <3>1, <3>2 DEF Coherent, KnownEnds, AllNoticed
      <3> QED BY <3>3 DEF Range
    <2>5. DOMAIN coord'.ends \subseteq DOMAIN coord.ends
      BY <1>1, <1>5, FlushCoherent
    <2> QED BY <2>1, <2>4, <2>5
  <1>6. /\ ~Step /\ ~HandleUpdate /\ ~PassSegment /\ ~ChunkToEnd /\ ~ChunkDirectly
        /\ ~EmitSegment /\ ~Wait /\ ~Replay /\ ~PreActivate
        /\ \A u \in Units : \A l \in Labels(u[1]) : ~Resume(u, l)
    BY DEF Step, HandleUpdate, PassSegment, ChunkToEnd, ChunkDirectly, EmitSegment, Wait, Replay,
           PreActivate, Resume
  <1> QED BY <1>3, <1>4, <1>5, <1>6 DEF Next, Fails, Goes, Works

\* At the start nothing has been shown or passed.
LEMMA LiteralsInvInit == Init => LiteralsInv
  <1> SUFFICES ASSUME Init PROVE LiteralsInv
    OBVIOUS
  <1>1. /\ wf \in Workflows /\ stage = "idle" /\ shown = <<>>
        /\ coord = UpdateScope(NewCoordinator, "sys", "")
    BY DEF Init
  <1>2. DOMAIN coord.ends = Ends /\ \A e \in Ends : coord.ends[e].cursor = 1
    <2>1. PICK c : c = NewCoordinator
      OBVIOUS
    <2>2. Coherent(c) /\ DOMAIN c.ends = Ends /\ \A e \in Ends : c.ends[e].cursor = 1
      BY <1>1, <2>1, NewCoherent
    <2>3. coord = UpdateScope(c, "sys", "")
      BY <1>1, <2>1
    <2>4. Informed(c, coord)
      BY <1>1, <2>2, <2>3, UpdateScopeInforms
    <2> QED BY <2>2, <2>4 DEF Informed
  <1>3. Len(<<>>) = 0 /\ \A i \in 1..0 : FALSE
    OBVIOUS
  <1>4. Wholes /\ OverDone
    BY <1>1, <1>3 DEF Wholes, OverDone
  <1>5. Passed
    <2>1. ASSUME NEW e \in Ends, NEW i \in 1..Len(wf.template[e]) PROVE ~(i < 1)
      <3>1. Len(wf.template[e]) \in Nat
        BY <1>1, WorkflowIs
      <3> QED BY <3>1
    <2> QED BY <1>2, <2>1 DEF Passed, ShowsLiterals
  <1> QED BY <1>4, <1>5, PendingInit DEF LiteralsInv

\* When the stream has ended, each literal of an End that executed has been shown, and
\* the order of the parts leaves room for one of it only.
LEMMA LiteralsCounted ==
  ASSUME StreamInv, TypeInv, LiteralsInv PROVE LiteralsOnce
  <1> SUFFICES ASSUME stage = "over", cut = -1, NEW e \in Ends, live[Unit(e)],
                      NEW i \in 1..Len(wf.template[e]), IsLiteral(e, i)
               PROVE  Cardinality({j \in 1..Len(shown) : shown[j].end = e /\ shown[j].at = i}) = 1
    BY DEF LiteralsOnce, Unit, IsLiteral
  <1>1. First /\ e \notin DOMAIN coord.ends
    BY DEF First, LiteralsInv, OverDone
  <1>2. PICK j \in 1..Len(shown) : shown[j].end = e /\ shown[j].at = i
    BY <1>1 DEF LiteralsInv, Passed, ShowsLiterals, ShowsPart
  <1>3. Len(shown) \in Nat /\ e # NoEnd
    BY Appended, WorkflowIs DEF StreamInv, Shaped, Ends
  <1>4. ASSUME NEW m \in 1..Len(shown), NEW n \in 1..Len(shown), m < n,
               shown[m].end = e, shown[m].at = i, shown[n].end = e, shown[n].at = i
        PROVE  FALSE
    <2>1. m \in 1..(n - 1) /\ n > cut /\ m > cut
      BY <1>3, <1>4
    <2>2. shown[m].k # 0
      BY <1>3, <1>4, <2>1 DEF StreamInv, InTemplateOrder
    <2>3. shown[m].k = 0
      BY <1>4 DEF LiteralsInv, Wholes
    <2> QED BY <2>2, <2>3
  <1>5. {m \in 1..Len(shown) : shown[m].end = e /\ shown[m].at = i} = {j}
    <2>1. ASSUME NEW m \in 1..Len(shown), shown[m].end = e, shown[m].at = i PROVE m = j
      <3>1. m < j \/ j < m \/ m = j
        BY <1>3
      <3> QED BY <1>2, <1>4, <2>1, <3>1
    <2> QED BY <1>2, <2>1
  <1>6. Cardinality({j}) = 1
    BY FS_Singleton
  <1> QED BY <1>5, <1>6

\* Whatever the workflow, and however branches, chunks and updates arrive and calls
\* fail, each literal of the template of each End that executes reaches the client
\* exactly once (stream_output_coordinator.py:399-457, event_stream_handler.py:160-213).
THEOREM LiteralsShownOnce == Spec => []LiteralsOnce
  <1>1. Init => StreamInv /\ TypeInv /\ LiteralsInv
    BY StreamInvInit, TypeInvInit, LiteralsInvInit
  <1>2. StreamInv /\ TypeInv /\ LiteralsInv /\ [Next]_vars => (StreamInv /\ TypeInv /\ LiteralsInv)'
    <2> SUFFICES ASSUME StreamInv, TypeInv, LiteralsInv, [Next]_vars
                 PROVE  (StreamInv /\ TypeInv /\ LiteralsInv)'
      OBVIOUS
    <2>1. Pending /\ Wholes
      BY DEF LiteralsInv
    <2>2. LiteralsInv'
      BY <2>1, PendingNext, PassedNext, WholesNext, OverDoneNext DEF LiteralsInv
    <2> QED BY <2>2, StreamInvNext, TypeInvNext
  <1>3. StreamInv /\ TypeInv /\ LiteralsInv => LiteralsOnce
    BY LiteralsCounted
  <1> QED BY <1>1, <1>2, <1>3, PTL DEF Spec

-----------------------------------------------------------------------------
(* The analysis of the graph *)

\* The nodes before n other than by a branch, and the dependencies of n by those of them.
Others(n) == {e.from : e \in {d \in wf.edges : d.to = n} \ Branches(n)}
Needs(D, n) ==
  LET clean == {m \in Others(n) : D[m].ctrl = {} /\ D[m].outs = {} /\ m \notin Ends}
      direct == {<<e.from, e.label>> : e \in Branches(n)}
  IN  IF wf.kind[n] = "start" \/ clean # {} THEN [ctrl |-> {}, outs |-> {}]
      ELSE [ctrl |-> IF \E m \in Others(n) : D[m].ctrl = {} THEN {}
                     ELSE direct \cup UNION {D[m].ctrl : m \in Others(n)},
            outs |-> (Others(n) \cap Ends) \cup UNION {D[m].outs : m \in Others(n)}]

\* What deps is: a solution of the equation that the recursion stands for.
Solves(D, S) == D = [n \in S |-> Needs(D, n)]
Analysed == Solves(deps, Nodes)

\* A set of nodes is closed if all edges into it begin in it.
Closed(S) == S \in SUBSET Nodes /\ \A n \in S : Others(n) \subseteq S

\* What the argument needs of the edges.
LEMMA EdgesAre ==
  ASSUME wf \in Workflows
  PROVE  /\ \A e \in wf.edges : e.from \in Nodes /\ e.to \in Nodes
         /\ \A n \in Nodes : wf.kind[n] = "start" => n = wf.start
         /\ wf.kind[wf.start] = "start"
         /\ \A S \in SUBSET Nodes : S # {} =>
              \E n \in S : \A e \in wf.edges : e.to = n => e.from \notin S
         /\ \A n \in Nodes : n # wf.start => \E e \in wf.edges : e.to = n
         /\ "sys" \notin Nodes
         /\ \A e \in wf.edges : e.from \in Routing => e.label # ""
         /\ \A e \in wf.edges : e.from \in Models =>
              e.label = "SUCCESS" \/ (e.label = "ERROR" /\ e.from \in wf.guarded)
         /\ Models \subseteq Routing /\ Routing \subseteq Nodes
  <1>1. IsWorkflow(wf) /\ IsValid(wf) /\ IsLabelled(wf)
    BY WorkflowAssumption, ValidAssumption
  <1>2. /\ \A e \in wf.edges : e.from \in Nodes /\ e.to \in Nodes
        /\ wf.kind[wf.start] = "start"
    BY <1>1 DEF IsWorkflow, Nodes
  <1>3. /\ \A n \in Nodes : wf.kind[n] = "start" => n = wf.start
        /\ \A S \in SUBSET Nodes : S # {} =>
             \E n \in S : \A e \in wf.edges : e.to = n => e.from \notin S
        /\ \A n \in Nodes : n # wf.start => \E e \in wf.edges : e.to = n
    BY <1>1 DEF IsValid, Nodes
  <1>4. /\ "sys" \notin Nodes
        /\ \A e \in wf.edges : e.from \in Models =>
             e.label = "SUCCESS" \/ (e.label = "ERROR" /\ e.from \in wf.guarded)
    BY <1>1 DEF IsLabelled, Nodes, Models
  <1>5. \A e \in wf.edges : e.from \in Routing => e.label # ""
    <2>1. "SUCCESS" # "" /\ "ERROR" # ""
      OBVIOUS
    <2>2. \A e \in wf.edges :
            /\ wf.kind[e.from] \in {"branch", "human"} => e.label # ""
            /\ wf.kind[e.from] = "llm" => e.label = "SUCCESS" \/ e.label = "ERROR"
      BY <1>1 DEF IsLabelled
    <2> QED BY <2>1, <2>2 DEF Routing
  <1>6. Models \subseteq Routing /\ Routing \subseteq Nodes
    BY DEF Models, Routing
  <1> QED BY <1>2, <1>3, <1>4, <1>5, <1>6

\* The nodes before a node.
LEMMA OthersAre ==
  ASSUME wf \in Workflows, NEW n, NEW m \in Others(n)
  PROVE  m \in Nodes /\ \E e \in wf.edges : e.to = n /\ e.from = m /\ e \notin Branches(n)
  <1>1. PICK e \in {d \in wf.edges : d.to = n} \ Branches(n) : m = e.from
    BY DEF Others
  <1> QED BY <1>1, EdgesAre

\* What a node needs depends only on the nodes before it.
LEMMA NeedsOfOthers ==
  ASSUME NEW D, NEW E, NEW n, \A m \in Others(n) : D[m] = E[m]
  PROVE  Needs(D, n) = Needs(E, n)
  <1>1. {m \in Others(n) : D[m].ctrl = {} /\ D[m].outs = {} /\ m \notin Ends}
          = {m \in Others(n) : E[m].ctrl = {} /\ E[m].outs = {} /\ m \notin Ends}
    BY Zenon
  <1>2. {D[m].ctrl : m \in Others(n)} = {E[m].ctrl : m \in Others(n)}
    BY Zenon
  <1>3. {D[m].outs : m \in Others(n)} = {E[m].outs : m \in Others(n)}
    BY Zenon
  <1>4. (\E m \in Others(n) : D[m].ctrl = {}) <=> (\E m \in Others(n) : E[m].ctrl = {})
    BY Zenon
  <1> QED BY <1>1, <1>2, <1>3, <1>4, Zenon DEF Needs

\* Two solutions agree where both are defined.
LEMMA SolutionsAgree ==
  ASSUME wf \in Workflows, NEW S, Closed(S), NEW T, Closed(T), NEW D, Solves(D, S),
         NEW E, Solves(E, T), NEW n \in S \cap T
  PROVE  D[n] = E[n]
  <1> DEFINE W == {m \in S \cap T : D[m] # E[m]}
  <1> SUFFICES ASSUME W # {} PROVE FALSE
    OBVIOUS
  <1>1. W \in SUBSET Nodes
    BY DEF Closed
  <1>2. PICK m \in W : \A e \in wf.edges : e.to = m => e.from \notin W
    BY <1>1, EdgesAre
  <1>3. \A k \in Others(m) : k \in S \cap T /\ k \notin W
    BY <1>2, OthersAre DEF Closed
  <1>4. \A k \in Others(m) : D[k] = E[k]
    BY <1>3
  <1>5. D[m] = Needs(D, m) /\ E[m] = Needs(E, m)
    <2>1. m \in S /\ m \in T
      OBVIOUS
    <2> QED BY <2>1 DEF Solves
  <1>6. Needs(D, m) = Needs(E, m)
    BY <1>4, NeedsOfOthers
  <1> QED BY <1>2, <1>5, <1>6

\* There is a solution for all nodes: the union of all that there are can always be
\* extended by a node whose predecessors it knows.
LEMMA AnalysisExists ==
  ASSUME wf \in Workflows PROVE \E D : Solves(D, Nodes)
  <1> DEFINE On(D, n) == \E S \in SUBSET Nodes : Closed(S) /\ n \in S /\ Solves(D, S)
             U == {n \in Nodes : \E D : On(D, n)}
             F == [n \in U |-> (CHOOSE D : On(D, n))[n]]
  <1>1. ASSUME NEW S, Closed(S), NEW D, Solves(D, S)
        PROVE  S \subseteq U /\ \A n \in S : F[n] = D[n]
    <2>1. \A n \in S : On(D, n) /\ n \in Nodes
      BY <1>1 DEF Closed
    <2>2. S \subseteq U
      BY <2>1
    <2>3. ASSUME NEW n \in S PROVE F[n] = D[n]
      <3> DEFINE E == CHOOSE E : On(E, n)
      <3>1. On(E, n)
        <4>1. \E X : On(X, n)
          BY <2>1
        <4> HIDE DEF On
        <4> QED BY <4>1
      <3>2. F[n] = E[n]
        BY <2>2
      <3> HIDE DEF E, F
      <3>3. PICK T \in SUBSET Nodes : Closed(T) /\ n \in T /\ Solves(E, T)
        BY <3>1
      <3>4. D[n] = E[n]
        BY <1>1, <3>3, SolutionsAgree
      <3> QED BY <3>2, <3>4
    <2> QED BY <2>2, <2>3
  <1>2. DOMAIN F = U /\ F = [n \in U |-> F[n]]
    OBVIOUS
  <1>3. ASSUME NEW n \in U PROVE Others(n) \subseteq U /\ F[n] = Needs(F, n)
    <2>1. PICK D, S : S \in SUBSET Nodes /\ Closed(S) /\ n \in S /\ Solves(D, S)
      OBVIOUS
    <2>2. S \subseteq U /\ \A m \in S : F[m] = D[m]
      BY <1>1, <2>1
    <2> HIDE DEF F, U
    <2>3. Others(n) \subseteq S
      BY <2>1 DEF Closed
    <2>4. D[n] = Needs(D, n)
      BY <2>1, Zenon DEF Solves
    <2>5. Needs(D, n) = Needs(F, n)
      BY <2>2, <2>3, NeedsOfOthers
    <2> QED BY <2>1, <2>2, <2>3, <2>4, <2>5
  <1>4. U \subseteq Nodes
    OBVIOUS
  <1>5. U = Nodes
    <2> SUFFICES ASSUME Nodes \ U # {} PROVE FALSE
      BY <1>4
    <2> HIDE DEF U, F
    <2>1. PICK n \in Nodes \ U : \A e \in wf.edges : e.to = n => e.from \notin Nodes \ U
      <3>1. Nodes \ U \in SUBSET Nodes
        OBVIOUS
      <3> QED BY <3>1, EdgesAre
    <2>2. Others(n) \subseteq U
      BY <2>1, OthersAre
    <2> DEFINE S == U \cup {n}
               G == [m \in S |-> Needs(F, m)]
    <2>3. Closed(S)
      BY <1>3, <1>4, <2>2 DEF Closed
    <2>4. ASSUME NEW m \in U PROVE G[m] = F[m]
      BY <1>3
    <2>5. ASSUME NEW m \in S PROVE Needs(F, m) = Needs(G, m)
      <3>1. Others(m) \subseteq U
        BY <1>3, <2>2
      <3> HIDE DEF G
      <3> QED BY <2>4, <3>1, NeedsOfOthers
    <2>6. Solves(G, S)
      <3>1. G = [m \in S |-> Needs(G, m)]
        BY <2>5
      <3> QED BY <3>1 DEF Solves
    <2> HIDE DEF G
    <2>7. n \in S /\ n \notin U
      BY <2>1
    <2> HIDE DEF S
    <2>8. S \subseteq U
      BY <1>1, <2>3, <2>6
    <2> QED BY <2>7, <2>8
  <1> HIDE DEF F, U
  <1>6. Solves(F, Nodes)
    <2>1. F = [n \in Nodes |-> F[n]] /\ \A n \in Nodes : F[n] = Needs(F, n)
      BY <1>2, <1>3, <1>5
    <2> QED BY <2>1 DEF Solves
  <1> QED BY <1>6

\* The analysis solves its equation.
LEMMA AnalysisSolves ==
  ASSUME wf \in Workflows PROVE Solves(Dependencies, Nodes)
  <1>1. Dependencies = CHOOSE D : Solves(D, Nodes)
    BY DEF Dependencies, Solves, Needs, Others
  <1> QED BY <1>1, AnalysisExists

\* Where the branches that decide on a node come from: edges into it, or nodes before it.
LEMMA ControlComes ==
  ASSUME wf \in Workflows, Analysed, NEW n \in Nodes
  PROVE  /\ deps[n].ctrl = {} => n = wf.start \/ \E m \in Others(n) : deps[m].ctrl = {}
         /\ \A x \in deps[n].ctrl : \/ \E e \in Branches(n) : x = <<e.from, e.label>>
                                    \/ \E m \in Others(n) : x \in deps[m].ctrl
  <1>1. deps[n] = Needs(deps, n)
    BY Zenon DEF Analysed, Solves
  <1> DEFINE direct == {<<e.from, e.label>> : e \in Branches(n)}
             all == UNION {deps[m].ctrl : m \in Others(n)}
  <1>2. CASE wf.kind[n] = "start"
    <2>1. n = wf.start
      BY <1>2, EdgesAre
    <2>2. deps[n] = [ctrl |-> {}, outs |-> {}]
      BY <1>1, <1>2, Zenon DEF Needs
    <2> QED BY <2>1, <2>2
  <1>3. ASSUME NEW m \in Others(n), deps[m].ctrl = {} PROVE deps[n].ctrl = {}
    BY <1>1, <1>3 DEF Needs
  <1>4. CASE wf.kind[n] # "start" /\ \A m \in Others(n) : deps[m].ctrl # {}
    <2>1. deps[n].ctrl = direct \cup all
      BY <1>1, <1>4 DEF Needs
    <2>2. ASSUME deps[n].ctrl = {} PROVE FALSE
      <3>1. n # wf.start
        BY <1>4, EdgesAre
      <3>2. PICK e \in wf.edges : e.to = n
        BY <3>1, EdgesAre
      <3>3. e \notin Branches(n)
        <4>1. e \in Branches(n) => <<e.from, e.label>> \in direct
          OBVIOUS
        <4>2. direct = {}
          BY <2>1, <2>2
        <4> HIDE DEF direct
        <4> QED BY <4>1, <4>2
      <3>4. e.from \in Others(n)
        BY <3>2, <3>3 DEF Others
      <3> QED BY <1>4, <2>1, <2>2, <3>4
    <2> QED BY <2>1, <2>2
  <1> QED BY <1>2, <1>3, <1>4

-----------------------------------------------------------------------------
(* What executes *)

\* Units run when those before them have finished, and execute if one of those does and
\* has chosen them.
PredsDone == \A u \in Units : at[u] # "idle" => \A p \in Preds(u) : at[p] = "done"
LivesNow(u) == \/ u = <<wf.start, "">>
               \/ ~IsNode(u) /\ live[<<u[1], "">>] /\ taken[u[1]] = u[2]
               \/ IsNode(u) /\ \E p \in Preds(u) : live[p]
LiveIs == \A u \in Units : at[u] # "idle" => live[u] = LivesNow(u)

\* A node has chosen a branch when it is done; one that is answered has, before that.
TakenIs ==
  /\ taken = [n \in Routing |-> taken[n]]
  /\ \A n \in Routing :
       /\ at[Unit(n)] = "done" /\ live[Unit(n)] => taken[n] # ""
       /\ taken[n] # "" => at[Unit(n)] = "done" \/ (n \notin Models /\ ~First)
SuccessTaken ==
  \A n \in Models \ wf.guarded : at[Unit(n)] = "done" /\ live[Unit(n)] => taken[n] = "SUCCESS"

Executing == PredsDone /\ LiveIs /\ TakenIs /\ SuccessTaken

\* A node before another one, other than by a branch, takes that one along.
LEMMA OtherLive ==
  ASSUME wf \in Workflows, TypeInv, Executing, NEW n \in Nodes, at[Unit(n)] # "idle",
         NEW m \in Others(n)
  PROVE  at[Unit(m)] = "done" /\ (live[Unit(m)] => live[Unit(n)])
  <1>1. PICK e \in wf.edges : e.to = n /\ e.from = m /\ e \notin Branches(n)
    BY OthersAre
  <1>2. m \in Nodes /\ Unit(m) \in Units /\ Unit(n) \in Units /\ Unit(n)[1] = n /\ Unit(n)[2] = ""
    BY OthersAre DEF Units, Unit
  <1>3. \A p \in Preds(Unit(n)) : at[p] = "done" /\ (live[p] => live[Unit(n)])
    <2>1. \A p \in Preds(Unit(n)) : at[p] = "done"
      BY <1>2 DEF Executing, PredsDone
    <2>2. live[Unit(n)] = LivesNow(Unit(n))
      BY <1>2 DEF Executing, LiveIs
    <2> QED BY <1>2, <2>1, <2>2 DEF LivesNow, IsNode
  <1>4. <<e.from, IF e.from \in Routing THEN e.label ELSE "">> \in Preds(Unit(n))
    BY <1>1, <1>2 DEF Preds
  <1>5. CASE m \notin Routing
    BY <1>1, <1>3, <1>4, <1>5 DEF Unit
  <1>6. CASE m \in Routing
    <2>1. m \in Models /\ m \notin wf.guarded
      BY <1>1, <1>2, <1>6 DEF Branches, Models
    <2>2. e.label = "SUCCESS"
      BY <1>1, <2>1, EdgesAre
    <2> DEFINE p == <<m, "SUCCESS">>
    <2>3. p \in Preds(Unit(n)) /\ p \in Units /\ p[1] = m /\ p[2] = "SUCCESS" /\ p[2] # ""
      BY <1>1, <1>4, <1>6, <2>2 DEF Units
    <2>4. p # <<wf.start, "">> /\ ~IsNode(p) /\ Unit(m) \in Preds(p)
      BY <2>3 DEF IsNode, Preds, Unit
    <2> HIDE DEF p
    <2>5. at[p] = "done" /\ (live[p] => live[Unit(n)])
      BY <1>3, <2>3
    <2>6. at[Unit(m)] = "done"
      BY <2>3, <2>4, <2>5 DEF Executing, PredsDone
    <2>7. live[p] = (live[Unit(m)] /\ taken[m] = "SUCCESS")
      <3>1. live[p] = LivesNow(p)
        BY <2>3, <2>5 DEF Executing, LiveIs
      <3> QED BY <2>3, <2>4, <3>1, Zenon DEF LivesNow, Unit
    <2>8. live[Unit(m)] => taken[m] = "SUCCESS"
      BY <2>1, <2>6 DEF Executing, SuccessTaken
    <2> QED BY <2>5, <2>6, <2>7, <2>8
  <1> QED BY <1>5, <1>6

\* A branch takes the node behind it along if it is chosen.
LEMMA BranchLive ==
  ASSUME wf \in Workflows, TypeInv, Executing, NEW n \in Nodes, at[Unit(n)] # "idle",
         NEW e \in Branches(n)
  PROVE  /\ at[Unit(e.from)] = "done"
         /\ live[Unit(e.from)] /\ taken[e.from] = e.label => live[Unit(n)]
  <1> DEFINE m == e.from
             p == <<m, e.label>>
  <1>1. e \in wf.edges /\ e.to = n /\ m \in Routing /\ e.label # "" /\ m \in Nodes
    BY EdgesAre DEF Branches
  <1>2. Unit(m) \in Units /\ Unit(n) \in Units /\ Unit(n)[1] = n /\ Unit(n)[2] = ""
    BY <1>1 DEF Units, Unit
  <1>3. p \in Preds(Unit(n)) /\ p \in Units /\ p[1] = m /\ p[2] = e.label /\ p[2] # ""
    BY <1>1, <1>2 DEF Preds, Units
  <1>4. p # <<wf.start, "">> /\ ~IsNode(p) /\ Unit(m) \in Preds(p)
    BY <1>3 DEF IsNode, Preds, Unit
  <1> HIDE DEF m, p
  <1>5. at[p] = "done"
    BY <1>2, <1>3 DEF Executing, PredsDone
  <1>6. at[Unit(m)] = "done"
    BY <1>3, <1>4, <1>5 DEF Executing, PredsDone
  <1>7. live[p] => live[Unit(n)]
    <2>1. live[Unit(n)] = LivesNow(Unit(n))
      BY <1>2 DEF Executing, LiveIs
    <2> QED BY <1>2, <1>3, <2>1 DEF LivesNow, IsNode
  <1>8. live[p] = (live[Unit(m)] /\ taken[m] = e.label)
    <2>1. live[p] = LivesNow(p)
      BY <1>3, <1>5 DEF Executing, LiveIs
    <2> QED BY <1>3, <1>4, <2>1, Zenon DEF LivesNow, Unit
  <1> QED BY <1>6, <1>7, <1>8 DEF m

\* A set of nodes has one that no edge enters from the set.
LEMMA FirstNode ==
  ASSUME wf \in Workflows, NEW W \in SUBSET Nodes, W # {}
  PROVE  \E n \in W : \A m \in Others(n) : m \in Nodes \ W
  <1>1. PICK n \in W : \A e \in wf.edges : e.to = n => e.from \notin W
    BY EdgesAre
  <1> QED BY <1>1, OthersAre

\* A node that no branch decides on executes.
LEMMA FreeLive ==
  ASSUME wf \in Workflows, TypeInv, Executing, Analysed
  PROVE  \A n \in Nodes : deps[n].ctrl = {} /\ at[Unit(n)] # "idle" => live[Unit(n)]
  <1> DEFINE W == {n \in Nodes : deps[n].ctrl = {} /\ at[Unit(n)] # "idle" /\ ~live[Unit(n)]}
  <1> SUFFICES ASSUME W # {} PROVE FALSE
    OBVIOUS
  <1>1. PICK n \in W : \A m \in Others(n) : m \in Nodes \ W
    <2>1. W \in SUBSET Nodes
      OBVIOUS
    <2> HIDE DEF W
    <2> QED BY <2>1, FirstNode
  <1>2. CASE n = wf.start
    <2>1. Unit(n) \in Units /\ Unit(n) = <<wf.start, "">>
      BY <1>2 DEF Units, Unit
    <2>2. live[Unit(n)] = LivesNow(Unit(n))
      BY <1>1, <2>1 DEF Executing, LiveIs
    <2> QED BY <1>1, <2>1, <2>2 DEF LivesNow
  <1>3. CASE n # wf.start
    <2>1. PICK m \in Others(n) : deps[m].ctrl = {}
      BY <1>1, <1>3, ControlComes
    <2>2. at[Unit(m)] = "done" /\ (live[Unit(m)] => live[Unit(n)])
      BY <1>1, OtherLive
    <2> QED BY <1>1, <2>1, <2>2
  <1> QED BY <1>2, <1>3

\* A branch that decides on a node is an edge, it is resolved before the node runs, and
\* if it is chosen, the node executes.
LEMMA ControlLive ==
  ASSUME wf \in Workflows, TypeInv, Executing, Analysed
  PROVE  \A n \in Nodes : \A x \in deps[n].ctrl :
           /\ \E e \in wf.edges : /\ e.from \in Routing /\ x = <<e.from, e.label>>
                                  /\ e.from \in Models => e.from \in wf.guarded
           /\ at[Unit(n)] # "idle" /\ live[Unit(x[1])] /\ taken[x[1]] = x[2] => live[Unit(n)]
  <1> DEFINE Edge(x) == \E e \in wf.edges : /\ e.from \in Routing /\ x = <<e.from, e.label>>
                                            /\ e.from \in Models => e.from \in wf.guarded
             Takes(n, x) == at[Unit(n)] # "idle" /\ live[Unit(x[1])] /\ taken[x[1]] = x[2]
                              => live[Unit(n)]
  <1> SUFFICES ASSUME NEW x PROVE \A n \in Nodes : x \in deps[n].ctrl => Edge(x) /\ Takes(n, x)
    OBVIOUS
  <1> DEFINE W == {n \in Nodes : x \in deps[n].ctrl /\ ~(Edge(x) /\ Takes(n, x))}
  <1> SUFFICES ASSUME W # {} PROVE FALSE
    OBVIOUS
  <1>1. PICK n \in W : \A m \in Others(n) : m \in Nodes \ W
    <2>1. W \in SUBSET Nodes
      OBVIOUS
    <2> HIDE DEF W
    <2> QED BY <2>1, FirstNode
  <1>2. CASE \E e \in Branches(n) : x = <<e.from, e.label>>
    <2>1. PICK e \in Branches(n) : x = <<e.from, e.label>>
      BY <1>2
    <2>2. x[1] = e.from /\ x[2] = e.label
      BY <2>1
    <2>3. Edge(x)
      BY <2>1 DEF Branches, Models
    <2>4. Takes(n, x)
      BY <1>1, <2>2, BranchLive
    <2> QED BY <1>1, <2>3, <2>4
  <1>3. CASE \E m \in Others(n) : x \in deps[m].ctrl
    <2>1. PICK m \in Others(n) : x \in deps[m].ctrl
      BY <1>3
    <2>2. Edge(x) /\ Takes(m, x)
      BY <1>1, <2>1
    <2>3. at[Unit(n)] # "idle" => at[Unit(m)] = "done" /\ (live[Unit(m)] => live[Unit(n)])
      BY <1>1, OtherLive
    <2>4. Takes(n, x)
      BY <2>2, <2>3
    <2> QED BY <1>1, <2>2, <2>4
  <1> QED BY <1>1, <1>2, <1>3, ControlComes

\* Units that come before a unit are units, and a node's unit is that of its name.
LEMMA UnitsAre ==
  ASSUME wf \in Workflows, NEW u \in Units
  PROVE  /\ Preds(u) \subseteq Units /\ u[1] \in Nodes
         /\ IsNode(u) => u = Unit(u[1])
         /\ ~IsNode(u) => u[1] \in Routing /\ Unit(u[1]) \in Preds(u)
  <1>1. u[1] \in Nodes
    BY UnitNode
  <1>2. (IsNode(u) => u = Unit(u[1])) /\ (~IsNode(u) => u[1] \in Routing)
    <2>1. CASE \E n \in Nodes : u = <<n, "">>
      <3>1. PICK n \in Nodes : u = <<n, "">>
        BY <2>1
      <3>2. u[1] = n /\ u[2] = ""
        BY <3>1
      <3> QED BY <3>1, <3>2 DEF IsNode, Unit
    <2>2. CASE \E e \in wf.edges : e.from \in Routing /\ u = <<e.from, e.label>>
      <3>1. PICK e \in wf.edges : e.from \in Routing /\ u = <<e.from, e.label>>
        BY <2>2
      <3>2. u[1] = e.from /\ u[2] = e.label /\ e.label # ""
        BY <3>1, EdgesAre
      <3> QED BY <3>1, <3>2 DEF IsNode
    <2> QED BY <2>1, <2>2 DEF Units
  <1>3. CASE u[2] # ""
    <2>1. Preds(u) = {<<u[1], "">>} /\ <<u[1], "">> \in Units
      BY <1>1, <1>3 DEF Preds, Units
    <2> QED BY <1>1, <1>2, <2>1 DEF Unit
  <1>4. CASE u[2] = ""
    <2>1. ASSUME NEW p \in Preds(u) PROVE p \in Units
      <3>1. PICK e \in wf.edges : p = <<e.from, IF e.from \in Routing THEN e.label ELSE "">>
        BY <1>4, <2>1 DEF Preds
      <3>2. e.from \in Nodes
        BY EdgesAre
      <3> QED BY <3>1, <3>2 DEF Units
    <2> QED BY <1>1, <1>2, <1>4, <2>1 DEF IsNode
  <1> QED BY <1>3, <1>4

\* Whether a unit executes depends on the units before it and on their choices.
LEMMA LivesSame ==
  ASSUME wf \in Workflows, wf' = wf, NEW u \in Units, \A p \in Preds(u) : live'[p] = live[p],
         ~IsNode(u) => taken'[u[1]] = taken[u[1]]
  PROVE  LivesNow(u)' = LivesNow(u) /\ Preds(u)' = Preds(u)
  <1>1. Preds(u)' = Preds(u)
    <2>1. Routing' = Routing
      BY SameWorkflow
    <2> QED BY <2>1 DEF Preds
  <1>2. CASE IsNode(u)
    BY <1>1, <1>2 DEF LivesNow, IsNode
  <1>3. CASE ~IsNode(u)
    <2>1. live'[<<u[1], "">>] = live[<<u[1], "">>]
      BY <1>3, UnitsAre DEF Unit
    <2> QED BY <1>1, <1>3, <2>1 DEF LivesNow, IsNode
  <1> QED BY <1>2, <1>3

\* A choice is made once, by a node that runs.
Chooses(n, l) == /\ n \in Routing /\ at[Unit(n)] = "run" /\ live[Unit(n)] /\ taken[n] = ""
                 /\ l # "" /\ taken' = [taken EXCEPT ![n] = l]
                 /\ n \in Models => l = "SUCCESS" \/ n \in wf.guarded
                 /\ at'[Unit(n)] = "done" \/ (n \notin Models /\ ~First')

LEMMA TakenNext ==
  ASSUME StreamInv, TypeInv, Executing, [Next]_vars
  PROVE  taken' = taken \/ \E n, l : Chooses(n, l)
  <1>1. wf \in Workflows
    BY DEF TypeInv
  <1>2. ASSUME NEW n \in Routing, NEW l \in Labels(n) PROVE l # ""
    <2>1. PICK e \in wf.edges : e.from = n /\ l = e.label
      BY DEF Labels
    <2> QED BY <1>1, <2>1, EdgesAre
  <1>3. ASSUME NEW u \in Units, Finish(u) PROVE taken' = taken \/ \E n, l : Chooses(n, l)
    <2>1. CASE IsNode(u) /\ live[u] /\ u[1] \in Routing /\ taken[u[1]] = ""
      <3>1. PICK l \in Routes(u[1]) : taken' = [taken EXCEPT ![u[1]] = l]
        BY <1>3, <2>1 DEF Finish
      <3>2. l # ""
        <4>1. CASE l \in Labels(u[1])
          BY <1>2, <2>1, <4>1
        <4>2. CASE l \notin Labels(u[1])
          BY <3>1, <4>2 DEF Routes
        <4> QED BY <4>1, <4>2
      <3>3. at[u] = "run" /\ u = Unit(u[1])
        BY <1>1, <1>3, <2>1, UnitsAre DEF Finish
      <3>4. at'[u] = "done"
        BY <1>3 DEF Finish, TypeInv, GraphTyped
      <3>5. u[1] \in Models => l = "SUCCESS" \/ u[1] \in wf.guarded
        BY <3>1 DEF Routes, Models
      <3> QED BY <2>1, <3>1, <3>2, <3>3, <3>4, <3>5 DEF Chooses
    <2>2. CASE ~(IsNode(u) /\ live[u] /\ u[1] \in Routing /\ taken[u[1]] = "")
      BY <1>3, <2>2 DEF Finish
    <2> QED BY <2>1, <2>2
  <1>4. ASSUME NEW u \in Units, NEW l \in Labels(u[1]), Resume(u, l) PROVE Chooses(u[1], l)
    <2>1. /\ IsNode(u) /\ wf.kind[u[1]] = "human" /\ live[u] /\ cut = -1 /\ stage = "idle"
          /\ u \in Running /\ taken' = [taken EXCEPT ![u[1]] = l]
      BY <1>4 DEF Resume, Interrupting
    <2>2. u = Unit(u[1]) /\ u[1] \in Routing /\ at[u] = "run" /\ First
      BY <1>1, <2>1, UnitsAre DEF Running, Routing, First
    <2>3. taken[u[1]] = ""
      BY <2>2 DEF Executing, TakenIs
    <2>4. l # ""
      BY <1>2, <2>2
    <2>5. u[1] \notin Models /\ ~First'
      BY <1>4, <2>1 DEF Models, Resume, First
    <2> QED BY <2>1, <2>2, <2>3, <2>4, <2>5 DEF Chooses
  <1>5. CASE \/ HandleUpdate \/ PassSegment \/ ChunkToEnd \/ ChunkDirectly \/ EmitSegment
             \/ TurnToNext \/ Wait \/ Flush \/ Replay
    BY <1>5, ConsumerIs DEF graph
  <1>6. CASE \/ Step \/ PreActivate \/ UNCHANGED vars
             \/ \E n \in Models : Chunk(n) \/ AttemptFails(n)
    BY <1>6 DEF Step, PreActivate, Chunk, AttemptFails, vars
  <1> QED BY <1>3, <1>4, <1>5, <1>6 DEF Next, Fails, Goes

\* A routing node that executes has chosen when it finishes.
LEMMA FinishTakes ==
  ASSUME TypeInv, Executing, NEW n \in Routing, Finish(Unit(n)), live[Unit(n)]
  PROVE  taken'[n] # "" /\ (n \in Models \ wf.guarded => taken'[n] = "SUCCESS")
  <1>1. IsNode(Unit(n)) /\ Unit(n)[1] = n /\ at[Unit(n)] = "run" /\ wf \in Workflows
    BY DEF Unit, IsNode, Finish, TypeInv
  <1>2. taken = [m \in Routing |-> taken[m]]
    BY DEF Executing, TakenIs
  <1>3. CASE taken[n] = ""
    <2>1. PICK l \in Routes(n) : taken' = [taken EXCEPT ![n] = l]
      BY <1>1, <1>3 DEF Finish
    <2>2. taken'[n] = l
      BY <1>2, <2>1
    <2>3. l # ""
      <3>1. CASE l \in Labels(n)
        <4>1. PICK e \in wf.edges : e.from = n /\ l = e.label
          BY <3>1 DEF Labels
        <4> QED BY <1>1, <4>1, EdgesAre
      <3>2. CASE l \notin Labels(n)
        BY <2>1, <3>2 DEF Routes
      <3> QED BY <3>1, <3>2
    <2>4. n \in Models \ wf.guarded => l = "SUCCESS"
      BY <2>1 DEF Routes, Models
    <2> QED BY <2>2, <2>3, <2>4
  <1>4. CASE taken[n] # ""
    <2>1. n \notin Models
      BY <1>1, <1>4 DEF Executing, TakenIs
    <2>2. taken' = taken
      BY <1>1, <1>4 DEF Finish
    <2> QED BY <1>4, <2>1, <2>2
  <1> QED BY <1>3, <1>4

\* The graph goes on by a superstep, by a unit that finishes, or not at all.
Starts(u) == at[u] = "idle" /\ \A p \in Preds(u) : at[p] = "done"
LEMMA ProgressIs ==
  ASSUME TypeInv, [Next]_vars
  PROVE  \/ UNCHANGED <<at, live>>
         \/ /\ live' = live
            /\ \E u \in Units : Finish(u) /\ at[u] = "run" /\ at' = [at EXCEPT ![u] = "done"]
         \/ /\ Step /\ taken' = taken
            /\ at' = [u \in Units |-> IF Starts(u) THEN "run" ELSE at[u]]
            /\ live' = [u \in Units |-> IF Starts(u) THEN LivesNow(u) ELSE live[u]]
  <1>1. CASE Step
    <2> DEFINE ready == {u \in Units : at[u] = "idle" /\ \A p \in Preds(u) : at[p] = "done"}
    <2>1. /\ at' = [u \in Units |-> IF u \in ready THEN "run" ELSE at[u]]
          /\ live' = [u \in Units |-> IF u \in ready THEN LivesNow(u) ELSE live[u]]
          /\ taken' = taken
      BY <1>1 DEF Step, LivesNow
    <2>2. \A u \in Units : u \in ready <=> Starts(u)
      BY DEF Starts
    <2> HIDE DEF ready
    <2> QED BY <1>1, <2>1, <2>2
  <1>2. ASSUME NEW u \in Units, Finish(u)
        PROVE  live' = live /\ at[u] = "run" /\ at' = [at EXCEPT ![u] = "done"]
    BY <1>2 DEF Finish
  <1>3. CASE \E n \in Models : Chunk(n) \/ AttemptFails(n)
    BY <1>3 DEF Chunk, AttemptFails
  <1>4. CASE \/ HandleUpdate \/ PassSegment \/ ChunkToEnd \/ ChunkDirectly \/ EmitSegment
             \/ TurnToNext \/ Wait \/ Flush \/ Replay
    BY <1>4, ConsumerIs DEF graph
  <1>5. CASE \/ PreActivate \/ UNCHANGED vars
             \/ \E u \in Units : \E l \in Labels(u[1]) : Resume(u, l)
    BY <1>5 DEF PreActivate, Resume, vars
  <1> QED BY <1>1, <1>2, <1>3, <1>4, <1>5 DEF Next, Fails, Goes

\* What has started has, what is done stays so, and what a unit executes is settled when
\* it starts.
LEMMA ProgressKeeps ==
  ASSUME TypeInv, [Next]_vars, NEW u \in Units
  PROVE  /\ at[u] # "idle" => at'[u] # "idle" /\ live'[u] = live[u]
         /\ at[u] = "done" => at'[u] = "done"
         /\ at[u] = "idle" /\ at'[u] # "idle" => Starts(u) /\ live'[u] = LivesNow(u) /\ taken' = taken
         /\ at'[u] = "done" => at[u] = "done" \/ (Finish(u) /\ at[u] = "run")
  <1>1. at \in [Units -> {"idle", "run", "done"}]
    BY DEF TypeInv, GraphTyped
  <1>2. CASE UNCHANGED <<at, live>>
    BY <1>2
  <1>3. CASE live' = live /\ \E v \in Units : Finish(v) /\ at[v] = "run" /\ at' = [at EXCEPT ![v] = "done"]
    BY <1>1, <1>3
  <1>4. CASE /\ taken' = taken
             /\ at' = [v \in Units |-> IF Starts(v) THEN "run" ELSE at[v]]
             /\ live' = [v \in Units |-> IF Starts(v) THEN LivesNow(v) ELSE live[v]]
    <2>1. /\ at'[u] = IF Starts(u) THEN "run" ELSE at[u]
          /\ live'[u] = IF Starts(u) THEN LivesNow(u) ELSE live[u]
      BY <1>4
    <2>2. Starts(u) => at[u] = "idle"
      BY DEF Starts
    <2> QED BY <1>4, <2>1, <2>2
  <1> QED BY <1>2, <1>3, <1>4, ProgressIs

\* A choice that has been made stays.
LEMMA TakenStays ==
  ASSUME StreamInv, TypeInv, Executing, [Next]_vars, NEW n \in Routing, taken[n] # ""
  PROVE  taken'[n] = taken[n]
  <1>1. taken = [m \in Routing |-> taken[m]]
    BY DEF Executing, TakenIs
  <1>2. ASSUME NEW m, NEW l, Chooses(m, l) PROVE taken'[n] = taken[n]
    BY <1>1, <1>2 DEF Chooses
  <1> QED BY <1>2, TakenNext

\* Every step keeps what executes to what has been chosen.
LEMMA ExecutingNext ==
  ASSUME StreamInv, TypeInv, Executing, [Next]_vars PROVE Executing'
  <1>1. wf' = wf /\ wf \in Workflows /\ Units' = Units /\ Routing' = Routing /\ Models' = Models
    BY SameWf, SameWorkflow DEF TypeInv
  <1>2. ASSUME NEW u \in Units
        PROVE  Preds(u)' = Preds(u) /\ Preds(u) \subseteq Units
    <2>1. Preds(u)' = Preds(u)
      BY <1>1 DEF Preds
    <2> QED BY <1>1, <2>1, UnitsAre
  <1>3. ASSUME NEW u \in Units, at'[u] # "idle"
        PROVE  \A p \in Preds(u) : at[p] = "done" /\ at'[p] = "done" /\ live'[p] = live[p]
    <2>1. ASSUME NEW p \in Preds(u) PROVE at[p] = "done"
      <3>1. CASE at[u] # "idle"
        BY <3>1 DEF Executing, PredsDone
      <3>2. CASE at[u] = "idle"
        BY <1>3, <3>2, ProgressKeeps DEF Starts
      <3> QED BY <3>1, <3>2
    <2> QED BY <1>2, <2>1, ProgressKeeps
  <1>4. PredsDone'
    BY <1>1, <1>2, <1>3 DEF PredsDone
  <1>5. LiveIs'
    <2> SUFFICES ASSUME NEW u \in Units, at'[u] # "idle" PROVE live'[u] = LivesNow(u)'
      BY <1>1 DEF LiveIs
    <2>1. ~IsNode(u) => taken'[u[1]] = taken[u[1]]
      <3> SUFFICES ASSUME ~IsNode(u) PROVE taken'[u[1]] = taken[u[1]]
        OBVIOUS
      <3>1. at[Unit(u[1])] = "done" /\ u[1] \in Routing
        BY <1>1, <1>3, UnitsAre
      <3>2. taken = [m \in Routing |-> taken[m]]
        BY DEF Executing, TakenIs
      <3>3. ASSUME NEW m, NEW l, Chooses(m, l) PROVE taken'[u[1]] = taken[u[1]]
        BY <3>1, <3>2, <3>3 DEF Chooses
      <3> QED BY <3>3, TakenNext
    <2>2. LivesNow(u)' = LivesNow(u)
      BY <1>1, <1>3, <2>1, LivesSame
    <2>3. CASE at[u] # "idle"
      BY <2>2, <2>3, ProgressKeeps DEF Executing, LiveIs
    <2>4. CASE at[u] = "idle"
      BY <2>2, <2>4, ProgressKeeps
    <2> QED BY <2>3, <2>4
  <1>6. \A n \in Routing : Unit(n) \in Units
    BY DEF Routing, Unit, Units
  <1>7. taken = [m \in Routing |-> taken[m]]
    BY DEF Executing, TakenIs
  <1>8. ASSUME NEW n \in Routing, at'[Unit(n)] = "done", live'[Unit(n)]
        PROVE  taken'[n] # "" /\ (n \in Models \ wf.guarded => taken'[n] = "SUCCESS")
    <2>1. CASE at[Unit(n)] = "done"
      <3>1. live[Unit(n)]
        BY <1>6, <1>8, <2>1, ProgressKeeps
      <3>2. taken[n] # "" /\ (n \in Models \ wf.guarded => taken[n] = "SUCCESS")
        BY <2>1, <3>1 DEF Executing, TakenIs, SuccessTaken
      <3> QED BY <3>2, TakenStays
    <2>2. CASE at[Unit(n)] # "done"
      <3>1. Finish(Unit(n)) /\ at[Unit(n)] = "run"
        BY <1>6, <1>8, <2>2, ProgressKeeps
      <3>2. live[Unit(n)]
        BY <1>6, <1>8, <3>1, ProgressKeeps
      <3> QED BY <3>1, <3>2, FinishTakes
    <2> QED BY <2>1, <2>2
  <1>9. ASSUME NEW n \in Routing, taken'[n] # ""
        PROVE  at'[Unit(n)] = "done" \/ (n \notin Models /\ ~First')
    <2>1. CASE taken[n] # ""
      <3>1. at[Unit(n)] = "done" \/ (n \notin Models /\ ~First)
        BY <2>1 DEF Executing, TakenIs
      <3>2. ~First => ~First'
        BY FirstStep
      <3> QED BY <1>6, <3>1, <3>2, ProgressKeeps
    <2>2. CASE taken[n] = ""
      <3>1. PICK m, l : Chooses(m, l)
        BY <1>9, <2>2, TakenNext
      <3>2. n = m
        BY <1>7, <1>9, <2>2, <3>1 DEF Chooses
      <3> QED BY <3>1, <3>2 DEF Chooses
    <2> QED BY <2>1, <2>2
  <1>10. taken' = [m \in Routing |-> taken'[m]]
    <2>1. ASSUME NEW m, NEW l, Chooses(m, l) PROVE taken' = [k \in Routing |-> taken'[k]]
      BY <1>7, <2>1 DEF Chooses
    <2> QED BY <1>7, <2>1, TakenNext
  <1>11. TakenIs'
    BY <1>1, <1>8, <1>9, <1>10 DEF TakenIs
  <1>12. SuccessTaken'
    <2>1. Models \subseteq Routing
      BY <1>1, EdgesAre
    <2> QED BY <1>1, <1>8, <2>1 DEF SuccessTaken
  <1> QED BY <1>4, <1>5, <1>11, <1>12 DEF Executing

LEMMA ExecutingInit == ASSUME Init PROVE Executing /\ Analysed
  <1>1. /\ at = [u \in Units |-> "idle"] /\ taken = [n \in Routing |-> ""]
        /\ wf \in Workflows /\ deps = Dependencies
    BY DEF Init
  <1>2. \A n \in Routing : Unit(n) \in Units /\ at[Unit(n)] = "idle"
    BY <1>1 DEF Routing, Unit, Units
  <1>3. Models \subseteq Routing
    BY <1>1, EdgesAre
  <1>4. PredsDone /\ LiveIs
    BY <1>1 DEF PredsDone, LiveIs
  <1>5. TakenIs /\ SuccessTaken
    BY <1>1, <1>2, <1>3 DEF TakenIs, SuccessTaken
  <1>6. Analysed
    BY <1>1, AnalysisSolves DEF Analysed
  <1> QED BY <1>4, <1>5, <1>6 DEF Executing

-----------------------------------------------------------------------------
(* What is shown was chosen *)

\* A branch is decided when its node has run and chosen it; an End is chosen when it
\* runs, or a branch that leads to it is, or none decides on it.
Began(n) == live[Unit(n)] /\ at[Unit(n)] # "idle"
Decided(x) == x[1] \in Routing /\ x[2] # "" /\ taken[x[1]] = x[2] /\ Began(x[1])
Chosen(e) == deps[e].ctrl = {} \/ Began(e) \/ \E x \in deps[e].ctrl : Decided(x)

\* The coordinator holds that a branch has led to an End.
Claims(c, e) == c.ends[e].branched \/ c.ends[e].active
Justified == \A e \in DOMAIN coord.ends : Claims(coord, e) => Chosen(e)

\* Every part belongs to an End that was chosen, or is a chunk that such a one wants.
Wanted(p) == \E e \in Ends :
               /\ Chosen(e)
               /\ IF p.end = NoEnd
                  THEN [node |-> p.node, field |-> p.field] \in Range(wf.template[e])
                  ELSE p.end = e
ShownChosen == \A i \in 1..Len(shown) : Wanted(shown[i])

\* Updates are those of units that have run, as are the nodes in the pool.
UpdatesBegun ==
  /\ \A i \in 1..Len(events) : ~IsChunk(events[i]) =>
       events[i].unit \in Units /\ at[events[i].unit] # "idle"
  /\ \A n \in pool \cap Nodes : at[Unit(n)] # "idle"
  /\ stage = "replay" => \A i \in 1..Len(events) : ~IsChunk(events[i])

\* While the coordinator is rebuilt the node that interrupts has been answered, and
\* nothing else runs.
Answering ==
  stage = "replay" =>
    \A u \in Units : /\ Interrupting(u) => at[u] = "run" /\ taken[u[1]] # ""
                     /\ at[u] = "run" => Interrupting(u)

\* At the end of the stream all units have finished.
AllDone == stage \in {"flush", "over"} => \A u \in Units : at[u] = "done"

\* What is chosen executes once it runs.
LEMMA ChosenLive ==
  ASSUME wf \in Workflows, TypeInv, Executing, Analysed, NEW e \in Nodes, Chosen(e),
         at[Unit(e)] # "idle"
  PROVE  live[Unit(e)]
  <1>1. CASE deps[e].ctrl = {}
    BY <1>1, FreeLive
  <1>2. CASE Began(e)
    BY <1>2 DEF Began
  <1>3. CASE \E x \in deps[e].ctrl : Decided(x)
    <2>1. PICK x \in deps[e].ctrl : live[Unit(x[1])] /\ taken[x[1]] = x[2]
      BY <1>3 DEF Decided, Began
    <2> QED BY <2>1, ControlLive
  <1> QED BY <1>1, <1>2, <1>3 DEF Chosen

\* The analysis is not repeated.
LEMMA AnalysedNext ==
  ASSUME TypeInv, Analysed, [Next]_vars
  PROVE  Analysed' /\ deps' = deps /\ wf' = wf
  <1>1. wf' = wf
    BY SameWf
  <1>2. deps' = deps
    BY DEF Next, Fails, Goes, Step, Chunk, AttemptFails, Finish, Resume, HandleUpdate,
           PassSegment, ChunkToEnd, ChunkDirectly, EmitSegment, TurnToNext, Wait, Flush, Replay,
           PreActivate, graph, vars
  <1>3. Nodes' = Nodes /\ Ends' = Ends /\ Routing' = Routing
    BY <1>1, SameWorkflow
  <1>4. ASSUME NEW n PROVE Branches(n)' = Branches(n) /\ Others(n)' = Others(n)
    BY <1>1, <1>3 DEF Branches, Others
  <1>5. ASSUME NEW n PROVE Needs(deps, n)' = Needs(deps, n)
    <2>1. PICK D, E, B, O : D = deps /\ E = Ends /\ B = Branches(n) /\ O = Others(n)
      OBVIOUS
    <2>2. deps' = D /\ Ends' = E /\ Branches(n)' = B /\ Others(n)' = O /\ wf' = wf
      BY <1>1, <1>2, <1>3, <1>4, <2>1
    <2>3. Needs(deps, n) =
            IF wf.kind[n] = "start"
                 \/ {m \in O : D[m].ctrl = {} /\ D[m].outs = {} /\ m \notin E} # {}
            THEN [ctrl |-> {}, outs |-> {}]
            ELSE [ctrl |-> IF \E m \in O : D[m].ctrl = {} THEN {}
                           ELSE {<<e.from, e.label>> : e \in B} \cup UNION {D[m].ctrl : m \in O},
                  outs |-> (O \cap E) \cup UNION {D[m].outs : m \in O}]
      BY <2>1, Zenon DEF Needs
    <2>4. Needs(deps, n)' =
            IF wf.kind[n] = "start"
                 \/ {m \in O : D[m].ctrl = {} /\ D[m].outs = {} /\ m \notin E} # {}
            THEN [ctrl |-> {}, outs |-> {}]
            ELSE [ctrl |-> IF \E m \in O : D[m].ctrl = {} THEN {}
                           ELSE {<<e.from, e.label>> : e \in B} \cup UNION {D[m].ctrl : m \in O},
                  outs |-> (O \cap E) \cup UNION {D[m].outs : m \in O}]
      BY <2>2, Zenon DEF Needs
    <2> QED BY <2>3, <2>4
  <1>6. Analysed'
    BY <1>2, <1>3, <1>5 DEF Analysed, Solves
  <1> QED BY <1>1, <1>2, <1>6

\* What is chosen stays so.
LEMMA ChosenStays ==
  ASSUME StreamInv, TypeInv, Executing, Analysed, [Next]_vars, NEW e \in Nodes, Chosen(e)
  PROVE  Chosen(e)'
  <1>1. deps' = deps /\ Routing' = Routing
    BY AnalysedNext, SameWorkflow
  <1>2. ASSUME NEW n \in Nodes, Began(n) PROVE Began(n)'
    <2>1. Unit(n) \in Units
      BY DEF Unit, Units
    <2> QED BY <1>2, <2>1, ProgressKeeps DEF Began
  <1>3. ASSUME NEW x, Decided(x) PROVE Decided(x)'
    <2>1. x[1] \in Routing /\ x[1] \in Nodes
      BY <1>3 DEF Decided, Routing
    <2>2. taken'[x[1]] = taken[x[1]]
      BY <1>3, <2>1, TakenStays DEF Decided
    <2> QED BY <1>1, <1>2, <1>3, <2>1, <2>2 DEF Decided
  <1> QED BY <1>1, <1>2, <1>3 DEF Chosen

\* What a scope activates: its own End, or one that its branch leads to.
LEMMA NoticeClaims ==
  ASSUME NEW o, IsOutput(o), NEW e, NEW scope, NEW status
  PROVE  Notice(o, e, scope, status).branched \/ Notice(o, e, scope, status).active
           => o.branched \/ o.active \/ scope = e \/ <<scope, status>> \in deps[e].ctrl
  <1> DEFINE branched == o.branched \/ <<scope, status>> \in deps[e].ctrl
             outs == o.outs \ {scope}
  <1>1. CASE o.force
    BY <1>1 DEF Notice
  <1>2. CASE ~o.force /\ scope # e
    <2>1. Notice(o, e, scope, status) =
            [o EXCEPT !.branched = branched, !.outs = outs, !.heard = @ \cup {scope},
                      !.active = o.active \/ (branched /\ outs = {})]
      BY <1>2 DEF Notice
    <2> HIDE DEF outs
    <2>2. branched <=> o.branched \/ <<scope, status>> \in deps[e].ctrl
      OBVIOUS
    <2> HIDE DEF branched
    <2>3. /\ Notice(o, e, scope, status).branched = branched
          /\ Notice(o, e, scope, status).active = (o.active \/ (branched /\ outs = {}))
      BY <2>1 DEF IsOutput
    <2> QED BY <2>2, <2>3
  <1> QED BY <1>1, <1>2

LEMMA UpdateScopeClaims ==
  ASSUME NEW c, IsCoordinator(c), NEW scope, NEW status
  PROVE  /\ DOMAIN UpdateScope(c, scope, status).ends = DOMAIN c.ends
         /\ \A e \in DOMAIN c.ends :
              Claims(UpdateScope(c, scope, status), e)
                => Claims(c, e) \/ scope = e \/ <<scope, status>> \in deps[e].ctrl
  <1> DEFINE ends == [e \in DOMAIN c.ends |-> Notice(c.ends[e], e, scope, status)]
             woken == Keep(EndOrder, {e \in DOMAIN ends : ends[e].active} \ c.processed)
             d == [c EXCEPT !.ends = ends, !.queue = @ \o woken,
                            !.processed = @ \cup Range(woken)]
  <1>1. UpdateScope(c, scope, status) = NextEnd(d)
    BY DEF UpdateScope
  <1>2. /\ DOMAIN ends = DOMAIN c.ends /\ ends = [e \in DOMAIN ends |-> ends[e]]
        /\ \A e \in DOMAIN ends : /\ IsOutput(ends[e]) /\ IsOutput(c.ends[e])
                                  /\ ends[e] = Notice(c.ends[e], e, scope, status)
    BY NoticeStays DEF IsCoordinator
  <1>3. PICK q, p : d = [c EXCEPT !.ends = ends, !.queue = q, !.processed = p]
    OBVIOUS
  <1> HIDE DEF ends, woken, d
  <1>4. d = [ends |-> ends, current |-> c.current, queue |-> q, processed |-> p,
             streamed |-> c.streamed]
    BY <1>3 DEF IsCoordinator
  <1>5. IsCoordinator(d) /\ d.ends = ends
    BY <1>2, <1>4 DEF IsCoordinator
  <1>6. NextEnd(d).ends = ends
    BY <1>5, NextEndStays
  <1>7. ASSUME NEW e \in DOMAIN c.ends, ends[e].branched \/ ends[e].active
        PROVE  Claims(c, e) \/ scope = e \/ <<scope, status>> \in deps[e].ctrl
    BY <1>2, <1>7, NoticeClaims DEF Claims
  <1> QED BY <1>1, <1>2, <1>6, <1>7 DEF Claims

\* An update activates only Ends that have been chosen.
LEMMA ToldClaims ==
  ASSUME TypeInv, Executing, Analysed, NEW c, Coherent(c), NEW u \in Units, at[u] # "idle"
  PROVE  /\ DOMAIN Told(c, u).ends = DOMAIN c.ends
         /\ \A e \in DOMAIN c.ends : Claims(Told(c, u), e) => Claims(c, e) \/ Chosen(e)
  <1>1. wf \in Workflows /\ DOMAIN c.ends \subseteq Ends /\ Ends \subseteq Nodes
    BY DEF TypeInv, Coherent, KnownEnds, Ends
  <1>2. CASE IsNode(u) /\ live[u]
    <2>1. PICK n : n = u[1]
      OBVIOUS
    <2>2. Told(c, u) = UpdateScope(c, n, Status(n)) /\ u = Unit(n) /\ Began(n)
      BY <1>1, <1>2, <2>1, UnitsAre DEF Told, Began
    <2>3. ASSUME NEW e \in Nodes, <<n, Status(n)>> \in deps[e].ctrl PROVE Chosen(e)
      <3>1. PICK d \in wf.edges : d.from \in Routing /\ <<n, Status(n)>> = <<d.from, d.label>>
        BY <1>1, <2>3, ControlLive
      <3>2. n = d.from /\ Status(n) = d.label /\ n \in Routing /\ d.label # ""
        BY <1>1, <3>1, EdgesAre
      <3>3. n \notin Models
        <4>1. n \in Models => d.label = "SUCCESS" \/ d.label = "ERROR"
          BY <1>1, <3>2, EdgesAre
        <4>2. n \in Models => Status(n) = "text"
          BY DEF Status
        <4> QED BY <3>2, <4>1, <4>2
      <3>4. taken[n] = d.label
        BY <3>2, <3>3 DEF Status
      <3>5. Decided(<<n, Status(n)>>)
        <4>1. <<n, Status(n)>>[1] = n /\ <<n, Status(n)>>[2] = d.label
          BY <3>2
        <4> QED BY <2>2, <3>2, <3>4, <4>1, Zenon DEF Decided
      <3> QED BY <2>3, <3>5 DEF Chosen
    <2>4. IsCoordinator(c)
      BY DEF Coherent
    <2>5. ASSUME NEW e \in DOMAIN c.ends, Claims(Told(c, u), e) PROVE Claims(c, e) \/ Chosen(e)
      <3>1. Claims(c, e) \/ n = e \/ <<n, Status(n)>> \in deps[e].ctrl
        BY <2>2, <2>4, <2>5, UpdateScopeClaims
      <3>2. n = e => Chosen(e)
        BY <2>2 DEF Chosen
      <3> QED BY <1>1, <2>3, <3>1, <3>2
    <2>6. DOMAIN UpdateScope(c, n, Status(n)).ends = DOMAIN c.ends
      BY <2>4, UpdateScopeClaims
    <2> QED BY <2>2, <2>5, <2>6
  <1>3. CASE ~(IsNode(u) /\ live[u])
    BY <1>3 DEF Told
  <1> QED BY <1>2, <1>3

\* A new coordinator claims only Ends that no branch decides on.
LEMMA NewClaims ==
  ASSUME TypeInv, Executing, Analysed
  PROVE  LET c == UpdateScope(NewCoordinator, "sys", "")
         IN  DOMAIN c.ends = Ends /\ \A e \in Ends : Claims(c, e) => Chosen(e)
  <1>1. PICK c : c = NewCoordinator
    OBVIOUS
  <1>2. /\ wf \in Workflows /\ IsCoordinator(c) /\ DOMAIN c.ends = Ends
        /\ \A e \in Ends : Claims(c, e) => deps[e].ctrl = {}
    <2>1. wf \in Workflows
      BY DEF TypeInv
    <2> QED BY <1>1, <2>1, NewCoherent DEF Coherent, NewCoordinator, StartOutput, Claims
  <1>3. ASSUME NEW e \in Ends PROVE "sys" # e /\ <<"sys", "">> \notin deps[e].ctrl
    <2>1. "sys" \notin Nodes /\ e \in Nodes
      BY <1>2, EdgesAre DEF Ends
    <2>2. ASSUME <<"sys", "">> \in deps[e].ctrl PROVE FALSE
      <3>1. PICK d \in wf.edges : d.from \in Routing /\ <<"sys", "">> = <<d.from, d.label>>
        BY <1>2, <2>1, <2>2, ControlLive
      <3>2. d.from = "sys"
        BY <3>1
      <3> QED BY <2>1, <3>1, <3>2 DEF Routing
    <2> QED BY <2>1, <2>2
  <1>4. ASSUME NEW e \in Ends, Claims(UpdateScope(c, "sys", ""), e) PROVE deps[e].ctrl = {}
    BY <1>2, <1>3, <1>4, UpdateScopeClaims
  <1> QED BY <1>1, <1>2, <1>4, UpdateScopeClaims DEF Chosen

\* What a step makes the coordinator claim has been chosen before it.
LEMMA ClaimsNext ==
  ASSUME StreamInv, TypeInv, Executing, Analysed, EmitHeard, UpdatesBegun, Answering, Justified,
         [Next]_vars
  PROVE  \A e \in DOMAIN coord'.ends : Claims(coord', e) => Chosen(e)
  <1>1. wf \in Workflows /\ Coherent(coord) /\ AllNoticed(coord) /\ IsSequence(events)
    BY DEF TypeInv, EventsTyped
  <1>2. ASSUME DOMAIN coord'.ends \subseteq DOMAIN coord.ends,
               \A e \in DOMAIN coord'.ends : Claims(coord', e) => Claims(coord, e) \/ Chosen(e)
        PROVE  \A e \in DOMAIN coord'.ends : Claims(coord', e) => Chosen(e)
    BY <1>2 DEF Justified
  <1>3. CASE coord'.ends = coord.ends
    BY <1>2, <1>3 DEF Claims
  <1>4. CASE Works \/ Step \/ Wait \/ UNCHANGED vars
    BY <1>3, <1>4, WorksIs DEF Step, Wait, vars
  <1>5. CASE \E u \in Units : \E l \in Labels(u[1]) : Resume(u, l)
    <2>1. coord' = UpdateScope(NewCoordinator, "sys", "")
      BY <1>5 DEF Resume
    <2> QED BY <2>1, NewClaims
  <1>6. ASSUME coord' = Told(coord, Head(events).unit), events # <<>>, ~IsChunk(Head(events))
        PROVE  \A e \in DOMAIN coord'.ends : Claims(coord', e) => Chosen(e)
    <2>1. PICK u : u = Head(events).unit
      OBVIOUS
    <2>2. u \in Units /\ at[u] # "idle"
      <3>1. Len(events) \in Nat \ {0} /\ Head(events) = events[1]
        BY <1>1, <1>6, Taken
      <3>2. 1 \in 1..Len(events)
        BY <3>1
      <3> QED BY <1>6, <2>1, <3>1, <3>2 DEF UpdatesBegun
    <2>3. coord' = Told(coord, u)
      BY <1>6, <2>1
    <2>4. /\ DOMAIN coord'.ends = DOMAIN coord.ends
          /\ \A e \in DOMAIN coord.ends : Claims(coord', e) => Claims(coord, e) \/ Chosen(e)
      BY <1>1, <2>2, <2>3, ToldClaims
    <2> QED BY <1>2, <2>4
  <1>7. CASE HandleUpdate \/ (TurnToNext /\ stage = "emit") \/ Replay
    <2>1. ASSUME stage = "replay", events # <<>> PROVE ~IsChunk(Head(events))
      <3>1. Len(events) \in Nat \ {0} /\ Head(events) = events[1]
        BY <1>1, <2>1, Taken
      <3>2. 1 \in 1..Len(events)
        BY <3>1
      <3> QED BY <2>1, <3>1, <3>2 DEF UpdatesBegun
    <2>2. coord' = Told(coord, Head(events).unit) /\ events # <<>>
      BY <1>7 DEF HandleUpdate, TurnToNext, Replay, StreamInv, Handling
    <2>3. ~IsChunk(Head(events))
      BY <1>7, <2>1 DEF HandleUpdate, Replay, EmitHeard
    <2> QED BY <1>6, <2>2, <2>3
  <1>8. CASE PassSegment \/ EmitSegment
    <2>1. coord' = Advance(coord) /\ coord.current \in DOMAIN coord.ends
      BY <1>8 DEF PassSegment, EmitSegment, Listening
    <2>2. Forth(coord, coord')
      BY <1>1, <2>1, AdvanceCoherent
    <2> QED BY <1>2, <2>2 DEF Forth, Claims
  <1>9. CASE ChunkToEnd \/ ChunkDirectly
    <2>1. CASE Forth(coord, coord')
      BY <1>2, <2>1 DEF Forth, Claims
    <2> QED BY <1>3, <1>9, <2>1, ChunkCoherent
  <1>10. CASE TurnToNext /\ stage = "flush"
    BY <1>3, <1>10, FlushTurns
  <1>11. CASE Flush
    BY <1>1, <1>2, <1>11, FlushCoherent DEF Claims
  <1>12. CASE PreActivate
    <2>1. PICK u \in Units : /\ Interrupting(u) /\ stage = "replay"
                             /\ coord' = UpdateScope(Recovered, u[1], taken[u[1]])
      BY <1>12 DEF PreActivate
    <2>2. PICK n : n = u[1]
      OBVIOUS
    <2>3. n \in Nodes /\ u = Unit(n) /\ wf.kind[n] = "human" /\ live[u]
      BY <1>1, <2>1, <2>2, UnitsAre DEF Interrupting
    <2>4. n \in Routing /\ n \notin Ends /\ Began(n) /\ taken[n] # ""
      <3>1. at[u] = "run" /\ taken[u[1]] # ""
        BY <2>1 DEF Answering
      <3> QED BY <2>2, <2>3, <3>1 DEF Routing, Ends, Began
    <2>5. /\ IsCoordinator(Recovered) /\ DOMAIN Recovered.ends \subseteq DOMAIN coord.ends
          /\ \A e \in DOMAIN Recovered.ends : Recovered.ends[e] = coord.ends[e]
          /\ DOMAIN Recovered.ends \subseteq Ends
      BY <1>1, RecoveredCoherent DEF Coherent, KnownEnds
    <2>6. /\ DOMAIN coord'.ends = DOMAIN Recovered.ends
          /\ \A e \in DOMAIN Recovered.ends :
               Claims(coord', e) => Claims(Recovered, e) \/ n = e \/ <<n, taken[n]>> \in deps[e].ctrl
      BY <2>1, <2>2, <2>5, UpdateScopeClaims
    <2>7. Decided(<<n, taken[n]>>)
      <3>1. <<n, taken[n]>>[1] = n /\ <<n, taken[n]>>[2] = taken[n]
        OBVIOUS
      <3> QED BY <2>4, <3>1, Zenon DEF Decided
    <2>8. ASSUME NEW e \in DOMAIN coord'.ends, Claims(coord', e) PROVE Claims(coord, e) \/ Chosen(e)
      BY <2>4, <2>5, <2>6, <2>7, <2>8 DEF Claims, Chosen
    <2> QED BY <1>2, <2>5, <2>6, <2>8
  <1>13. TurnToNext => stage \in {"emit", "flush"}
    BY DEF TurnToNext
  <1> QED BY <1>4, <1>5, <1>7, <1>8, <1>9, <1>10, <1>11, <1>12, <1>13
          DEF Next, Fails, Goes, Works

\* A claim rests on a choice.
LEMMA JustifiedNext ==
  ASSUME StreamInv, TypeInv, Executing, Analysed, EmitHeard, UpdatesBegun, Answering, Justified,
         [Next]_vars
  PROVE  Justified'
  <1>1. \A e \in DOMAIN coord'.ends : Claims(coord', e) => Chosen(e)
    BY ClaimsNext
  <1>2. DOMAIN coord'.ends \subseteq Nodes
    <2>1. Coherent(coord)' /\ Ends' = Ends
      BY CoherentNext, SameWf, SameWorkflow
    <2> QED BY <2>1 DEF Coherent, KnownEnds, Ends
  <1>3. ASSUME NEW e \in DOMAIN coord'.ends, Claims(coord, e)' PROVE Chosen(e)'
    <2>1. Chosen(e)
      BY <1>1, <1>3 DEF Claims
    <2> QED BY <1>2, <2>1, ChosenStays
  <1> QED BY <1>3 DEF Justified

\* What is shown was wanted by an End that has been chosen.
LEMMA ShownChosenNext ==
  ASSUME StreamInv, TypeInv, Executing, Analysed, Justified, ShownChosen, [Next]_vars
  PROVE  ShownChosen'
  <1>1. wf \in Workflows /\ Coherent(coord) /\ Ends' = Ends /\ wf' = wf /\ Ends \subseteq Nodes
        /\ DOMAIN coord.ends \subseteq Ends
    BY SameWf, SameWorkflow DEF TypeInv, Coherent, KnownEnds, Ends
  <1>2. ASSUME NEW p, Wanted(p) PROVE Wanted(p)'
    BY <1>1, <1>2, ChosenStays DEF Wanted
  <1>3. ASSUME NEW p, FromCursor(p) PROVE Wanted(p)
    <2>1. CASE p.end = NoEnd /\ \E e \in DOMAIN coord.ends :
                 /\ coord.ends[e].active
                 /\ [node |-> p.node, field |-> p.field] \in Range(wf.template[e])
      BY <1>1, <2>1 DEF Wanted, Justified, Claims
    <2>2. CASE coord.current \in DOMAIN coord.ends /\ p.end = coord.current
      <3>1. p.end \in Ends /\ p.end # NoEnd /\ coord.ends[p.end].active
        BY <1>1, <2>2, WorkflowIs DEF Coherent, CurrentEnd, Waiting, Ends
      <3> QED BY <2>2, <3>1 DEF Wanted, Justified, Claims
    <2> QED BY <1>3, <2>1, <2>2 DEF FromCursor
  <1>4. CASE shown' = shown
    BY <1>2, <1>4 DEF ShownChosen
  <1>5. ASSUME NEW p, shown' = Append(shown, p), FromCursor(p) PROVE ShownChosen'
    <2>1. /\ Len(shown) \in Nat /\ Len(shown') = Len(shown) + 1
          /\ \A j \in 1..Len(shown) : shown'[j] = shown[j]
          /\ shown'[Len(shown) + 1] = p
      BY <1>5, Appended DEF StreamInv, Shaped
    <2>2. Wanted(p)'
      BY <1>2, <1>3, <1>5
    <2>3. ASSUME NEW j \in 1..Len(shown'), NEW x, x = shown'[j] PROVE Wanted(x)'
      <3>1. j \in 1..Len(shown) \/ x = p
        BY <2>1, <2>3
      <3>2. j \in 1..Len(shown) => Wanted(x)
        BY <2>1, <2>3 DEF ShownChosen
      <3> QED BY <1>2, <2>2, <3>1, <3>2
    <2> QED BY <2>3 DEF ShownChosen
  <1> QED BY <1>4, <1>5, ShownIs

\* A unit emits its update when it has run.
LEMMA UpdatesBegunNext ==
  ASSUME StreamInv, TypeInv, UpdatesBegun, Answering, [Next]_vars PROVE UpdatesBegun'
  <1>1. /\ wf \in Workflows /\ IsSequence(events) /\ Units' = Units /\ Nodes' = Nodes
        /\ at \in [Units -> {"idle", "run", "done"}]
    BY SameWf, SameWorkflow DEF TypeInv, EventsTyped, GraphTyped
  <1>2. \A n \in Nodes : Unit(n) \in Units
    BY DEF Unit, Units
  <1>3. \A u \in Units : at[u] # "idle" => at'[u] # "idle"
    BY ProgressKeeps
  <1> DEFINE Fine(event) == ~IsChunk(event) => event.unit \in Units /\ at'[event.unit] # "idle"
             Begun == \A i \in 1..Len(events') : Fine(events'[i])
  <1>4. \A i \in 1..Len(events) : Fine(events[i])
    BY <1>3 DEF UpdatesBegun
  <1>5. events' = events => Begun
    BY <1>4
  <1>6. ASSUME NEW event, events' = Append(events, event), Fine(event) PROVE Begun
    <2>1. /\ Len(events) \in Nat /\ Len(events') = Len(events) + 1
          /\ \A j \in 1..Len(events) : events'[j] = events[j]
          /\ events'[Len(events) + 1] = event
      BY <1>1, <1>6, Appended
    <2> HIDE DEF Fine
    <2>2. \A j \in 1..Len(events') : j \in 1..Len(events) \/ j = Len(events) + 1
      BY <2>1
    <2> QED BY <1>4, <1>6, <2>1, <2>2
  <1>7. ASSUME events # <<>>, events' = Tail(events) PROVE Begun
    <2>1. /\ Len(events) \in Nat \ {0} /\ Len(events') = Len(events) - 1
          /\ \A i \in 1..Len(events') : events'[i] = events[i + 1]
      BY <1>1, <1>7, Taken
    <2> HIDE DEF Fine
    <2>2. \A i \in 1..Len(events') : i + 1 \in 1..Len(events)
      BY <2>1
    <2> QED BY <1>4, <2>1, <2>2
  <1>8. ASSUME Begun, \A n \in pool' \cap Nodes : at'[Unit(n)] # "idle",
               stage' = "replay" => \A i \in 1..Len(events') : ~IsChunk(events'[i])
        PROVE  UpdatesBegun'
    BY <1>1, <1>8 DEF UpdatesBegun, IsChunk
  <1>9. pool' = pool => \A n \in pool' \cap Nodes : at'[Unit(n)] # "idle"
    BY <1>2, <1>3 DEF UpdatesBegun
  <1>10. ASSUME NEW u \in Units, Finish(u) PROVE UpdatesBegun'
    <2>1. /\ events' = Append(events, Update(u)) /\ at' = [at EXCEPT ![u] = "done"]
          /\ stage' = stage
          /\ pool' = pool \/ (IsNode(u) /\ pool' = pool \cup {u[1]})
      BY <1>10 DEF Finish, Update
    <2>2. Update(u).unit = u /\ ~IsChunk(Update(u)) /\ at'[u] = "done"
      BY <1>1, <2>1 DEF Update, IsChunk
    <2>3. Begun
      BY <1>6, <2>1, <2>2
    <2>4. \A n \in pool' \cap Nodes : at'[Unit(n)] # "idle"
      BY <1>1, <1>2, <1>3, <2>1, <2>2, UnitsAre DEF UpdatesBegun
    <2>5. stage # "replay" \/ \A i \in 1..Len(events') : ~IsChunk(events'[i])
      <3>1. /\ Len(events) \in Nat /\ Len(events') = Len(events) + 1
            /\ \A j \in 1..Len(events) : events'[j] = events[j]
            /\ events'[Len(events) + 1] = Update(u)
        BY <1>1, <2>1, Appended
      <3>2. \A j \in 1..Len(events') : j \in 1..Len(events) \/ j = Len(events) + 1
        BY <3>1
      <3> QED BY <2>2, <3>1, <3>2 DEF UpdatesBegun
    <2> QED BY <1>8, <2>1, <2>3, <2>4, <2>5
  <1>11. ASSUME NEW n \in Models, Chunk(n) PROVE UpdatesBegun'
    <2>1. sent[n] + 1 \in 1..Len(Stream(n))
      <3>1. Len(Stream(n)) \in Nat /\ sent[n] \in Nat
        BY StreamNumbered DEF StreamInv, Shaped
      <3>2. sent[n] < Len(Stream(n))
        BY <1>11 DEF Chunk
      <3> QED BY <3>1, <3>2
    <2>2. IsChunk(Stream(n)[sent[n] + 1])
      BY <2>1, StreamNumbered DEF TypeInv
    <2>3. stage # "replay"
      <3>1. at[Unit(n)] = "run" /\ Unit(n) \in Units /\ Unit(n)[1] = n /\ wf.kind[n] = "llm"
        BY <1>11 DEF Chunk, Unit, Units, Models
      <3> QED BY <3>1 DEF Answering, Interrupting
    <2>4. events' = Append(events, Stream(n)[sent[n] + 1]) /\ stage' = stage /\ pool' = pool
      BY <1>11 DEF Chunk
    <2> QED BY <1>6, <1>8, <1>9, <2>2, <2>3, <2>4
  <1>12. CASE Step \/ (\E n \in Models : AttemptFails(n)) \/ PassSegment \/ EmitSegment \/ Flush
              \/ UNCHANGED vars
    <2>1. events' = events /\ pool' = pool /\ (stage' = "replay" => stage = "replay")
      BY <1>12 DEF Step, AttemptFails, PassSegment, EmitSegment, Flush, vars, graph
    <2> QED BY <1>5, <1>8, <1>9, <2>1 DEF UpdatesBegun
  <1>13. CASE HandleUpdate \/ ChunkToEnd \/ ChunkDirectly \/ TurnToNext \/ Wait
    <2>1. /\ events' = events \/ (events # <<>> /\ events' = Tail(events))
          /\ stage # "replay" /\ stage' # "replay" /\ pool' = pool
      BY <1>13 DEF HandleUpdate, ChunkToEnd, ChunkDirectly, TurnToNext, Wait, StreamInv, Handling,
                   graph
    <2> QED BY <1>5, <1>7, <1>8, <1>9, <2>1
  <1>14. CASE Replay
    <2>1. events # <<>> /\ events' = Tail(events) /\ stage = "replay" /\ pool' = pool
      BY <1>14 DEF Replay, graph
    <2>2. /\ Len(events) \in Nat \ {0} /\ Len(events') = Len(events) - 1
          /\ \A i \in 1..Len(events') : events'[i] = events[i + 1]
      BY <1>1, <2>1, Taken
    <2>3. \A i \in 1..Len(events') : i + 1 \in 1..Len(events)
      BY <2>2
    <2>4. \A i \in 1..Len(events') : ~IsChunk(events'[i])
      BY <2>1, <2>2, <2>3 DEF UpdatesBegun
    <2> QED BY <1>7, <1>8, <1>9, <2>1, <2>4
  <1>15. ASSUME NEW u \in Units, NEW l \in Labels(u[1]), Resume(u, l) PROVE UpdatesBegun'
    <2> DEFINE done == Keep(wf.order, pool)
               update(i) == [unit |-> <<done[i], "">>]
    <2>1. events' = [i \in 1..Len(done) |-> update(i)] /\ pool' = pool /\ at' = at
      BY <1>15 DEF Resume
    <2>2. done \in Seq(Nodes) /\ Range(done) \subseteq pool
      <3>1. wf.order \in Seq(Nodes) /\ Distinct(wf.order)
        BY <1>1, WorkflowIs
      <3> QED BY <3>1, KeepQueue
    <2>3. ASSUME NEW i \in 1..Len(done)
          PROVE  ~IsChunk(update(i)) /\ update(i).unit \in Units /\ at[update(i).unit] # "idle"
      <3>1. done[i] \in pool \cap Nodes
        BY <2>2 DEF Range
      <3>2. update(i).unit = Unit(done[i]) /\ ~IsChunk(update(i))
        BY DEF IsChunk, Unit
      <3> HIDE DEF done, update
      <3> QED BY <1>2, <3>1, <3>2 DEF UpdatesBegun
    <2>4. Len(done) \in Nat
      BY <2>2
    <2> HIDE DEF done, update
    <2>5. events' \in Seq({update(i) : i \in 1..Len(done)}) /\ Len(events') = Len(done)
      BY <2>1, <2>4
    <2>6. \A i \in 1..Len(events') : events'[i] = update(i) /\ i \in 1..Len(done)
      BY <2>1, <2>5
    <2>7. Begun /\ \A i \in 1..Len(events') : ~IsChunk(events'[i])
      BY <2>1, <2>3, <2>6
    <2> QED BY <1>8, <1>9, <2>1, <2>7
  <1>16. CASE PreActivate
    <2>1. PICK u \in Units : Interrupting(u) /\ pool' = pool \cup {u[1]}
      BY <1>16 DEF PreActivate
    <2>2. stage = "replay" /\ stage' = "resume" /\ events' = events /\ at' = at
      BY <1>16 DEF PreActivate
    <2>3. u = Unit(u[1]) /\ at[u] = "run"
      <3>1. at[u] = "run"
        BY <2>1, <2>2 DEF Answering
      <3> QED BY <1>1, <2>1, <3>1, UnitsAre DEF Interrupting
    <2> QED BY <1>5, <1>8, <2>1, <2>2, <2>3 DEF UpdatesBegun
  <1> QED BY <1>10, <1>11, <1>12, <1>13, <1>14, <1>15, <1>16 DEF Next, Fails, Goes

\* A node that interrupts is answered first.
LEMMA AnsweringNext ==
  ASSUME StreamInv, TypeInv, LiveStarted, Open, Executing, Answering, [Next]_vars
  PROVE  Answering'
  <1>1. /\ wf \in Workflows /\ wf' = wf /\ Units' = Units
        /\ at \in [Units -> {"idle", "run", "done"}] /\ at' \in [Units -> {"idle", "run", "done"}]
    <2>1. wf \in Workflows /\ at \in [Units -> {"idle", "run", "done"}]
      BY DEF TypeInv, GraphTyped
    <2>2. wf' = wf /\ Units' = Units
      BY SameWf, SameWorkflow
    <2>3. GraphTyped'
      BY GraphTypedNext
    <2> QED BY <2>1, <2>2, <2>3 DEF GraphTyped
  <1>3. ASSUME NEW u \in Units, Interrupting(u)' PROVE at'[u] # "done"
    BY <1>1, <1>3, OpenNext DEF Open
  <1>4. ASSUME NEW u \in Units, Interrupting(u) PROVE u = Unit(u[1]) /\ u[1] \in Routing /\ u # Unit(wf.start)
    <2>1. u = Unit(u[1]) /\ u[1] \in Nodes /\ wf.kind[u[1]] = "human"
      BY <1>1, <1>4, UnitsAre DEF Interrupting
    <2>2. Unit(wf.start)[1] = wf.start
      BY DEF Unit
    <2> QED BY <1>1, <2>1, <2>2, EdgesAre DEF Routing
  <1>5. ASSUME stage' = "replay", NEW u \in Units
        PROVE  /\ Interrupting(u)' => at'[u] = "run" /\ taken'[u[1]] # ""
               /\ at'[u] = "run" => Interrupting(u)'
    <2>1. CASE stage = "replay"
      <3>1. cut = -1 /\ cut' = -1
        BY <1>5, <2>1, StreamInvNext DEF StreamInv, Shaped
      <3>2. live' = live /\ (at'[u] = "run" => at[u] = "run") /\ (at[u] # "idle" => at'[u] # "idle")
        <4>1. ~Step
          BY <2>1 DEF Step
        <4>2. UNCHANGED <<at, live>> \/ (live' = live /\ \E v \in Units : at' = [at EXCEPT ![v] = "done"])
          BY <4>1, ProgressIs
        <4> QED BY <1>1, <4>2
      <3>3. Interrupting(u)' <=> Interrupting(u)
        BY <1>1, <3>1, <3>2 DEF Interrupting, IsNode
      <3>4. Interrupting(u) => at[u] = "run" /\ taken[u[1]] # ""
        BY <2>1 DEF Answering
      <3>5. at[u] = "run" => Interrupting(u)
        BY <2>1 DEF Answering
      <3>6. Interrupting(u) => taken'[u[1]] # ""
        BY <1>4, <3>4, TakenStays
      <3> QED BY <1>1, <1>3, <3>2, <3>3, <3>4, <3>5, <3>6
    <2>2. CASE stage # "replay"
      <3>1. PICK v \in Units : \E l \in Labels(v[1]) : Resume(v, l)
        BY <1>5, <2>2 DEF Next, Fails, Goes, Step, Chunk, AttemptFails, Finish, HandleUpdate,
             PassSegment, ChunkToEnd, ChunkDirectly, EmitSegment, TurnToNext, Wait, Flush, Replay,
             PreActivate, vars
      <3>2. PICK l \in Labels(v[1]) : Resume(v, l)
        BY <3>1
      <3>3. /\ Interrupting(v) /\ Running = {v} /\ UNCHANGED <<wf, at, live, cut>>
            /\ taken' = [taken EXCEPT ![v[1]] = l]
        BY <3>2 DEF Resume
      <3>4. Interrupting(u)' <=> Interrupting(u)
        BY <3>3 DEF Interrupting, IsNode
      <3>5. Interrupting(u) => at[u] # "idle"
        BY <1>4 DEF LiveStarted, Interrupting
      <3>6. Interrupting(u) => at[u] = "run"
        BY <1>1, <3>5 DEF Open
      <3>7. at[u] = "run" => u = v
        BY <3>3 DEF Running
      <3>8. l # ""
        <4>1. v[1] \in Routing
          BY <1>4, <3>3
        <4>2. PICK d \in wf.edges : d.from = v[1] /\ l = d.label
          BY <3>2 DEF Labels
        <4> QED BY <1>1, <4>1, <4>2, EdgesAre
      <3>9. taken'[v[1]] = l
        <4>1. v[1] \in Routing
          BY <1>4, <3>3
        <4> QED BY <3>3, <4>1 DEF Executing, TakenIs
      <3> QED BY <3>3, <3>4, <3>6, <3>7, <3>8, <3>9
    <2> QED BY <2>1, <2>2
  <1> QED BY <1>1, <1>5 DEF Answering

\* The stream is flushed when the graph has ended.
LEMMA AllDoneNext ==
  ASSUME TypeInv, AllDone, [Next]_vars PROVE AllDone'
  <1> SUFFICES ASSUME stage' \in {"flush", "over"} PROVE \A u \in Units' : at'[u] = "done"
    BY DEF AllDone
  <1>1. Units' = Units
    BY SameWf, SameWorkflow
  <1>2. (\A u \in Units : at[u] = "done") => \A u \in Units : at'[u] = "done"
    BY ProgressKeeps
  <1>3. stage \in {"flush", "over"} \/ Flush
    BY DEF Next, Fails, Goes, Step, Chunk, AttemptFails, Finish, Resume, HandleUpdate,
         PassSegment, ChunkToEnd, ChunkDirectly, EmitSegment, TurnToNext, Wait, Replay,
         PreActivate, vars
  <1> QED BY <1>1, <1>2, <1>3 DEF AllDone, Flush

\* What is shown, what the coordinator claims and what executes.
ChoiceInv == /\ Executing /\ Analysed /\ UpdatesBegun /\ Answering /\ AllDone
             /\ Justified /\ ShownChosen

LEMMA ChoiceInvInit == ASSUME Init PROVE ChoiceInv
  <1>1. /\ wf \in Workflows /\ at = [u \in Units |-> "idle"] /\ pool = {"sys"} /\ events = <<>>
        /\ coord = UpdateScope(NewCoordinator, "sys", "") /\ stage = "idle" /\ shown = <<>>
    BY DEF Init
  <1>2. Executing /\ Analysed /\ TypeInv
    BY ExecutingInit, TypeInvInit
  <1>3. Len(<<>>) = 0 /\ \A i \in 1..0 : FALSE
    OBVIOUS
  <1>4. UpdatesBegun /\ ShownChosen
    <2>1. pool \cap Nodes = {}
      <3>1. "sys" \notin Nodes
        BY <1>1, EdgesAre
      <3> QED BY <1>1, <3>1
    <2> QED BY <1>1, <1>3, <2>1 DEF UpdatesBegun, ShownChosen
  <1>5. Answering /\ AllDone
    BY <1>1 DEF Answering, AllDone
  <1>6. Justified
    BY <1>1, <1>2, NewClaims DEF Justified
  <1> QED BY <1>2, <1>4, <1>5, <1>6 DEF ChoiceInv

LEMMA ChoiceInvNext ==
  ASSUME StreamInv, TypeInv, Pending, ChoiceInv, [Next]_vars PROVE ChoiceInv'
  <1>1. Executing /\ Analysed /\ UpdatesBegun /\ Answering /\ AllDone /\ Justified /\ ShownChosen
        /\ LiveStarted /\ Open /\ EmitHeard
    BY DEF ChoiceInv, Pending
  <1>2. Executing' /\ Analysed'
    BY <1>1, ExecutingNext, AnalysedNext
  <1>3. UpdatesBegun' /\ Answering' /\ AllDone'
    BY <1>1, UpdatesBegunNext, AnsweringNext, AllDoneNext
  <1>4. Justified' /\ ShownChosen'
    BY <1>1, JustifiedNext, ShownChosenNext
  <1> QED BY <1>2, <1>3, <1>4 DEF ChoiceInv

\* Whatever the workflow and the branches it takes, nothing reaches the client of an End
\* that is not executed: neither the text of a branch that is not taken, nor chunks that
\* only such an End wants (graph_builder.py:121-199, stream_output_coordinator.py:186-357).
THEOREM OnlyExecutedShown == Spec => []OnlyExecuted
  <1> DEFINE Inv == StreamInv /\ TypeInv /\ Pending /\ ChoiceInv
  <1>1. Init => Inv
    BY StreamInvInit, TypeInvInit, PendingInit, ChoiceInvInit
  <1>2. Inv /\ [Next]_vars => Inv'
    BY StreamInvNext, TypeInvNext, PendingNext, ChoiceInvNext
  <1>3. Inv => OnlyExecuted
    <2> SUFFICES ASSUME Inv, stage = "over", NEW i \in 1..Len(shown)
                 PROVE  \E e \in Ends :
                          /\ live[<<e, "">>]
                          /\ IF shown[i].end = NoEnd
                             THEN [node |-> shown[i].node, field |-> shown[i].field] \in Range(wf.template[e])
                             ELSE shown[i].end = e
      BY DEF OnlyExecuted
    <2>1. PICK e \in Ends :
            /\ Chosen(e)
            /\ IF shown[i].end = NoEnd
               THEN [node |-> shown[i].node, field |-> shown[i].field] \in Range(wf.template[e])
               ELSE shown[i].end = e
      BY DEF ChoiceInv, ShownChosen, Wanted
    <2>2. e \in Nodes /\ Unit(e) \in Units
      BY DEF Ends, Unit, Units
    <2>3. at[Unit(e)] = "done"
      BY <2>2 DEF ChoiceInv, AllDone
    <2>4. live[Unit(e)]
      BY <2>1, <2>2, <2>3, ChosenLive DEF ChoiceInv, TypeInv
    <2> QED BY <2>1, <2>4 DEF Unit
  <1> QED BY <1>1, <1>2, <1>3, PTL DEF Spec

\* When the graph has ended, an End that has begun to be shown has executed, so the
\* consumer has heard of it, and it does not wait for a variable.
LEMMA FlushFinds ==
  ASSUME TypeInv, Pending, ChoiceInv, Flush PROVE stage' = "over"
  <1>1. /\ stage = "idle" /\ events = <<>> /\ \A u \in Units : at[u] = "done"
        /\ wf \in Workflows /\ Coherent(coord)
    BY DEF Flush, TypeInv
  <1>2. \A u : ~InEvents(u)
    <2>1. Len(<<>>) = 0 /\ \A i \in 1..0 : FALSE
      OBVIOUS
    <2> QED BY <1>1, <2>1 DEF InEvents
  <1>3. ASSUME coord.current # NoEnd PROVE FALSE
    <2>1. PICK e : e = coord.current
      OBVIOUS
    <2>2. e \in DOMAIN coord.ends /\ coord.ends[e].active /\ e \in Ends /\ e \in Nodes
      BY <1>1, <1>3, <2>1 DEF Coherent, CurrentEnd, Waiting, KnownEnds, Ends
    <2>3. Unit(e) \in Units
      BY <2>2 DEF Unit, Units
    <2>4. Chosen(e)
      BY <2>2 DEF ChoiceInv, Justified, Claims
    <2>5. live[Unit(e)]
      BY <1>1, <2>2, <2>3, <2>4, ChosenLive DEF ChoiceInv
    <2>6. coord.ends[e].force
      BY <1>1, <1>2, <2>2, <2>3, <2>5 DEF Pending, DoneHeard, Heard
    <2>7. Ready(coord)
      BY <2>1, <2>6 DEF Ready
    <2>8. ~Held /\ ~Awaited
      BY <1>1, <1>2, <2>7 DEF Held, Awaited
    <2> QED BY <1>1, <1>3, <2>8 DEF Pending, Settled
  <1> QED BY <1>3 DEF Flush

\* Whatever the workflow, and whether it was interrupted or not, the graph never ends with
\* an answer half shown: the last flush has nothing to do (executor.py:380-382,
\* stream_output_coordinator.py:459-503).
THEOREM FlushIsEmpty == Spec => []NothingToFlush
  <1> DEFINE Inv == StreamInv /\ TypeInv /\ Pending /\ ChoiceInv /\ NothingToFlush
  <1>1. Init => Inv
    BY StreamInvInit, TypeInvInit, PendingInit, ChoiceInvInit DEF Init, NothingToFlush
  <1>2. Inv /\ [Next]_vars => Inv'
    <2> SUFFICES ASSUME Inv, [Next]_vars PROVE Inv'
      OBVIOUS
    <2>1. (StreamInv /\ TypeInv /\ Pending /\ ChoiceInv)'
      BY StreamInvNext, TypeInvNext, PendingNext, ChoiceInvNext
    <2>2. CASE Flush
      BY <2>1, <2>2, FlushFinds DEF NothingToFlush
    <2>3. CASE ~Flush
      <3>1. stage' # "flush"
        BY <2>3 DEF NothingToFlush, Next, Fails, Goes, Step, Chunk, AttemptFails, Finish, Resume,
             HandleUpdate, PassSegment, ChunkToEnd, ChunkDirectly, EmitSegment, TurnToNext, Wait,
             Replay, PreActivate, vars
      <3> QED BY <2>1, <3>1 DEF NothingToFlush
    <2> QED BY <2>2, <2>3
  <1>3. Inv => NothingToFlush
    OBVIOUS
  <1> QED BY <1>1, <1>2, <1>3, PTL DEF Spec

=============================================================================
