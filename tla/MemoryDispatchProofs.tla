------------------------- MODULE MemoryDispatchProofs -------------------------
(***************************************************************************)
(* Theorems about MemoryDispatch, for any conversations, requests, flush   *)
(* scans and faults: its types, that numbers are distinct when one event   *)
(* loop serves a conversation, that no message is pushed twice, and that   *)
(* only a failure loses one.  Most steps number, claim and push nothing:   *)
(* they are Calm, whatever else they do, and the invariants on numbers and *)
(* pushes only look at that.                                               *)
(***************************************************************************)
EXTENDS MemoryDispatch, TLAPS

\* A process that is to deal with a message has one.
HandKnown ==
  \A p \in Procs : pc[p] \in {"advance", "push", "work", "lookup"} => hand[p] \in Messages

\* The greatest number of a conversation exists.
MaxExists ==
  \A c \in Convs : \E n \in {0} \cup {seq[m] : m \in Rows(c)} : \A m \in Rows(c) : seq[m] <= n

\* A request inserts once.
NoRowYet == \A m \in Messages : pc[m[1]] \in {"new", "insert"} => seq[m] = 0

\* A batch of the service API is only inserted, claimed and pushed.
BatchPath == {"new", "insert", "jump", "push", "done"}
OnPath == \A p \in Procs : Is(p, "batch") => pc[p] \in BatchPath

TypeInv == TypeOK /\ HandKnown /\ MaxExists /\ NoRowYet /\ OnPath

-----------------------------------------------------------------------------
(* Messages and their numbers *)

\* A request carries a nonempty batch for a conversation.
LEMMA BatchIsSeq ==
  ASSUME NEW r \in Requests
  PROVE  /\ Len(Batch[r]) \in Nat \ {0} /\ DOMAIN Batch[r] = 1 .. Len(Batch[r])
         /\ ConvOf[r] \in Convs
<1>1. Batch[r] \in Seq(MessageKinds) /\ Batch[r] # <<>> /\ ConvOf[r] \in Convs
  BY DispatchAssumption
<1> QED
  BY <1>1

\* A message is a request and a place in its batch.
LEMMA MessageIs ==
  ASSUME NEW m \in Messages
  PROVE  /\ m[1] \in Requests /\ m[2] \in 1 .. Len(Batch[m[1]]) /\ m = <<m[1], m[2]>>
         /\ m[2] \in Nat \ {0} /\ ConvOfMessage(m) \in Convs
<1>1. PICK r \in Requests : m \in {r} \X DOMAIN Batch[r]
  BY DEF Messages
<1>2. m[1] = r /\ m[2] \in 1 .. Len(Batch[r]) /\ m = <<m[1], m[2]>>
  BY <1>1, BatchIsSeq
<1> QED
  BY <1>2, BatchIsSeq DEF ConvOfMessage

\* Every place of a batch is a message.
LEMMA MessageOf ==
  ASSUME NEW r \in Requests, NEW n \in 1 .. Len(Batch[r]) PROVE <<r, n>> \in Messages
BY BatchIsSeq DEF Messages

\* MaxSeq is the greatest number of a conversation.
LEMMA MaxSeqIsMax ==
  ASSUME TypeInv, NEW c \in Convs
  PROVE  MaxSeq(c) \in Nat /\ \A m \in Rows(c) : seq[m] <= MaxSeq(c)
<1>1. \E n \in {0} \cup {seq[m] : m \in Rows(c)} : \A m \in Rows(c) : seq[m] <= n
  BY DEF TypeInv, MaxExists
<1>2. /\ MaxSeq(c) \in {0} \cup {seq[m] : m \in Rows(c)}
      /\ \A m \in Rows(c) : seq[m] <= MaxSeq(c)
  BY <1>1 DEF MaxSeq
<1>3. \A m \in Rows(c) : seq[m] \in Nat
  BY DEF Rows, TypeInv, TypeOK
<1> QED
  BY <1>2, <1>3

\* The rows of a conversation are messages.
LEMMA RowsAreMessages == ASSUME NEW c PROVE Rows(c) \subseteq Messages
BY DEF Rows

\* A step that numbers nothing leaves the greatest numbers.
LEMMA MaxExistsKept == ASSUME TypeInv, UNCHANGED seq PROVE MaxExists'
BY DEF TypeInv, MaxExists, Rows

\* A write cursor stays a number and never goes back.
LEMMA CursorType ==
  ASSUME TypeInv, NEW c \in Convs, NEW n \in Nat, AdvanceCursor(c, n)
  PROVE  cursor' \in [Convs -> Nat] /\ \A d \in Convs : cursor[d] <= cursor'[d]
<1>1. cursor \in [Convs -> Nat]
  BY DEF TypeInv, TypeOK
<1>2. CASE Advances(c, n)
  <2>1. cursor' = [cursor EXCEPT ![c] = n] /\ cursor[c] < n
    BY <1>2 DEF AdvanceCursor, Advances
  <2> QED
    BY <1>1, <2>1
<1>3. CASE ~Advances(c, n)
  <2>1. cursor' = cursor
    BY <1>3 DEF AdvanceCursor
  <2> QED
    BY <1>1, <2>1
<1> QED
  BY <1>2, <1>3

\* An UPDATE of the cursor leaves it where it asks, or beyond.
LEMMA CursorReached ==
  ASSUME TypeInv, NEW c \in Convs, NEW n \in Nat, AdvanceCursor(c, n) PROVE n <= cursor'[c]
BY DEF AdvanceCursor, Advances, TypeInv, TypeOK

FaultsTyped == faults \in 0 .. MaxFaults /\ dropped \subseteq Messages

\* The budget of faults is never exceeded.
LEMMA FaultType ==
  ASSUME TypeOK, NEW kind, NEW messages \in SUBSET Messages,
         UNCHANGED failVars \/ Fault(kind, messages)
  PROVE  FaultsTyped'
BY DispatchAssumption DEF TypeOK, Fault, FaultsTyped, failVars

\* A step moves one process, which may run, or only ends or resets some.
LEMMA StepType ==
  ASSUME TypeOK, NEW p \in Procs, NEW from, NEW to \in Labels, Step(p, from, to)
  PROVE  /\ pc' \in [Procs -> Labels] /\ pc[p] = from /\ pc'[p] = to /\ MayRun(p)
         /\ \A q \in Procs \ {p} : pc'[q] = pc[q]
BY DEF TypeOK, Step

-----------------------------------------------------------------------------
(* Types *)

Busy == {"advance", "push", "work", "lookup"}

\* What is left to show of a step that inserts nothing.
LEMMA TypeKept ==
  ASSUME TypeInv, TypeOK', UNCHANGED seq, NEW p \in Procs, NEW from, NEW to \in Labels,
         Step(p, from, to), to \in {"new", "insert"} => from = "new",
         Is(p, "batch") /\ from \in BatchPath => to \in BatchPath,
         to \in Busy => hand'[p] \in Messages,
         \A q \in Procs \ {p} : hand'[q] = hand[q]
  PROVE  TypeInv'
<1>1. pc[p] = from /\ pc'[p] = to /\ \A q \in Procs \ {p} : pc'[q] = pc[q]
  BY StepType DEF TypeInv
<1>2. HandKnown'
  BY <1>1 DEF TypeInv, HandKnown, Busy
<1>3. \A q \in Procs : pc'[q] \in {"new", "insert"} => pc[q] \in {"new", "insert"}
  BY <1>1
<1>4. NoRowYet'
  BY <1>3, MessageIs DEF TypeInv, NoRowYet, Procs
<1>5. OnPath'
  BY <1>1 DEF TypeInv, OnPath, Is
<1> QED
  BY <1>2, <1>4, <1>5, MaxExistsKept DEF TypeInv

\* The types hold at the start.
LEMMA TypeInit == Init => TypeInv
<1> SUFFICES ASSUME Init PROVE TypeInv
  OBVIOUS
<1>1. TypeOK
  BY DispatchAssumption DEF Init, TypeOK, Labels, Awaiting
<1>2. HandKnown
  BY DEF Init, HandKnown
<1>3. \A c \in Convs : Rows(c) = {}
  BY DEF Init, Rows
<1>4. MaxExists
  BY <1>3 DEF MaxExists
<1>5. NoRowYet
  BY DEF Init, NoRowYet
<1>6. OnPath
  BY DEF Init, OnPath, BatchPath, Is
<1> QED
  BY <1>1, <1>2, <1>4, <1>5, <1>6 DEF TypeInv

\* Reading the greatest number keeps the types.
LEMMA TypeReadMax == ASSUME TypeInv, NEW r \in Requests, ReadMax(r) PROVE TypeInv'
<1> USE DEF tableVars, keyVars, doneVars, failVars, flushVars, Labels, Awaiting
<1>1. r \in Procs /\ ConvOf[r] \in Convs
  BY BatchIsSeq DEF Procs
<1>2. Step(r, "new", "insert") /\ read' = [read EXCEPT ![r] = MaxSeq(ConvOf[r])]
      /\ UNCHANGED <<tableVars, keyVars, doneVars, failVars, todo, hand, flushVars>>
  BY DEF ReadMax
<1>3. MaxSeq(ConvOf[r]) \in Nat
  BY <1>1, MaxSeqIsMax
<1>4. pc' \in [Procs -> Labels]
  BY <1>1, <1>2, StepType DEF TypeInv
<1>5. TypeOK'
  BY <1>2, <1>3, <1>4 DEF TypeInv, TypeOK
<1> QED
  BY <1>1, <1>2, <1>5, TypeKept DEF Busy, BatchPath

\* Inserting a row keeps the types.
LEMMA TypeInsert == ASSUME TypeInv, NEW r \in Requests, Insert(r) PROVE TypeInv'
<1> USE DEF tableVars, keyVars, doneVars, failVars, flushVars
<1>1. r \in Procs /\ r \notin Flushers /\ KindOf[r] \in {"ingest", "batch", "sync"}
  BY DispatchAssumption DEF Procs
<1>2. PICK to \in {"refresh", "jump", "cursor"} : Step(r, "insert", to)
  BY <1>1 DEF Insert, Is
<1>3. /\ seq' = [m \in Messages |-> IF m[1] = r THEN read[r] + m[2] ELSE seq[m]]
      /\ read' = [read EXCEPT ![r] = 0]
      /\ UNCHANGED <<cursor, keyVars, doneVars, failVars, todo, hand, flushVars>>
  BY DEF Insert, Used
<1>4. pc' \in [Procs -> Labels] /\ pc'[r] = to /\ \A q \in Procs \ {r} : pc'[q] = pc[q]
  BY <1>1, <1>2, StepType DEF TypeInv, Labels, Awaiting
<1>5. \A m \in Messages : seq'[m] = IF m[1] = r THEN read[r] + m[2] ELSE seq[m]
  BY <1>3
<1>6. read[r] \in Nat /\ seq \in [Messages -> Nat]
  BY <1>1 DEF TypeInv, TypeOK
<1>7. seq' \in [Messages -> Nat]
  BY <1>3, <1>6, MessageIs
<1>8. TypeOK'
  BY <1>1, <1>3, <1>4, <1>7 DEF TypeInv, TypeOK
<1>9. HandKnown'
  BY <1>2, <1>3, <1>4 DEF TypeInv, HandKnown
<1>10. ASSUME NEW c \in Convs
       PROVE  \E n \in {0} \cup {seq'[m] : m \in Rows(c)'} : \A m \in Rows(c)' : seq'[m] <= n
  <2>1. CASE c # ConvOf[r]
    <3>1. \A m \in Rows(c) \cup Rows(c)' : m \in Messages /\ m[1] # r /\ seq'[m] = seq[m]
      BY <1>5, <2>1 DEF Rows, ConvOfMessage
    <3>2. Rows(c)' = Rows(c)
      BY <3>1 DEF Rows
    <3>3. \E n \in {0} \cup {seq[m] : m \in Rows(c)} : \A m \in Rows(c) : seq[m] <= n
      BY DEF TypeInv, MaxExists
    <3> QED
      BY <3>1, <3>2, <3>3
  <2>2. CASE c = ConvOf[r]
    <3> DEFINE top == read[r] + Len(Batch[r])
               last == <<r, Len(Batch[r])>>
    <3>1. last \in Messages /\ top \in Nat /\ top > 0
      BY <1>6, BatchIsSeq, MessageOf
    <3>2. last \in Rows(c)' /\ seq'[last] = top
      BY <1>5, <2>2, <3>1 DEF Rows, ConvOfMessage
    <3>3. \A m \in Messages : m[1] = r => seq'[m] <= top
      BY <1>5, <1>6, MessageIs, BatchIsSeq
    <3>4. PICK n \in {0} \cup {seq[m] : m \in Rows(c)} : \A m \in Rows(c) : seq[m] <= n
      BY DEF TypeInv, MaxExists
    <3>5. \A m \in Rows(c)' : m \in Messages /\ (m[1] = r \/ (seq'[m] = seq[m] /\ m \in Rows(c)))
      BY <1>5 DEF Rows
    <3>6. n \in Nat
      BY <3>4, <1>6, RowsAreMessages
    <3>7. CASE n <= top
      <4>1. \A m \in Rows(c)' : seq'[m] <= top
        BY <3>1, <3>3, <3>4, <3>5, <3>6, <3>7, <1>6
      <4> QED
        BY <3>2, <4>1
    <3>8. CASE top < n
      <4>1. PICK k \in Rows(c) : seq[k] = n
        BY <3>1, <3>4, <3>8
      <4>2. k \in Messages /\ k[1] # r
        BY <1>2, <3>1, <3>6, <3>8, <4>1 DEF TypeInv, NoRowYet, Step, Rows
      <4>3. k \in Rows(c)' /\ seq'[k] = n
        BY <1>5, <4>1, <4>2 DEF Rows
      <4>4. \A m \in Rows(c)' : seq'[m] <= n
        BY <3>1, <3>3, <3>4, <3>5, <3>6, <3>8, <1>7, RowsAreMessages
      <4> QED
        BY <4>3, <4>4
    <3> QED
      BY <3>1, <3>6, <3>7, <3>8
  <2> QED
    BY <2>1, <2>2
<1>11. NoRowYet'
  BY <1>2, <1>4, <1>5, MessageIs DEF TypeInv, NoRowYet, Procs
<1>12. OnPath'
  <2>1. Is(r, "batch") => ~Is(r, "ingest") /\ ~Is(r, "sync")
    BY <1>1 DEF Is
  <2>2. Is(r, "batch") => pc'[r] = "jump"
    BY <1>1, <2>1, StepType DEF Insert, TypeInv, Labels, Awaiting
  <2> QED
    BY <1>4, <2>2 DEF TypeInv, OnPath, BatchPath, Is
<1> QED
  BY <1>8, <1>9, <1>10, <1>11, <1>12 DEF TypeInv, MaxExists

\* Where a process goes on.
LEMMA GoOnLabel ==
  ASSUME NEW p \in Procs, NEW rest
  PROVE  /\ GoOn(p, rest) \in {"done", "push", "verify", "each"}
         /\ GoOn(p, rest) = "push" <=> Is(p, "batch") /\ rest # {}
         /\ Leave(p) \in {"done", "convs"}
<1>1. p \in Requests => KindOf[p] \in {"ingest", "batch", "sync"}
  BY DispatchAssumption
<1>2. ~(Is(p, "ingest") /\ Is(p, "batch"))
  BY DEF Is
<1>3. CASE Is(p, "ingest")
  BY <1>2, <1>3 DEF GoOn, Leave
<1>4. CASE ~Is(p, "ingest") /\ Is(p, "batch")
  BY <1>4 DEF GoOn, Leave
<1>5. CASE ~Is(p, "ingest") /\ ~Is(p, "batch")
  BY <1>5 DEF GoOn, Leave
<1> QED
  BY <1>3, <1>4, <1>5

\* A batch goes on pushing or is done; a sync request never pushes.
LEMMA KindsApart ==
  ASSUME NEW p \in Procs, NEW rest
  PROVE  /\ Is(p, "sync") => ~Is(p, "batch")
         /\ Is(p, "batch") => GoOn(p, rest) \in BatchPath
<1>1. Is(p, "sync") => ~Is(p, "batch")
  BY DEF Is
<1>2. Is(p, "batch") => ~Is(p, "ingest")
  BY DEF Is
<1> QED
  BY <1>1, <1>2 DEF GoOn, BatchPath

\* The jump of an asynchronous batch keeps the types.
LEMMA TypeJump == ASSUME TypeInv, NEW r \in Requests, Jump(r) PROVE TypeInv'
<1> USE DEF tableVars, keyVars, doneVars, failVars, flushVars
<1> DEFINE users == {m \in Messages : m[1] = r /\ KindOfMessage(m) # "assistant"}
           last  == <<r, Len(Batch[r])>>
<1>1. r \in Procs /\ ConvOf[r] \in Convs /\ last \in Messages
  BY BatchIsSeq, MessageOf DEF Procs
<1>2. /\ Step(r, "jump", GoOn(r, users)) /\ AdvanceCursor(ConvOf[r], seq[last])
      /\ UNCHANGED <<seq, keyVars, doneVars, failVars, read, flushVars>>
  BY DEF Jump
<1>3. \/ users = {} /\ UNCHANGED <<todo, hand>>
      \/ \E m \in users : hand' = [hand EXCEPT ![r] = m] /\ todo' = [todo EXCEPT ![r] = users \ {m}]
  BY DEF Jump
<1>4. GoOn(r, users) \in {"done", "push", "verify", "each"} /\ (GoOn(r, users) = "push" => users # {})
  BY <1>1, GoOnLabel
<1>5. users \subseteq Messages
  OBVIOUS
<1> HIDE DEF users, last
<1>6. PICK to \in {"done", "push", "verify", "each"} :
        /\ Step(r, "jump", to) /\ (to = "push" => users # {})
        /\ Is(r, "batch") => to \in BatchPath
  BY <1>1, <1>2, <1>4, KindsApart
<1>7. to \in Labels /\ to \notin {"new", "insert"} /\ (to \in Busy => to = "push")
  BY <1>6 DEF Labels, Awaiting, Busy
<1>8. pc' \in [Procs -> Labels]
  BY <1>1, <1>6, <1>7, StepType DEF TypeInv
<1>9. seq[last] \in Nat
  BY <1>1 DEF TypeInv, TypeOK
<1>10. cursor' \in [Convs -> Nat]
  BY <1>1, <1>2, <1>9, CursorType
<1>11. /\ hand' \in [Procs -> Messages \cup {<<>>}] /\ todo' \in [Procs -> SUBSET Messages]
       /\ users # {} => hand'[r] \in Messages
       /\ \A q \in Procs \ {r} : hand'[q] = hand[q]
  <2>1. CASE users = {} /\ UNCHANGED <<todo, hand>>
    BY <2>1 DEF TypeInv, TypeOK
  <2>2. ASSUME NEW m \in users, hand' = [hand EXCEPT ![r] = m],
               todo' = [todo EXCEPT ![r] = users \ {m}]
        PROVE  <1>11!:
    BY <1>1, <1>5, <2>2 DEF TypeInv, TypeOK
  <2> QED
    BY <1>3, <2>1, <2>2
<1>12. TypeOK'
  BY <1>2, <1>8, <1>10, <1>11 DEF TypeInv, TypeOK
<1> QED
  BY <1>1, <1>2, <1>6, <1>7, <1>11, <1>12, TypeKept

\* Marking a conversation in Redis keeps the types.
LEMMA TypeMark ==
  ASSUME TypeInv, NEW r \in Requests, Refresh(r) \/ Mark(r) PROVE TypeInv'
<1> USE DEF tableVars, keyVars, doneVars, failVars, bodyVars, flushVars, FaultsTyped
<1>1. r \in Procs /\ ConvOf[r] \in Convs
  BY BatchIsSeq DEF Procs
<1>2. PICK from \in {"refresh", "mark"}, to \in {"mark", "cursor"} : Step(r, from, to)
  BY DEF Refresh, Mark
<1>3. FaultsTyped'
  <2>1. TypeOK
    BY DEF TypeInv, TypeOK
  <2>2. UNCHANGED failVars \/ Fault("redis", {})
    BY DEF Refresh, Mark
  <2> QED
    BY <2>1, <2>2, FaultType
<1>4. recent' \subseteq Convs /\ marked' \subseteq Convs
  BY <1>1 DEF Refresh, Mark, TypeInv, TypeOK
<1>5. UNCHANGED <<tableVars, doneVars, bodyVars, flushVars>>
  BY DEF Refresh, Mark
<1>6. to \in Labels /\ to \notin Busy /\ to \notin {"new", "insert"}
  BY <1>2 DEF Labels, Awaiting, Busy
<1>7. pc' \in [Procs -> Labels]
  BY <1>1, <1>2, <1>6, StepType DEF TypeInv
<1>8. TypeOK'
  BY <1>3, <1>4, <1>5, <1>7 DEF TypeInv, TypeOK
<1>9. from \notin BatchPath
  BY DEF BatchPath
<1> QED
  BY <1>1, <1>2, <1>5, <1>6, <1>8, <1>9, TypeKept

\* Choosing the path of a request keeps the types.
LEMMA TypeChoose == ASSUME TypeInv, NEW r \in Requests, Choose(r) PROVE TypeInv'
<1> USE DEF tableVars, keyVars, doneVars, failVars, flushVars
<1>1. r \in Procs
  BY DEF Procs
<1>2. /\ todo' = [todo EXCEPT ![r] = {}]
      /\ UNCHANGED <<tableVars, keyVars, doneVars, failVars, read, flushVars>>
  BY DEF Choose
<1>3. \/ Step(r, "choose", "done") /\ UNCHANGED hand
      \/ /\ Step(r, "choose", "advance")
         /\ \E m \in todo[r] : hand' = [hand EXCEPT ![r] = m]
  BY DEF Choose
<1>4. todo' \in [Procs -> SUBSET Messages]
  BY <1>2 DEF TypeInv, TypeOK
<1>5. CASE Step(r, "choose", "done") /\ UNCHANGED hand
  <2>1. pc' \in [Procs -> Labels]
    BY <1>1, <1>5, StepType DEF TypeInv, Labels, Awaiting
  <2>2. TypeOK'
    BY <1>2, <1>4, <1>5, <2>1 DEF TypeInv, TypeOK
  <2> QED
    BY <1>1, <1>2, <1>5, <2>2, TypeKept DEF Busy, Labels, Awaiting, BatchPath
<1>6. CASE /\ Step(r, "choose", "advance")
           /\ \E m \in todo[r] : hand' = [hand EXCEPT ![r] = m]
  <2>1. PICK m \in todo[r] : hand' = [hand EXCEPT ![r] = m]
    BY <1>6
  <2>2. m \in Messages
    BY <1>1 DEF TypeInv, TypeOK
  <2>3. /\ hand' \in [Procs -> Messages \cup {<<>>}] /\ hand'[r] = m
        /\ \A q \in Procs \ {r} : hand'[q] = hand[q]
    BY <1>1, <2>1, <2>2 DEF TypeInv, TypeOK
  <2>4. pc' \in [Procs -> Labels]
    BY <1>1, <1>6, StepType DEF TypeInv, Labels, Awaiting
  <2>5. TypeOK'
    BY <1>2, <1>4, <2>3, <2>4 DEF TypeInv, TypeOK
  <2> QED
    BY <1>1, <1>2, <1>6, <2>2, <2>3, <2>5, TypeKept DEF Busy, Labels, Awaiting, BatchPath
<1> QED
  BY <1>3, <1>5, <1>6

\* The synchronous path's next message keeps the types.
LEMMA TypeExecute ==
  ASSUME TypeInv, NEW r \in Requests, ExecuteNext(r) PROVE TypeInv'
<1> USE DEF tableVars, keyVars, doneVars, failVars, flushVars
<1>1. r \in Procs
  BY DEF Procs
<1>2. PICK m \in todo[r] :
        /\ Step(r, "each", IF KindOfMessage(m) = "muted" THEN "advance" ELSE "work")
        /\ todo' = [todo EXCEPT ![r] = @ \ {m}] /\ hand' = [hand EXCEPT ![r] = m]
  BY DEF ExecuteNext
<1>3. PICK to \in {"advance", "work"} : Step(r, "each", to)
  BY <1>2
<1>4. m \in Messages
  BY <1>1 DEF TypeInv, TypeOK
<1>5. /\ hand' \in [Procs -> Messages \cup {<<>>}] /\ hand'[r] = m
      /\ \A q \in Procs \ {r} : hand'[q] = hand[q]
  BY <1>1, <1>2, <1>4 DEF TypeInv, TypeOK
<1>6. todo' \in [Procs -> SUBSET Messages]
  BY <1>1, <1>2 DEF TypeInv, TypeOK
<1>7. to \in Labels /\ to \notin {"new", "insert"} /\ "each" \notin BatchPath
  BY DEF Labels, Awaiting, BatchPath
<1>8. pc' \in [Procs -> Labels]
  BY <1>1, <1>3, <1>7, StepType DEF TypeInv
<1>9. UNCHANGED <<tableVars, keyVars, doneVars, failVars, read, flushVars>>
  BY DEF ExecuteNext
<1>10. TypeOK'
  BY <1>5, <1>6, <1>8, <1>9 DEF TypeInv, TypeOK
<1> QED
  BY <1>1, <1>3, <1>4, <1>5, <1>7, <1>9, <1>10, TypeKept

\* A synchronous write keeps the types.
LEMMA TypeWork == ASSUME TypeInv, NEW r \in Requests, Work(r) PROVE TypeInv'
<1> USE DEF tableVars, keyVars, doneVars, failVars, flushVars
<1>1. r \in Procs /\ pc[r] = "work"
  BY DEF Work, Procs
<1>2. hand[r] \in Messages /\ ~Is(r, "batch")
  BY <1>1 DEF TypeInv, HandKnown, OnPath, BatchPath
<1>3. UNCHANGED <<tableVars, keyVars, pushed, failVars, read, todo, flushVars>>
  BY DEF Work
<1>4. CASE KindOfMessage(hand[r]) = "user"
  <2>1. /\ Step(r, "work", GoOn(r, todo[r]))
        /\ written' = [written EXCEPT ![hand[r]] = @ + 1] /\ hand' = [hand EXCEPT ![r] = <<>>]
    BY <1>4 DEF Work
  <2>2. GoOn(r, todo[r]) \in {"done", "verify", "each"}
    BY <1>1, <1>2, GoOnLabel
  <2>3. PICK to \in {"done", "verify", "each"} : Step(r, "work", to)
    BY <2>1, <2>2
  <2>4. to \in Labels /\ to \notin Busy /\ to \notin {"new", "insert"}
    BY <2>3 DEF Labels, Awaiting, Busy
  <2>5. pc' \in [Procs -> Labels]
    BY <1>1, <2>3, <2>4, StepType DEF TypeInv
  <2>6. written' \in [Messages -> Nat]
    BY <1>2, <2>1 DEF TypeInv, TypeOK
  <2>7. hand' \in [Procs -> Messages \cup {<<>>}] /\ \A q \in Procs \ {r} : hand'[q] = hand[q]
    BY <1>1, <2>1 DEF TypeInv, TypeOK
  <2>8. TypeOK'
    BY <1>3, <2>5, <2>6, <2>7 DEF TypeInv, TypeOK
  <2> QED
    BY <1>1, <1>2, <1>3, <2>3, <2>4, <2>7, <2>8, TypeKept
<1>5. CASE KindOfMessage(hand[r]) # "user"
  <2>1. Step(r, "work", "advance") /\ UNCHANGED <<written, hand>>
    BY <1>5 DEF Work
  <2>2. pc' \in [Procs -> Labels]
    BY <1>1, <2>1, StepType DEF TypeInv, Labels, Awaiting
  <2>3. TypeOK'
    BY <1>3, <2>1, <2>2 DEF TypeInv, TypeOK
  <2>4. hand'[r] \in Messages
    BY <1>2, <2>1
  <2> QED
    BY <1>1, <1>2, <1>3, <2>1, <2>3, <2>4, TypeKept DEF Labels, Awaiting
<1> QED
  BY <1>4, <1>5

\* Passing over a message keeps the types.
LEMMA TypeSkip == ASSUME TypeInv, NEW r \in Requests, SkipMessage(r) PROVE TypeInv'
<1> USE DEF tableVars, keyVars, doneVars, failVars, flushVars, FaultsTyped
<1>1. r \in Procs /\ Is(r, "sync") /\ pc[r] \in {"work", "advance"} /\ Fault("error", {hand[r]})
  BY DEF SkipMessage, Procs
<1>2. /\ Step(r, pc[r], GoOn(r, todo[r])) /\ hand' = [hand EXCEPT ![r] = <<>>]
      /\ UNCHANGED <<tableVars, keyVars, doneVars, read, todo, flushVars>>
  BY DEF SkipMessage
<1>3. GoOn(r, todo[r]) \in {"done", "verify", "each"} /\ ~Is(r, "batch")
  BY <1>1, GoOnLabel, KindsApart
<1>4. PICK to \in {"done", "verify", "each"} : Step(r, pc[r], to)
  BY <1>2, <1>3
<1>5. to \in Labels /\ to \notin Busy /\ to \notin {"new", "insert"}
  BY <1>4 DEF Labels, Awaiting, Busy
<1>6. pc' \in [Procs -> Labels]
  BY <1>1, <1>4, <1>5, StepType DEF TypeInv
<1>7. hand' \in [Procs -> Messages \cup {<<>>}] /\ \A q \in Procs \ {r} : hand'[q] = hand[q]
  BY <1>1, <1>2 DEF TypeInv, TypeOK
<1>8. FaultsTyped'
  BY <1>1, FaultType DEF TypeInv, HandKnown
<1>9. TypeOK'
  BY <1>2, <1>6, <1>7, <1>8 DEF TypeInv, TypeOK
<1> QED
  BY <1>1, <1>2, <1>3, <1>4, <1>5, <1>7, <1>9, TypeKept

\* A step that only counts, looks or changes the marks.
LEMMA TypeQuiet ==
  ASSUME TypeInv, NEW p \in Procs, NEW from, NEW to \in Labels \ (Busy \cup {"new", "insert"}),
         Step(p, from, to), from \notin BatchPath,
         UNCHANGED <<seq, cursor, pushed, written, hand>>,
         marked' \subseteq Convs, recent' \subseteq Convs,
         UNCHANGED failVars \/ Fault("redis", {}),
         read' \in [Procs -> Nat], todo' \in [Procs -> SUBSET Messages],
         convs' \in [Flushers -> SUBSET Convs], at' \in [Flushers -> SUBSET Convs]
  PROVE  TypeInv'
<1>1. pc' \in [Procs -> Labels]
  BY StepType DEF TypeInv
<1>2. FaultsTyped'
  BY FaultType DEF TypeInv
<1>3. TypeOK'
  BY <1>1, <1>2 DEF TypeInv, TypeOK, FaultsTyped
<1> QED
  BY <1>3, TypeKept

\* Reading the cursor or the last message keeps the types.
LEMMA TypeReads ==
  ASSUME TypeInv, NEW p \in Procs, ReadCursor(p) \/ ReadLast(p) PROVE TypeInv'
<1> USE DEF tableVars, keyVars, doneVars, failVars, flushVars
<1>1. PICK from \in {"cursor", "verify"}, to \in {"pending", "compare"} : Step(p, from, to)
  BY DEF ReadCursor, ReadLast
<1>2. PICK n \in Nat : read' = [read EXCEPT ![p] = n]
  <2>1. CASE ReadCursor(p)
    <3>1. PICK c \in Convs : read' = [read EXCEPT ![p] = cursor[c]]
      BY <2>1 DEF ReadCursor
    <3> QED
      BY <3>1 DEF TypeInv, TypeOK
  <2>2. CASE ReadLast(p)
    <3>1. PICK c \in Convs : read' = [read EXCEPT ![p] = MaxSeq(c)]
      BY <2>2 DEF ReadLast
    <3> QED
      BY <3>1, MaxSeqIsMax
  <2> QED
    BY <2>1, <2>2
<1>3. UNCHANGED <<tableVars, keyVars, doneVars, failVars, todo, hand, flushVars>>
  BY DEF ReadCursor, ReadLast
<1>4. read' \in [Procs -> Nat]
  BY <1>2 DEF TypeInv, TypeOK
<1>5. from \notin BatchPath /\ to \in Labels \ (Busy \cup {"new", "insert"})
  BY DEF BatchPath, Labels, Awaiting, Busy
<1>6. /\ marked' \subseteq Convs /\ recent' \subseteq Convs
      /\ todo' \in [Procs -> SUBSET Messages]
      /\ convs' \in [Flushers -> SUBSET Convs] /\ at' \in [Flushers -> SUBSET Convs]
  BY <1>3 DEF TypeInv, TypeOK
<1> QED
  BY <1>1, <1>3, <1>4, <1>5, <1>6, TypeQuiet

\* Reading the messages behind the cursor keeps the types.
LEMMA TypeReadPending == ASSUME TypeInv, NEW p \in Procs, ReadPending(p) PROVE TypeInv'
<1> USE DEF tableVars, keyVars, doneVars, failVars, flushVars
<1>1. PICK c \in Convs :
        LET rows == {m \in Rows(c) : seq[m] > read[p]}
        IN  /\ Step(p, "pending", CASE rows = {} -> IF Is(p, "sync") THEN "verify" ELSE Leave(p)
                                    [] Is(p, "ingest") -> "choose"
                                    [] OTHER -> "each")
            /\ todo' = [todo EXCEPT ![p] = rows]
  BY DEF ReadPending
<1>2. Leave(p) \in {"done", "convs"}
  BY GoOnLabel
<1>3. PICK to \in {"verify", "done", "convs", "choose", "each"} : Step(p, "pending", to)
  BY <1>1, <1>2
<1>4. to \in Labels \ (Busy \cup {"new", "insert"}) /\ "pending" \notin BatchPath
  BY DEF BatchPath, Labels, Awaiting, Busy
<1>5. todo' \in [Procs -> SUBSET Messages]
  BY <1>1, RowsAreMessages DEF TypeInv, TypeOK
<1>6. /\ UNCHANGED <<tableVars, keyVars, doneVars, failVars, hand, flushVars>>
      /\ read' = [read EXCEPT ![p] = 0]
  BY DEF ReadPending, Used
<1>7. /\ marked' \subseteq Convs /\ recent' \subseteq Convs
      /\ read' \in [Procs -> Nat]
      /\ convs' \in [Flushers -> SUBSET Convs] /\ at' \in [Flushers -> SUBSET Convs]
  BY <1>6 DEF TypeInv, TypeOK
<1> QED
  BY <1>3, <1>4, <1>5, <1>6, <1>7, TypeQuiet

\* Comparing and unmarking keep the types.
LEMMA TypeCompare == ASSUME TypeInv, NEW p \in Procs, Compare(p) \/ Unmark(p) PROVE TypeInv'
<1> USE DEF tableVars, keyVars, doneVars, failVars, bodyVars, flushVars
<1>1. Leave(p) \in {"done", "convs"}
  BY GoOnLabel
<1>2. PICK from \in {"compare", "unmark"}, to \in {"unmark", "done", "convs"} : Step(p, from, to)
  BY <1>1 DEF Compare, Unmark
<1>3. to \in Labels \ (Busy \cup {"new", "insert"}) /\ from \notin BatchPath
  BY DEF BatchPath, Labels, Awaiting, Busy
<1>4. UNCHANGED <<tableVars, recent, doneVars, todo, hand, flushVars>>
  BY DEF Compare, Unmark
<1>5. /\ read' = read \/ read' = [read EXCEPT ![p] = 0]
      /\ marked' \subseteq marked /\ (UNCHANGED failVars \/ Fault("redis", {}))
  BY DEF Compare, Unmark, Used
<1>6. /\ marked' \subseteq Convs /\ recent' \subseteq Convs
      /\ todo' \in [Procs -> SUBSET Messages]
      /\ convs' \in [Flushers -> SUBSET Convs] /\ at' \in [Flushers -> SUBSET Convs]
  BY <1>4, <1>5 DEF TypeInv, TypeOK
<1>7. read' \in [Procs -> Nat]
  <2>1. read \in [Procs -> Nat]
    BY DEF TypeInv, TypeOK
  <2> QED
    BY <1>5, <2>1
<1> QED
  BY <1>2, <1>3, <1>4, <1>5, <1>6, <1>7, TypeQuiet

\* The flush scan's list of candidates keeps the types.
LEMMA TypeConvs ==
  ASSUME TypeInv, NEW f \in Flushers, Scan(f) \/ Query(f) \/ NextConv(f) \/ ScanEnds(f)
  PROVE  TypeInv'
<1> USE DEF tableVars, keyVars, doneVars, failVars, bodyVars, flushVars
<1>1. f \in Procs
  BY DEF Procs
<1>2. PICK from \in {"idle", "query", "convs"}, to \in {"convs", "query", "cursor", "idle"} :
        Step(f, from, to)
  BY DEF Scan, Query, NextConv, ScanEnds
<1>3. to \in Labels \ (Busy \cup {"new", "insert"}) /\ from \notin BatchPath
  BY DEF BatchPath, Labels, Awaiting, Busy
<1>4. UNCHANGED <<tableVars, keyVars, doneVars, bodyVars>>
  BY DEF Scan, Query, NextConv, ScanEnds
<1>5. UNCHANGED failVars \/ Fault("redis", {})
  BY DEF Scan, Query, NextConv, ScanEnds
<1>6. convs' = convs \/ \E C \in SUBSET Convs : convs' = [convs EXCEPT ![f] = C]
  <2>1. marked \subseteq Convs /\ convs[f] \subseteq Convs
    BY DEF TypeInv, TypeOK
  <2>2. CASE Scan(f)
    BY <2>1, <2>2 DEF Scan
  <2>3. CASE Query(f)
    BY <2>3 DEF Query
  <2>4. CASE NextConv(f)
    BY <2>1, <2>4 DEF NextConv
  <2>5. CASE ScanEnds(f)
    BY <2>5 DEF ScanEnds
  <2> QED
    BY <2>2, <2>3, <2>4, <2>5
<1>7. at' = at \/ \E C \in SUBSET Convs : at' = [at EXCEPT ![f] = C]
  <2>1. convs[f] \subseteq Convs
    BY DEF TypeInv, TypeOK
  <2>2. CASE NextConv(f)
    BY <2>1, <2>2 DEF NextConv
  <2>3. CASE Scan(f) \/ Query(f) \/ ScanEnds(f)
    BY <2>3 DEF Scan, Query, ScanEnds
  <2> QED
    BY <2>2, <2>3
<1>8. convs' \in [Flushers -> SUBSET Convs] /\ at' \in [Flushers -> SUBSET Convs]
  BY <1>6, <1>7 DEF TypeInv, TypeOK
<1>9. /\ marked' \subseteq Convs /\ recent' \subseteq Convs
      /\ read' \in [Procs -> Nat] /\ todo' \in [Procs -> SUBSET Messages]
  BY <1>4 DEF TypeInv, TypeOK
<1> QED
  BY <1>1, <1>2, <1>3, <1>4, <1>5, <1>8, <1>9, TypeQuiet

\* Advancing the cursor keeps the types.
LEMMA TypeAdvance == ASSUME TypeInv, NEW p \in Procs, Advance(p) PROVE TypeInv'
<1> USE DEF tableVars, keyVars, doneVars, failVars, flushVars
<1>1. pc[p] = "advance" /\ AdvanceCursor(ConvOfMessage(hand[p]), seq[hand[p]])
      /\ UNCHANGED <<seq, keyVars, doneVars, failVars, read, todo, flushVars>>
  BY DEF Advance
<1>2. hand[p] \in Messages /\ ~Is(p, "batch")
  BY <1>1 DEF TypeInv, HandKnown, OnPath, BatchPath
<1>3. cursor' \in [Convs -> Nat]
  <2>1. ConvOfMessage(hand[p]) \in Convs /\ seq[hand[p]] \in Nat
    BY <1>2, MessageIs DEF TypeInv, TypeOK
  <2> QED
    BY <1>1, <2>1, CursorType
<1>4. GoOn(p, todo[p]) \in {"done", "verify", "each"}
  BY <1>2, GoOnLabel
<1>5. PICK to \in {"push", "done", "verify", "each"} :
        /\ Step(p, "advance", to)
        /\ \/ to = "push" /\ UNCHANGED hand
           \/ to # "push" /\ hand' = [hand EXCEPT ![p] = <<>>]
  BY <1>4 DEF Advance
<1>6. to \in Labels /\ to \notin {"new", "insert"} /\ (to \in Busy => to = "push")
  BY <1>5 DEF Labels, Awaiting, Busy
<1>7. pc' \in [Procs -> Labels]
  BY <1>5, <1>6, StepType DEF TypeInv
<1>8. /\ hand' \in [Procs -> Messages \cup {<<>>}]
      /\ \A q \in Procs \ {p} : hand'[q] = hand[q]
      /\ to = "push" => hand'[p] \in Messages
  BY <1>2, <1>5 DEF TypeInv, TypeOK
<1>9. TypeOK'
  BY <1>1, <1>3, <1>7, <1>8 DEF TypeInv, TypeOK
<1> QED
  BY <1>1, <1>2, <1>5, <1>6, <1>8, <1>9, TypeKept

\* Pushing a task keeps the types.
LEMMA TypePush == ASSUME TypeInv, NEW p \in Procs, Push(p) PROVE TypeInv'
<1> USE DEF tableVars, keyVars, doneVars, failVars, flushVars
<1>1. /\ Step(p, "push", GoOn(p, todo[p])) /\ pushed' = [pushed EXCEPT ![hand[p]] = @ + 1]
      /\ UNCHANGED <<tableVars, keyVars, written, failVars, read, flushVars>>
  BY DEF Push
<1>2. pushed' \in [Messages -> Nat]
  <2>1. pushed \in [Messages -> Nat]
    BY DEF TypeInv, TypeOK
  <2>2. hand[p] \in Messages
    BY <1>1 DEF TypeInv, HandKnown, Step
  <2>3. pushed[hand[p]] + 1 \in Nat
    BY <2>1, <2>2
  <2> QED
    BY <1>1, <2>1, <2>3
<1>3. GoOn(p, todo[p]) \in {"done", "push", "verify", "each"}
      /\ (GoOn(p, todo[p]) = "push" <=> Is(p, "batch") /\ todo[p] # {})
      /\ (Is(p, "batch") => GoOn(p, todo[p]) \in BatchPath)
  BY GoOnLabel, KindsApart
<1>4. PICK to \in {"done", "push", "verify", "each"} :
        /\ Step(p, "push", to) /\ (to = "push" <=> Is(p, "batch") /\ todo[p] # {})
        /\ Is(p, "batch") => to \in BatchPath
  BY <1>1, <1>3
<1>5. to \in Labels /\ to \notin {"new", "insert"} /\ (to \in Busy => to = "push")
  BY <1>4 DEF Labels, Awaiting, Busy
<1>6. pc' \in [Procs -> Labels]
  BY <1>4, <1>5, StepType DEF TypeInv
<1>7. /\ hand' \in [Procs -> Messages \cup {<<>>}] /\ todo' \in [Procs -> SUBSET Messages]
      /\ \A q \in Procs \ {p} : hand'[q] = hand[q]
      /\ to = "push" => hand'[p] \in Messages
  <2>1. hand \in [Procs -> Messages \cup {<<>>}] /\ todo \in [Procs -> SUBSET Messages]
    BY DEF TypeInv, TypeOK
  <2>2. CASE Is(p, "batch") /\ todo[p] # {}
    <3>1. PICK m \in todo[p] : /\ hand' = [hand EXCEPT ![p] = m]
                               /\ todo' = [todo EXCEPT ![p] = @ \ {m}]
      BY <2>2 DEF Push
    <3>2. m \in Messages
      BY <2>1
    <3> QED
      BY <2>1, <3>1, <3>2
  <2>3. CASE ~(Is(p, "batch") /\ todo[p] # {})
    <3>1. hand' = [hand EXCEPT ![p] = <<>>] /\ UNCHANGED todo
      BY <2>3 DEF Push
    <3> QED
      BY <1>4, <2>1, <2>3, <3>1
  <2> QED
    BY <2>2, <2>3
<1>8. TypeOK'
  BY <1>1, <1>2, <1>6, <1>7 DEF TypeInv, TypeOK
<1> QED
  BY <1>1, <1>4, <1>5, <1>7, <1>8, TypeKept

\* The flush's next message keeps the types.
LEMMA TypeFlushNext == ASSUME TypeInv, NEW f \in Flushers, FlushNext(f) PROVE TypeInv'
<1> USE DEF tableVars, keyVars, doneVars, failVars, flushVars
<1>1. f \in Procs /\ ~Is(f, "batch")
  BY DispatchAssumption DEF Procs, Is
<1>2. UNCHANGED <<seq, keyVars, doneVars, failVars, read, flushVars>>
  BY DEF FlushNext
<1>3. PICK m \in todo[f] :
        /\ todo' = [todo EXCEPT ![f] = @ \ {m}]
        /\ \/ Step(f, "each", "lookup") /\ hand' = [hand EXCEPT ![f] = m] /\ UNCHANGED cursor
           \/ /\ Step(f, "each", GoOn(f, todo[f] \ {m}))
              /\ AdvanceCursor(ConvOfMessage(m), seq[m]) /\ UNCHANGED hand
  BY DEF FlushNext
<1>4. GoOn(f, todo[f] \ {m}) \in {"done", "verify", "each"}
  BY <1>1, GoOnLabel
<1>5. PICK to \in {"lookup", "done", "verify", "each"} :
        /\ Step(f, "each", to)
        /\ \/ hand' = [hand EXCEPT ![f] = m] /\ UNCHANGED cursor
           \/ /\ to # "lookup" /\ AdvanceCursor(ConvOfMessage(m), seq[m]) /\ UNCHANGED hand
  BY <1>3, <1>4
<1>6. to \in Labels /\ to \notin {"new", "insert"} /\ (to \in Busy => to = "lookup")
  BY <1>5 DEF Labels, Awaiting, Busy
<1>7. pc' \in [Procs -> Labels]
  BY <1>1, <1>5, <1>6, StepType DEF TypeInv
<1>8. m \in Messages /\ ConvOfMessage(m) \in Convs /\ seq[m] \in Nat
  BY <1>1, MessageIs DEF TypeInv, TypeOK
<1>9. cursor' \in [Convs -> Nat]
  <2>1. CASE UNCHANGED cursor
    BY <2>1 DEF TypeInv, TypeOK
  <2>2. CASE AdvanceCursor(ConvOfMessage(m), seq[m])
    BY <1>8, <2>2, CursorType
  <2> QED
    BY <1>5, <2>1, <2>2
<1>10. todo' \in [Procs -> SUBSET Messages]
  BY <1>1, <1>3 DEF TypeInv, TypeOK
<1>11. /\ hand' \in [Procs -> Messages \cup {<<>>}] /\ \A q \in Procs \ {f} : hand'[q] = hand[q]
       /\ to = "lookup" => hand'[f] \in Messages
  <2>1. hand \in [Procs -> Messages \cup {<<>>}]
    BY DEF TypeInv, TypeOK
  <2>2. hand' = [hand EXCEPT ![f] = m] \/ (to # "lookup" /\ hand' = hand)
    BY <1>5
  <2> QED
    BY <1>1, <1>8, <2>1, <2>2
<1>12. TypeOK'
  BY <1>2, <1>7, <1>9, <1>10, <1>11 DEF TypeInv, TypeOK
<1> QED
  BY <1>1, <1>2, <1>5, <1>6, <1>11, <1>12, TypeKept

\* Looking up the configuration keeps the types.
LEMMA TypeLookup == ASSUME TypeInv, NEW f \in Flushers, Lookup(f) PROVE TypeInv'
<1> USE DEF tableVars, keyVars, doneVars, failVars, flushVars
<1>1. f \in Procs /\ pc[f] = "lookup"
  BY DEF Procs, Lookup
<1>2. hand[f] \in Messages
  BY <1>1 DEF TypeInv, HandKnown
<1>3. UNCHANGED <<tableVars, keyVars, doneVars, failVars, read, flushVars>>
  BY DEF Lookup
<1>4. PICK to \in {"advance", "convs"} :
        /\ Step(f, "lookup", to)
        /\ \/ UNCHANGED <<todo, hand>>
           \/ /\ to = "convs"
              /\ todo' = [todo EXCEPT ![f] = {}] /\ hand' = [hand EXCEPT ![f] = <<>>]
  BY DEF Lookup
<1>5. /\ to \in Labels /\ to \notin {"new", "insert"} /\ (to \in Busy => to = "advance")
      /\ "lookup" \notin BatchPath
  BY <1>4 DEF Labels, Awaiting, Busy, BatchPath
<1>6. pc' \in [Procs -> Labels]
  BY <1>1, <1>4, <1>5, StepType DEF TypeInv
<1>7. todo' \in [Procs -> SUBSET Messages]
  BY <1>4 DEF TypeInv, TypeOK
<1>8. /\ hand' \in [Procs -> Messages \cup {<<>>}] /\ \A q \in Procs \ {f} : hand'[q] = hand[q]
      /\ to = "advance" => hand'[f] \in Messages
  BY <1>1, <1>2, <1>4 DEF TypeInv, TypeOK
<1>9. TypeOK'
  BY <1>3, <1>6, <1>7, <1>8 DEF TypeInv, TypeOK
<1> QED
  BY <1>1, <1>3, <1>4, <1>5, <1>8, <1>9, TypeKept

\* An abandoned call keeps the types.
LEMMA TypeAbandon == ASSUME TypeInv, NEW p \in Procs, Abandon(p) PROVE TypeInv'
<1> USE DEF tableVars, keyVars, doneVars, failVars, flushVars, FaultsTyped
<1>1. /\ pc[p] \notin {"new"} /\ Fault("error", Costs(p))
      /\ Step(p, pc[p], Leave(p)) /\ hand' = [hand EXCEPT ![p] = <<>>]
      /\ todo' = [todo EXCEPT ![p] = {}] /\ read' = [read EXCEPT ![p] = 0]
      /\ UNCHANGED <<tableVars, keyVars, doneVars, flushVars>>
  BY DEF Abandon, Used, Awaiting
<1>2. /\ Leave(p) \in {"done", "convs"}
      /\ Is(p, "batch") => Leave(p) = "done"
  BY GoOnLabel DEF Leave, Is
<1>3. PICK to \in {"done", "convs"} : Step(p, pc[p], to) /\ (Is(p, "batch") => to \in BatchPath)
  BY <1>1, <1>2 DEF BatchPath
<1>4. to \in Labels /\ to \notin Busy /\ to \notin {"new", "insert"}
  BY <1>3 DEF Labels, Awaiting, Busy
<1>5. pc' \in [Procs -> Labels]
  BY <1>3, <1>4, StepType DEF TypeInv
<1>6. FaultsTyped'
  BY <1>1, FaultType DEF TypeInv, Costs, Taken
<1>7. /\ hand' \in [Procs -> Messages \cup {<<>>}] /\ \A q \in Procs \ {p} : hand'[q] = hand[q]
      /\ todo' \in [Procs -> SUBSET Messages] /\ read' \in [Procs -> Nat]
  BY <1>1 DEF TypeInv, TypeOK
<1>8. TypeOK'
  BY <1>1, <1>5, <1>6, <1>7 DEF TypeInv, TypeOK
<1> QED
  BY <1>1, <1>3, <1>4, <1>7, <1>8, TypeKept

\* Processes that die hold nothing, and a request among them is done.
LEMMA TypeDie ==
  ASSUME TypeInv, NEW ps \in SUBSET Procs, Die(ps),
         convs' \in [Flushers -> SUBSET Convs], at' \in [Flushers -> SUBSET Convs]
  PROVE  TypeInv'
<1> USE DEF tableVars, keyVars, doneVars, failVars, flushVars, FaultsTyped
<1>1. /\ Fault("crash", UNION {Costs(p) : p \in ps})
      /\ pc' = [p \in Procs |-> IF p \notin ps THEN pc[p]
                                ELSE IF p \in Requests THEN "done" ELSE "idle"]
      /\ todo' = [p \in Procs |-> IF p \in ps THEN {} ELSE todo[p]]
      /\ hand' = [p \in Procs |-> IF p \in ps THEN <<>> ELSE hand[p]]
      /\ read' = [p \in Procs |-> IF p \in ps THEN 0 ELSE read[p]]
      /\ UNCHANGED <<tableVars, keyVars, doneVars>>
  BY DEF Die
<1>2. \A p \in Procs :
        /\ p \notin ps => pc'[p] = pc[p] /\ hand'[p] = hand[p]
        /\ p \in ps => pc'[p] = IF p \in Requests THEN "done" ELSE "idle"
  BY <1>1
<1>3. pc' \in [Procs -> Labels]
  BY <1>1 DEF TypeInv, TypeOK, Labels, Awaiting
<1>4. /\ todo' \in [Procs -> SUBSET Messages] /\ hand' \in [Procs -> Messages \cup {<<>>}]
      /\ read' \in [Procs -> Nat]
  BY <1>1 DEF TypeInv, TypeOK
<1>5. FaultsTyped'
  <2>1. UNION {Costs(p) : p \in ps} \in SUBSET Messages
    BY DEF Costs, Taken
  <2> QED
    BY <1>1, <2>1, FaultType DEF TypeInv
<1>6. TypeOK'
  BY <1>1, <1>3, <1>4, <1>5 DEF TypeInv, TypeOK
<1>7. HandKnown'
  BY <1>2 DEF TypeInv, HandKnown
<1>8. OnPath'
  BY <1>2 DEF TypeInv, OnPath, BatchPath, Is
<1>9. NoRowYet'
  <2>1. \A m \in Messages : m[1] \in Procs
    BY MessageIs DEF Procs
  <2>2. \A p \in Procs : pc'[p] \in {"new", "insert"} => pc[p] \in {"new", "insert"}
    BY <1>2
  <2> QED
    BY <1>1, <2>1, <2>2 DEF TypeInv, NoRowYet
<1> QED
  BY <1>1, <1>6, <1>7, <1>8, <1>9, MaxExistsKept DEF TypeInv

\* A crash keeps the types.
LEMMA TypeCrash ==
  ASSUME TypeInv, (\E l : CrashLoop(l)) \/ (\E f \in Flushers : CrashFlush(f)) PROVE TypeInv'
<1>1. ASSUME NEW l, CrashLoop(l) PROVE TypeInv'
  <2> DEFINE ps == {r \in Requests : LoopOf[r] = l /\ pc[r] # "new"}
  <2>1. Die(ps) /\ UNCHANGED flushVars
    BY <1>1 DEF CrashLoop
  <2>2. ps \in SUBSET Procs
    BY DEF Procs
  <2>3. convs' \in [Flushers -> SUBSET Convs] /\ at' \in [Flushers -> SUBSET Convs]
    BY <2>1 DEF TypeInv, TypeOK, flushVars
  <2> QED
    BY <2>1, <2>2, <2>3, TypeDie
<1>2. ASSUME NEW f \in Flushers, CrashFlush(f) PROVE TypeInv'
  <2>1. Die({f}) /\ convs' = [convs EXCEPT ![f] = {}] /\ at' = [at EXCEPT ![f] = {}]
    BY <1>2 DEF CrashFlush
  <2>2. convs' \in [Flushers -> SUBSET Convs] /\ at' \in [Flushers -> SUBSET Convs]
    BY <2>1 DEF TypeInv, TypeOK
  <2> QED
    BY <2>1, <2>2, TypeDie DEF Procs
<1> QED
  BY <1>1, <1>2

\* The expiry of a key keeps the types.
LEMMA TypeExpire == ASSUME TypeInv, NEW c \in Convs, Expire(c) PROVE TypeInv'
<1> USE DEF tableVars, keyVars, doneVars, failVars, bodyVars, flushVars, FaultsTyped
<1>1. /\ recent' = recent \ {c} /\ (UNCHANGED failVars \/ Fault("stall", {}))
      /\ UNCHANGED <<tableVars, marked, doneVars, pc, bodyVars, flushVars>>
  BY DEF Expire
<1>2. FaultsTyped'
  BY <1>1, FaultType DEF TypeInv
<1>3. TypeOK'
  BY <1>1, <1>2 DEF TypeInv, TypeOK
<1> QED
  BY <1>1, <1>3, MaxExistsKept DEF TypeInv, HandKnown, NoRowYet, OnPath

\* Every step keeps the types.
LEMMA TypeStep == TypeInv /\ [Next]_vars => TypeInv'
<1> SUFFICES ASSUME TypeInv, [Next]_vars PROVE TypeInv'
  OBVIOUS
<1>1. ASSUME NEW r \in Requests, Request(r) PROVE TypeInv'
  BY <1>1, TypeReadMax, TypeInsert, TypeJump, TypeMark, TypeChoose, TypeExecute, TypeWork,
     TypeSkip DEF Request
<1>2. ASSUME NEW f \in Flushers, Flush(f) PROVE TypeInv'
  BY <1>2, TypeConvs, TypeFlushNext, TypeLookup DEF Flush
<1>3. ASSUME NEW p \in Procs, Shared(p) \/ Abandon(p) PROVE TypeInv'
  BY <1>3, TypeReads, TypeReadPending, TypeAdvance, TypePush, TypeCompare, TypeAbandon
     DEF Shared
<1>4. CASE UNCHANGED vars
  <2>1. TypeOK'
    BY <1>4 DEF TypeInv, TypeOK, vars, tableVars, keyVars, doneVars, failVars, bodyVars, flushVars
  <2> QED
    BY <1>4, <2>1, MaxExistsKept
       DEF TypeInv, HandKnown, NoRowYet, OnPath, vars, tableVars, bodyVars
<1> QED
  BY <1>1, <1>2, <1>3, <1>4, TypeCrash, TypeExpire DEF Next

\* TypeOK of every run of the dispatcher: whatever requests and flush scans do, and
\* wherever they fail, the tables, the marks and what each process holds stay what
\* they are taken for.  A process that is to advance over, push, write or look up a
\* message has one in hand (HandKnown).
THEOREM DispatchTypeCorrect == Spec => []TypeOK
<1>1. TypeInv => TypeOK
  BY DEF TypeInv
<1> QED
  BY <1>1, TypeInit, TypeStep, PTL DEF Spec

-----------------------------------------------------------------------------
(* What most steps leave alone *)

Others(ps) ==
  \A q \in Procs \ ps : /\ pc'[q] = pc[q] /\ read'[q] = read[q]
                        /\ todo'[q] = todo[q] /\ hand'[q] = hand[q]

\* What a process has in hand or loaded it had before, or it is of its conversation.
Loads(p) ==
  \A m \in todo'[p] \cup {hand'[p]} :
    m \in todo[p] \cup {hand[p], <<>>} \/ (m \in Messages /\ IsAt(p, ConvOfMessage(m)))

CursorGrows == \A c \in Convs : cursor[c] <= cursor'[c]

FlushesServe == \A f \in Flushers : at'[f] \subseteq at[f] \cup Flushable

\* One process runs, or some end.
OneRuns(ps) ==
  (\E p \in ps : ps = {p} /\ MayRun(p)) \/ (\A p \in ps \cap Requests : pc'[p] \in Awaiting)

\* The processes ps may run or end; nothing is numbered, claimed or pushed.
Calm(ps) ==
  /\ UNCHANGED <<seq, pushed>> /\ CursorGrows /\ Others(ps) /\ FlushesServe
  /\ OneRuns(ps)
  /\ \A p \in ps : pc'[p] \notin {"new", "insert", "jump", "push"} /\ Loads(p)

\* Cursors that stay have not gone back.
LEMMA CursorSame == ASSUME TypeInv, UNCHANGED cursor PROVE CursorGrows
BY DEF TypeInv, TypeOK, CursorGrows

\* A step of one process is calm if it numbers, claims and pushes nothing.
LEMMA CalmIs ==
  ASSUME TypeInv, UNCHANGED <<seq, pushed>>, CursorGrows, FlushesServe,
         NEW p \in Procs, NEW from, NEW to \in Labels \ {"new", "insert", "jump", "push"},
         Step(p, from, to),
         \A q \in Procs \ {p} : read'[q] = read[q] /\ todo'[q] = todo[q] /\ hand'[q] = hand[q],
         Loads(p)
  PROVE  Calm({p})
<1>1. /\ pc'[p] = to /\ MayRun(p) /\ \A q \in Procs \ {p} : pc'[q] = pc[q]
  BY StepType DEF TypeInv
<1>2. Others({p})
  BY <1>1 DEF Others
<1> QED
  BY <1>1, <1>2 DEF Calm, OneRuns

\* Reads and comparisons are calm.
LEMMA CalmReads ==
  ASSUME TypeInv, NEW p \in Procs, ReadCursor(p) \/ ReadLast(p) \/ Compare(p) \/ Unmark(p)
  PROVE  Calm({p})
<1> USE DEF tableVars, keyVars, doneVars, failVars, bodyVars, flushVars
<1>1. Leave(p) \in {"done", "convs"}
  BY GoOnLabel
<1>2. PICK from, to \in {"cursor", "pending", "verify", "compare", "unmark", "done", "convs"} :
        Step(p, from, to)
  BY <1>1 DEF ReadCursor, ReadLast, Compare, Unmark
<1>3. UNCHANGED <<seq, cursor, pushed, todo, hand, at>>
  BY DEF ReadCursor, ReadLast, Compare, Unmark
<1>4. read' = read \/ \E n : read' = [read EXCEPT ![p] = n]
  BY DEF ReadCursor, ReadLast, Compare, Unmark, Used
<1>5. \A q \in Procs \ {p} : read'[q] = read[q]
  BY <1>4 DEF TypeInv, TypeOK
<1>6. Loads(p) /\ FlushesServe /\ CursorGrows
  BY <1>3, CursorSame DEF Loads, FlushesServe
<1>7. to \in Labels \ {"new", "insert", "jump", "push"}
  BY DEF Labels, Awaiting
<1> QED
  BY <1>2, <1>3, <1>5, <1>6, <1>7, CalmIs

\* Reading the pending messages is calm.
LEMMA CalmReadPending == ASSUME TypeInv, NEW p \in Procs, ReadPending(p) PROVE Calm({p})
<1> USE DEF tableVars, keyVars, doneVars, failVars, flushVars
<1>1. PICK c \in Convs :
        /\ IsAt(p, c)
        /\ LET rows == {m \in Rows(c) : seq[m] > read[p]}
           IN  /\ Step(p, "pending", CASE rows = {} -> IF Is(p, "sync") THEN "verify" ELSE Leave(p)
                                       [] Is(p, "ingest") -> "choose"
                                       [] OTHER -> "each")
               /\ todo' = [todo EXCEPT ![p] = rows]
  BY DEF ReadPending
<1>2. Leave(p) \in {"done", "convs"}
  BY GoOnLabel
<1>3. PICK to \in {"verify", "done", "convs", "choose", "each"} : Step(p, "pending", to)
  BY <1>1, <1>2
<1>4. UNCHANGED <<seq, cursor, pushed, hand, at>> /\ read' = [read EXCEPT ![p] = 0]
  BY DEF ReadPending, Used
<1>5. /\ todo'[p] \subseteq Rows(c)
      /\ \A q \in Procs \ {p} : read'[q] = read[q] /\ todo'[q] = todo[q] /\ hand'[q] = hand[q]
  BY <1>1, <1>4 DEF TypeInv, TypeOK
<1>6. \A m \in Rows(c) : m \in Messages /\ ConvOfMessage(m) = c
  BY DEF Rows
<1>7. Loads(p)
  BY <1>1, <1>4, <1>5, <1>6 DEF Loads
<1>8. FlushesServe /\ CursorGrows
  BY <1>4, CursorSame DEF FlushesServe
<1>9. to \in Labels \ {"new", "insert", "jump", "push"}
  BY DEF Labels, Awaiting
<1> QED
  BY <1>3, <1>4, <1>5, <1>7, <1>8, <1>9, CalmIs

\* Marking in Redis is calm.
LEMMA CalmMark ==
  ASSUME TypeInv, NEW r \in Requests, Refresh(r) \/ Mark(r) PROVE Calm({r})
<1> USE DEF tableVars, doneVars, failVars, bodyVars, flushVars
<1>1. PICK from \in {"refresh", "mark"}, to \in {"mark", "cursor"} : Step(r, from, to)
  BY DEF Refresh, Mark
<1>2. UNCHANGED <<seq, cursor, pushed, bodyVars, at>>
  BY DEF Refresh, Mark
<1>3. Loads(r) /\ FlushesServe /\ CursorGrows
  BY <1>2, CursorSame DEF Loads, FlushesServe
<1>4. to \in Labels \ {"new", "insert", "jump", "push"} /\ r \in Procs
  BY DEF Labels, Awaiting, Procs
<1> QED
  BY <1>1, <1>2, <1>3, <1>4, CalmIs

\* Taking up a path is calm.
LEMMA CalmTakes ==
  ASSUME TypeInv, NEW r \in Requests, Choose(r) \/ ExecuteNext(r) PROVE Calm({r})
<1> USE DEF tableVars, keyVars, doneVars, failVars, flushVars
<1>1. r \in Procs
  BY DEF Procs
<1>2. PICK from, to \in {"done", "advance", "work", "choose", "each"} : Step(r, from, to)
  BY DEF Choose, ExecuteNext
<1>3. /\ UNCHANGED <<seq, cursor, pushed, read, at>>
      /\ \E rest \in SUBSET todo[r] : todo' = [todo EXCEPT ![r] = rest]
      /\ hand' = hand \/ \E m \in todo[r] : hand' = [hand EXCEPT ![r] = m]
  <2>1. CASE Choose(r)
    BY <2>1 DEF Choose
  <2>2. CASE ExecuteNext(r)
    BY <2>2 DEF ExecuteNext
  <2> QED
    BY <2>1, <2>2
<1>4. /\ todo'[r] \subseteq todo[r] /\ hand'[r] \in todo[r] \cup {hand[r]}
      /\ \A q \in Procs \ {r} : todo'[q] = todo[q] /\ hand'[q] = hand[q]
  BY <1>1, <1>3 DEF TypeInv, TypeOK
<1>5. Loads(r) /\ FlushesServe /\ CursorGrows
  BY <1>3, <1>4, CursorSame DEF Loads, FlushesServe
<1>6. to \in Labels \ {"new", "insert", "jump", "push"}
  BY DEF Labels, Awaiting
<1> QED
  BY <1>1, <1>2, <1>3, <1>4, <1>5, <1>6, CalmIs

\* Synchronous writes are calm.
LEMMA CalmWork ==
  ASSUME TypeInv, NEW r \in Requests, Work(r) \/ SkipMessage(r) PROVE Calm({r})
<1> USE DEF tableVars, keyVars, doneVars, failVars, flushVars
<1>1. r \in Procs
  BY DEF Procs
<1>2. GoOn(r, todo[r]) \in {"done", "verify", "each"}
  <2>1. ~Is(r, "batch")
    BY <1>1, KindsApart DEF Work, SkipMessage, TypeInv, OnPath, BatchPath
  <2> QED
    BY <1>1, <2>1, GoOnLabel
<1>3. PICK from, to \in {"work", "advance", "done", "verify", "each"} : Step(r, from, to)
  BY <1>2 DEF Work, SkipMessage
<1>4. /\ UNCHANGED <<seq, cursor, pushed, read, todo, at>>
      /\ hand' = hand \/ hand' = [hand EXCEPT ![r] = <<>>]
  BY DEF Work, SkipMessage
<1>5. hand'[r] \in {hand[r], <<>>} /\ \A q \in Procs \ {r} : hand'[q] = hand[q]
  BY <1>1, <1>4 DEF TypeInv, TypeOK
<1>6. Loads(r) /\ FlushesServe /\ CursorGrows
  BY <1>4, <1>5, CursorSame DEF Loads, FlushesServe
<1>7. to \in Labels \ {"new", "insert", "jump", "push"}
  BY DEF Labels, Awaiting
<1> QED
  BY <1>1, <1>3, <1>4, <1>5, <1>6, <1>7, CalmIs

\* The flush's scan is calm.
LEMMA CalmConvs ==
  ASSUME TypeInv, NEW f \in Flushers, Scan(f) \/ Query(f) \/ NextConv(f) \/ ScanEnds(f)
  PROVE  Calm({f})
<1> USE DEF tableVars, keyVars, doneVars, failVars, bodyVars, flushVars
<1>1. PICK from, to \in {"idle", "query", "convs", "cursor"} : Step(f, from, to)
  BY DEF Scan, Query, NextConv, ScanEnds
<1>2. UNCHANGED <<seq, cursor, pushed, bodyVars>>
  BY DEF Scan, Query, NextConv, ScanEnds
<1>3. at' = at \/ \E C \in SUBSET Flushable : at' = [at EXCEPT ![f] = C]
  BY DEF Scan, Query, NextConv, ScanEnds
<1>4. FlushesServe
  BY <1>3 DEF FlushesServe, TypeInv, TypeOK
<1>5. Loads(f) /\ CursorGrows
  BY <1>2, CursorSame DEF Loads
<1>6. to \in Labels \ {"new", "insert", "jump", "push"} /\ f \in Procs
  BY DEF Labels, Awaiting, Procs
<1> QED
  BY <1>1, <1>2, <1>4, <1>5, <1>6, CalmIs

\* The flush's choice of a message is calm.
LEMMA CalmFlush ==
  ASSUME TypeInv, NEW f \in Flushers, FlushNext(f) \/ Lookup(f) PROVE Calm({f})
<1> USE DEF tableVars, keyVars, doneVars, failVars, flushVars
<1>1. f \in Procs /\ ~Is(f, "batch")
  BY DispatchAssumption DEF Procs, Is
<1>2. CASE FlushNext(f)
  <2>1. PICK m \in todo[f] :
          /\ todo' = [todo EXCEPT ![f] = @ \ {m}]
          /\ \/ Step(f, "each", "lookup") /\ hand' = [hand EXCEPT ![f] = m] /\ UNCHANGED cursor
             \/ /\ Step(f, "each", GoOn(f, todo[f] \ {m}))
                /\ AdvanceCursor(ConvOfMessage(m), seq[m]) /\ UNCHANGED hand
    BY <1>2 DEF FlushNext
  <2>2. GoOn(f, todo[f] \ {m}) \in {"done", "verify", "each"}
    BY <1>1, GoOnLabel
  <2>3. PICK to \in {"lookup", "done", "verify", "each"} : Step(f, "each", to)
    BY <2>1, <2>2
  <2>4. m \in Messages /\ ConvOfMessage(m) \in Convs /\ seq[m] \in Nat
    BY <1>1, MessageIs DEF TypeInv, TypeOK
  <2>5. CursorGrows
    <3>1. CASE UNCHANGED cursor
      BY <3>1, CursorSame
    <3>2. CASE AdvanceCursor(ConvOfMessage(m), seq[m])
      BY <2>4, <3>2, CursorType DEF CursorGrows
    <3> QED
      BY <2>1, <3>1, <3>2
  <2>6. UNCHANGED <<seq, pushed, read, at>>
    BY <1>2 DEF FlushNext
  <2>7. /\ todo'[f] \subseteq todo[f] /\ hand'[f] \in todo[f] \cup {hand[f]}
        /\ \A q \in Procs \ {f} : todo'[q] = todo[q] /\ hand'[q] = hand[q]
    <3>1. todo \in [Procs -> SUBSET Messages] /\ hand \in [Procs -> Messages \cup {<<>>}]
      BY DEF TypeInv, TypeOK
    <3>2. hand' = hand \/ hand' = [hand EXCEPT ![f] = m]
      BY <2>1
    <3> QED
      BY <1>1, <2>1, <3>1, <3>2
  <2>8. Loads(f) /\ FlushesServe
    BY <2>6, <2>7 DEF Loads, FlushesServe
  <2>9. to \in Labels \ {"new", "insert", "jump", "push"}
    BY DEF Labels, Awaiting
  <2> QED
    BY <1>1, <2>3, <2>5, <2>6, <2>7, <2>8, <2>9, CalmIs
<1>3. CASE Lookup(f)
  <2>1. PICK to \in {"advance", "convs"} : Step(f, "lookup", to)
    BY <1>3 DEF Lookup
  <2>2. /\ UNCHANGED <<seq, cursor, pushed, read, at>>
        /\ \/ UNCHANGED <<todo, hand>>
           \/ todo' = [todo EXCEPT ![f] = {}] /\ hand' = [hand EXCEPT ![f] = <<>>]
    BY <1>3 DEF Lookup
  <2>3. /\ todo'[f] \subseteq todo[f] /\ hand'[f] \in {hand[f], <<>>}
        /\ \A q \in Procs \ {f} : todo'[q] = todo[q] /\ hand'[q] = hand[q]
    BY <1>1, <2>2 DEF TypeInv, TypeOK
  <2>4. Loads(f) /\ FlushesServe /\ CursorGrows
    BY <2>2, <2>3, CursorSame DEF Loads, FlushesServe
  <2>5. to \in Labels \ {"new", "insert", "jump", "push"}
    BY DEF Labels, Awaiting
  <2> QED
    BY <1>1, <2>1, <2>2, <2>3, <2>4, <2>5, CalmIs
<1> QED
  BY <1>2, <1>3

\* Abandoning is calm.
LEMMA CalmAbandon == ASSUME TypeInv, NEW p \in Procs, Abandon(p) PROVE Calm({p})
<1> USE DEF tableVars, keyVars, doneVars, failVars, flushVars
<1>1. Leave(p) \in {"done", "convs"}
  BY GoOnLabel
<1>2. PICK from \in Labels, to \in {"done", "convs"} : Step(p, from, to)
  BY <1>1 DEF Abandon, TypeInv, TypeOK
<1>3. /\ UNCHANGED <<seq, cursor, pushed, at>> /\ read' = [read EXCEPT ![p] = 0]
      /\ todo' = [todo EXCEPT ![p] = {}] /\ hand' = [hand EXCEPT ![p] = <<>>]
  BY DEF Abandon, Used
<1>4. /\ todo'[p] = {} /\ hand'[p] = <<>>
      /\ \A q \in Procs \ {p} : read'[q] = read[q] /\ todo'[q] = todo[q] /\ hand'[q] = hand[q]
  BY <1>3 DEF TypeInv, TypeOK
<1>5. Loads(p) /\ FlushesServe /\ CursorGrows
  BY <1>3, <1>4, CursorSame DEF Loads, FlushesServe
<1>6. to \in Labels \ {"new", "insert", "jump", "push"}
  BY DEF Labels, Awaiting
<1> QED
  BY <1>2, <1>3, <1>4, <1>5, <1>6, CalmIs

\* The death of a process is calm.
LEMMA CalmDie ==
  ASSUME TypeInv, NEW ps \in SUBSET Procs, Die(ps), FlushesServe PROVE Calm(ps)
<1> USE DEF tableVars, keyVars, doneVars, failVars
<1>1. /\ pc' = [p \in Procs |-> IF p \notin ps THEN pc[p]
                                ELSE IF p \in Requests THEN "done" ELSE "idle"]
      /\ todo' = [p \in Procs |-> IF p \in ps THEN {} ELSE todo[p]]
      /\ hand' = [p \in Procs |-> IF p \in ps THEN <<>> ELSE hand[p]]
      /\ read' = [p \in Procs |-> IF p \in ps THEN 0 ELSE read[p]]
      /\ UNCHANGED <<seq, cursor, pushed>>
  BY DEF Die
<1>2. Others(ps)
  BY <1>1 DEF Others
<1>3. \A p \in ps : /\ pc'[p] = IF p \in Requests THEN "done" ELSE "idle"
                    /\ todo'[p] = {} /\ hand'[p] = <<>>
  BY <1>1
<1>4. \A p \in ps : Loads(p)
  BY <1>3 DEF Loads
<1>5. OneRuns(ps)
  BY <1>3 DEF OneRuns, Awaiting
<1> QED
  BY <1>1, <1>2, <1>3, <1>4, <1>5, CursorSame DEF Calm

\* Crashes and expiry are calm.
LEMMA CalmRest ==
  ASSUME TypeInv, \/ \E l : CrashLoop(l)
                  \/ \E f \in Flushers : CrashFlush(f)
                  \/ \E c \in Convs : Expire(c)
                  \/ UNCHANGED vars
  PROVE  \E ps \in SUBSET Procs : Calm(ps)
<1> USE DEF tableVars, keyVars, doneVars, failVars, bodyVars, flushVars
<1>1. ASSUME NEW l, CrashLoop(l) PROVE \E ps \in SUBSET Procs : Calm(ps)
  <2> DEFINE ps == {r \in Requests : LoopOf[r] = l /\ pc[r] # "new"}
  <2>1. Die(ps) /\ FlushesServe /\ ps \in SUBSET Procs
    BY <1>1 DEF CrashLoop, FlushesServe, Procs
  <2> HIDE DEF ps
  <2> QED
    BY <2>1, CalmDie
<1>2. ASSUME NEW f \in Flushers, CrashFlush(f) PROVE \E ps \in SUBSET Procs : Calm(ps)
  <2>1. Die({f}) /\ at' = [at EXCEPT ![f] = {}] /\ {f} \in SUBSET Procs
    BY <1>2 DEF CrashFlush, Procs
  <2>2. FlushesServe
    BY <2>1 DEF FlushesServe, TypeInv, TypeOK
  <2> QED
    BY <2>1, <2>2, CalmDie
<1>3. CASE (\E c \in Convs : Expire(c)) \/ UNCHANGED vars
  <2>1. UNCHANGED <<seq, cursor, pushed, pc, read, todo, hand, at>>
    BY <1>3 DEF Expire, vars
  <2>2. Calm({})
    BY <2>1, CursorSame DEF Calm, Others, FlushesServe, OneRuns
  <2> QED
    BY <2>2
<1> QED
  BY <1>1, <1>2, <1>3

\* p wins the message in hand.
Wins(p) ==
  /\ ~Is(p, "sync") /\ Step(p, "advance", "push")
  /\ Advances(ConvOfMessage(hand[p]), seq[hand[p]])
  /\ AdvanceCursor(ConvOfMessage(hand[p]), seq[hand[p]])
  /\ UNCHANGED <<seq, pushed, read, todo, hand, at>>

\* Advancing is calm unless it wins the message.
LEMMA CalmAdvance == ASSUME TypeInv, NEW p \in Procs, Advance(p) PROVE Calm({p}) \/ Wins(p)
<1> USE DEF tableVars, keyVars, doneVars, failVars, flushVars
<1>1. /\ pc[p] = "advance" /\ AdvanceCursor(ConvOfMessage(hand[p]), seq[hand[p]])
      /\ UNCHANGED <<seq, pushed, read, todo, at>>
  BY DEF Advance
<1>2. hand[p] \in Messages /\ ~Is(p, "batch")
  BY <1>1 DEF TypeInv, HandKnown, OnPath, BatchPath
<1>3. CursorGrows
  <2>1. ConvOfMessage(hand[p]) \in Convs /\ seq[hand[p]] \in Nat
    BY <1>2, MessageIs DEF TypeInv, TypeOK
  <2> QED
    BY <1>1, <2>1, CursorType DEF CursorGrows
<1>4. CASE Advances(ConvOfMessage(hand[p]), seq[hand[p]]) /\ ~Is(p, "sync")
  BY <1>1, <1>4 DEF Advance, Wins
<1>5. CASE ~(Advances(ConvOfMessage(hand[p]), seq[hand[p]]) /\ ~Is(p, "sync"))
  <2>1. Step(p, "advance", GoOn(p, todo[p])) /\ hand' = [hand EXCEPT ![p] = <<>>]
    BY <1>5 DEF Advance
  <2>2. GoOn(p, todo[p]) \in {"done", "verify", "each"}
    BY <1>2, GoOnLabel
  <2>3. PICK to \in {"done", "verify", "each"} : Step(p, "advance", to)
    BY <2>1, <2>2
  <2>4. hand'[p] = <<>> /\ \A q \in Procs \ {p} : hand'[q] = hand[q]
    BY <2>1 DEF TypeInv, TypeOK
  <2>5. Loads(p) /\ FlushesServe
    BY <1>1, <2>4 DEF Loads, FlushesServe
  <2>6. to \in Labels \ {"new", "insert", "jump", "push"}
    BY DEF Labels, Awaiting
  <2> QED
    BY <1>1, <1>3, <2>3, <2>4, <2>5, <2>6, CalmIs
<1> QED
  BY <1>4, <1>5

\* Every step is calm or one of five that number, claim or push.
LEMMA Steps ==
  ASSUME TypeInv, [Next]_vars
  PROVE  \/ \E ps \in SUBSET Procs : Calm(ps)
         \/ \E r \in Requests : ReadMax(r) \/ Insert(r) \/ Jump(r)
         \/ \E p \in Procs : Wins(p) \/ Push(p)
<1>1. \A p \in Procs : {p} \in SUBSET Procs
  OBVIOUS
<1>2. ASSUME NEW r \in Requests, Request(r)
      PROVE  ReadMax(r) \/ Insert(r) \/ Jump(r) \/ Calm({r})
  BY <1>2, CalmMark, CalmTakes, CalmWork DEF Request
<1>3. ASSUME NEW f \in Flushers, Flush(f) PROVE Calm({f})
  BY <1>3, CalmConvs, CalmFlush DEF Flush
<1>4. ASSUME NEW p \in Procs, Shared(p) \/ Abandon(p) PROVE Calm({p}) \/ Wins(p) \/ Push(p)
  BY <1>4, CalmReads, CalmReadPending, CalmAdvance, CalmAbandon DEF Shared
<1>5. Requests \subseteq Procs /\ Flushers \subseteq Procs
  BY DEF Procs
<1> QED
  BY <1>1, <1>2, <1>3, <1>4, <1>5, CalmRest DEF Next

-----------------------------------------------------------------------------
(* Numbers are distinct *)

\* One event loop serves a conversation.
OneLoop == \A r, q \in Requests : ConvOf[r] = ConvOf[q] => LoopOf[r] = LoopOf[q]

\* The requests of a loop run one at a time: nobody reads the greatest number while
\* another one has read it and not yet inserted.
OneRunning ==
  \A r, q \in Requests :
    r # q /\ LoopOf[r] = LoopOf[q] => pc[r] \in Awaiting \/ pc[q] \in Awaiting

\* What a request has read is still the greatest number when it inserts.
ReadIsMax ==
  \A r \in Requests : pc[r] = "insert" => \A m \in Rows(ConvOf[r]) : seq[m] <= read[r]

DistinctInv == TypeInv /\ OneRunning /\ ReadIsMax /\ SeqsDistinct

\* A step that leaves the others alone lets at most one request of a loop run.
LEMMA RunsOne ==
  ASSUME TypeInv, OneRunning, NEW ps \in SUBSET Procs, \A q \in Procs \ ps : pc'[q] = pc[q],
         OneRuns(ps)
  PROVE  OneRunning'
<1> SUFFICES ASSUME NEW r \in Requests, NEW q \in Requests, r # q, LoopOf[r] = LoopOf[q]
             PROVE  pc'[r] \in Awaiting \/ pc'[q] \in Awaiting
  BY DEF OneRunning
<1>1. r \in Procs /\ q \in Procs
  BY DEF Procs
<1>2. CASE r \notin ps /\ q \notin ps
  BY <1>1, <1>2 DEF OneRunning
<1>3. CASE \E p \in ps : ps = {p} /\ MayRun(p)
  BY <1>1, <1>2, <1>3 DEF MayRun
<1>4. CASE \A p \in ps \cap Requests : pc'[p] \in Awaiting
  BY <1>2, <1>4
<1> QED
  BY <1>3, <1>4 DEF OneRuns

\* A step of a process that may run keeps one request of a loop running.
LEMMA RunsStep ==
  ASSUME TypeInv, OneRunning, NEW p \in Procs, NEW from, NEW to \in Labels, Step(p, from, to)
  PROVE  OneRunning'
<1>1. MayRun(p) /\ \A q \in Procs \ {p} : pc'[q] = pc[q]
  BY StepType DEF TypeInv
<1>2. OneRuns({p}) /\ {p} \in SUBSET Procs
  BY <1>1 DEF OneRuns
<1> QED
  BY <1>1, <1>2, RunsOne

\* A step of one process that inserts nothing.
LEMMA DistinctKept ==
  ASSUME DistinctInv, TypeInv', OneRunning', UNCHANGED seq,
         \A r \in Requests : pc'[r] = "insert" => pc[r] = "insert" /\ read'[r] = read[r]
  PROVE  DistinctInv'
<1>1. ReadIsMax'
  BY DEF DistinctInv, ReadIsMax, Rows
<1>2. SeqsDistinct'
  BY DEF DistinctInv, SeqsDistinct
<1> QED
  BY <1>1, <1>2 DEF DistinctInv

\* Calm steps keep numbers distinct.
LEMMA DistinctCalm ==
  ASSUME DistinctInv, TypeInv', NEW ps \in SUBSET Procs, Calm(ps) PROVE DistinctInv'
<1>1. OneRunning'
  BY RunsOne DEF Calm, Others, DistinctInv
<1>2. \A r \in Requests : pc'[r] = "insert" => pc[r] = "insert" /\ read'[r] = read[r]
  BY DEF Calm, Others, Procs
<1> QED
  BY <1>1, <1>2, DistinctKept DEF Calm

\* Claims and pushes number nothing.
LEMMA DistinctClaims ==
  ASSUME DistinctInv, TypeInv', NEW p \in Procs,
         Wins(p) \/ Push(p) \/ (p \in Requests /\ Jump(p))
  PROVE  DistinctInv'
<1>1. GoOn(p, todo[p]) # "insert" /\ \A rest : GoOn(p, rest) \in Labels \ {"insert"}
  BY GoOnLabel DEF Labels, Awaiting
<1>2. PICK from, to \in Labels : Step(p, from, to) /\ to # "insert"
  BY <1>1 DEF Wins, Push, Jump, Labels
<1>3. UNCHANGED <<seq, read>>
  BY DEF Wins, Push, Jump, tableVars
<1>4. pc'[p] = to /\ \A q \in Procs \ {p} : pc'[q] = pc[q]
  BY <1>2, StepType DEF DistinctInv, TypeInv
<1>5. OneRunning'
  BY <1>2, RunsStep DEF DistinctInv
<1> QED
  BY <1>2, <1>3, <1>4, <1>5, DistinctKept DEF Procs

\* What has just been read is the greatest number.
LEMMA DistinctReadMax ==
  ASSUME DistinctInv, TypeInv', NEW r \in Requests, ReadMax(r) PROVE DistinctInv'
<1> USE DEF tableVars
<1>1. r \in Procs /\ ConvOf[r] \in Convs
  BY BatchIsSeq DEF Procs
<1>2. /\ \A q \in Procs \ {r} : pc'[q] = pc[q]
      /\ UNCHANGED seq /\ read' = [read EXCEPT ![r] = MaxSeq(ConvOf[r])]
  BY <1>1, StepType DEF ReadMax, DistinctInv, TypeInv, Labels
<1>3. OneRunning'
  BY <1>1, RunsStep DEF ReadMax, DistinctInv, Labels
<1>4. read'[r] = MaxSeq(ConvOf[r]) /\ \A q \in Procs \ {r} : read'[q] = read[q]
  BY <1>1, <1>2 DEF DistinctInv, TypeInv, TypeOK
<1>5. \A m \in Rows(ConvOf[r]) : seq[m] <= read'[r]
  BY <1>1, <1>4, MaxSeqIsMax DEF DistinctInv
<1>6. ReadIsMax'
  BY <1>2, <1>4, <1>5 DEF DistinctInv, ReadIsMax, Rows, Procs
<1>7. SeqsDistinct'
  BY <1>2 DEF DistinctInv, SeqsDistinct
<1> QED
  BY <1>3, <1>6, <1>7 DEF DistinctInv

\* On one loop, what was read is still the greatest number when the row is inserted.
LEMMA DistinctInsert ==
  ASSUME OneLoop, DistinctInv, TypeInv', NEW r \in Requests, Insert(r) PROVE DistinctInv'
<1>1. r \in Procs /\ ConvOf[r] \in Convs /\ pc[r] = "insert" /\ read[r] \in Nat
  BY BatchIsSeq DEF Procs, Insert, Step, DistinctInv, TypeInv, TypeOK
<1>2. PICK to \in {"refresh", "jump", "cursor"} : Step(r, "insert", to)
  BY DispatchAssumption DEF Insert, Is
<1>3. /\ \A m \in Messages : seq'[m] = IF m[1] = r THEN read[r] + m[2] ELSE seq[m]
      /\ \A q \in Procs \ {r} : read'[q] = read[q]
  BY DEF Insert, Used, DistinctInv, TypeInv, TypeOK
<1>4. to \in Labels /\ pc'[r] = to /\ \A q \in Procs \ {r} : pc'[q] = pc[q]
  BY <1>1, <1>2, StepType DEF DistinctInv, TypeInv, Labels, Awaiting
<1>5. OneRunning'
  BY <1>1, <1>2, <1>4, RunsStep DEF DistinctInv
<1>6. ReadIsMax'
  <2> SUFFICES ASSUME NEW q \in Requests, pc'[q] = "insert", NEW m \in Rows(ConvOf[q])'
               PROVE  seq'[m] <= read'[q]
    BY DEF ReadIsMax
  <2>1. q # r /\ pc[q] = "insert" /\ q \in Procs
    BY <1>4 DEF Procs
  <2>2. LoopOf[q] # LoopOf[r]
    BY <1>1, <2>1 DEF DistinctInv, OneRunning, Awaiting
  <2>3. ConvOf[q] # ConvOf[r]
    BY <2>2 DEF OneLoop
  <2>4. m \in Messages /\ m[1] # r /\ seq'[m] = seq[m] /\ m \in Rows(ConvOf[q])
    BY <1>3, <2>3 DEF Rows, ConvOfMessage
  <2> QED
    BY <1>3, <2>1, <2>4 DEF DistinctInv, ReadIsMax
<1>7. SeqsDistinct'
  <2> SUFFICES ASSUME NEW m \in Messages, NEW n \in Messages, seq'[m] > 0, seq'[m] = seq'[n],
                      ConvOfMessage(m) = ConvOfMessage(n)
               PROVE  m = n
    BY DEF SeqsDistinct
  <2>1. \A k, l \in Messages : ConvOfMessage(k) = ConvOf[r] /\ k[1] # r /\ l[1] = r /\ seq'[k] > 0
                               => seq'[k] < seq'[l]
    <3> SUFFICES ASSUME NEW k \in Messages, NEW l \in Messages, ConvOfMessage(k) = ConvOf[r],
                        k[1] # r, l[1] = r, seq'[k] > 0
                 PROVE  seq'[k] < seq'[l]
      OBVIOUS
    <3>1. k \in Rows(ConvOf[r]) /\ seq'[k] = seq[k] /\ seq[k] \in Nat
      BY <1>3 DEF Rows, DistinctInv, TypeInv, TypeOK
    <3>2. seq[k] <= read[r]
      BY <1>1, <3>1 DEF DistinctInv, ReadIsMax
    <3>3. seq'[l] = read[r] + l[2] /\ l[2] \in Nat \ {0}
      BY <1>3, MessageIs
    <3> QED
      BY <1>1, <3>1, <3>2, <3>3
  <2>2. CASE m[1] = r /\ n[1] = r
    BY <1>1, <1>3, <2>2, MessageIs
  <2>3. CASE m[1] = r /\ n[1] # r
    <3>1. seq'[n] < seq'[m]
      BY <2>1, <2>3 DEF ConvOfMessage
    <3> QED
      BY <3>1 DEF TypeInv, TypeOK
  <2>4. CASE m[1] # r /\ n[1] = r
    <3>1. seq'[m] < seq'[n]
      BY <2>1, <2>4 DEF ConvOfMessage
    <3> QED
      BY <3>1 DEF TypeInv, TypeOK
  <2>5. CASE m[1] # r /\ n[1] # r
    BY <1>3, <2>5 DEF DistinctInv, SeqsDistinct
  <2> QED
    BY <2>2, <2>3, <2>4, <2>5
<1> QED
  BY <1>5, <1>6, <1>7 DEF DistinctInv

\* At the start there are no numbers.
LEMMA DistinctInit == Init => DistinctInv
<1> SUFFICES ASSUME Init PROVE DistinctInv
  OBVIOUS
<1>1. OneRunning /\ ReadIsMax
  BY DEF Init, OneRunning, ReadIsMax, Awaiting, Procs
<1>2. SeqsDistinct
  BY DEF Init, SeqsDistinct
<1> QED
  BY <1>1, <1>2, TypeInit DEF DistinctInv

\* Every step keeps numbers distinct.
LEMMA DistinctStep == ASSUME OneLoop, DistinctInv, [Next]_vars PROVE DistinctInv'
<1>1. TypeInv /\ TypeInv'
  BY TypeStep DEF DistinctInv
<1> QED
  BY <1>1, Steps, DistinctCalm, DistinctClaims, DistinctReadMax, DistinctInsert DEF Procs

\* SeqsDistinct: no two messages of a conversation ever have the same number, although
\* write_single reads the greatest one in a statement of its own and no constraint of
\* the table stands in the way, provided that one event loop serves the conversation.
THEOREM NumbersDistinct == ASSUME OneLoop PROVE Spec => []SeqsDistinct
<1>1. DistinctInv /\ [Next]_vars => DistinctInv'
  BY DistinctStep
<1>2. DistinctInv => SeqsDistinct
  BY DEF DistinctInv
<1> QED
  BY <1>1, <1>2, DistinctInit, PTL DEF Spec

-----------------------------------------------------------------------------
(* No message is pushed twice.  Who moves the cursor over a message claims it, *)
(* and the cursor only ever grows.                                             *)

\* A batch of the service API, whose conversation neither the sliding window of another
\* request nor the flush looks at: such a batch pushes its messages without asking
\* whether it was the one to move the cursor.
ServiceApart ==
  \A r \in Requests : KindOf[r] = "batch" =>
    /\ ConvOf[r] \notin Flushable
    /\ \A q \in Requests : KindOf[q] = "ingest" => ConvOf[q] # ConvOf[r]

\* What p has won and has still to push.
Claims(p) == IF pc[p] # "push" THEN {}
             ELSE {hand[p]} \cup (IF Is(p, "batch") THEN todo[p] ELSE {})

Consumed(m) == 0 < seq[m] /\ seq[m] <= cursor[ConvOfMessage(m)]

InBatch(m) == KindOf[m[1]] = "batch"

\* A message is claimed by one process at a time, ...
ClaimedOnce == \A p, q \in Procs : p # q => Claims(p) \cap Claims(q) = {}

\* ... behind the cursor, before it is pushed; and pushed once.
ClaimsNew == \A p \in Procs : \A m \in Claims(p) : pushed[m] = 0 /\ Consumed(m)

PushedConsumed == \A m \in Messages : pushed[m] = 0 \/ (pushed[m] = 1 /\ Consumed(m))

\* A batch is numbered in order, and is numbered when its claim jumps over it.
InOrder ==
  \A m, n \in Messages :
    /\ m[1] = n[1] /\ m[2] <= n[2] => seq[m] <= seq[n]
    /\ pc[m[1]] = "jump" => seq[m] > 0

\* Nobody touches a batch before it has jumped: ...
Untouched ==
  \A m \in Messages : InBatch(m) /\ pc[m[1]] \in {"new", "insert", "jump"} =>
    pushed[m] = 0 /\ \A p \in Procs : m \notin Claims(p)

\* ... the others have no message of it, a flush does not come by.
HandsApart ==
  \A p \in Procs : ~Is(p, "batch") /\ ~Is(p, "sync") =>
    \A m \in todo[p] \cup {hand[p]} : m \in Messages => ~InBatch(m)

AtFlushable == \A f \in Flushers : at[f] \subseteq Flushable

\* The message in hand is not among those to come; only a batch jumps.
OwnBatch ==
  \A r \in Requests : /\ Is(r, "batch") /\ pc[r] = "push" => hand[r] \notin todo[r]
                      /\ pc[r] = "jump" => Is(r, "batch")

OnceInv ==
  /\ TypeInv
  /\ ClaimedOnce /\ ClaimsNew /\ PushedConsumed /\ InOrder
  /\ Untouched /\ HandsApart /\ AtFlushable /\ OwnBatch

-----------------------------------------------------------------------------

\* Claims are of messages.
LEMMA ClaimsType == ASSUME TypeInv, NEW p \in Procs PROVE Claims(p) \subseteq Messages
BY DEF TypeInv, TypeOK, HandKnown, Claims

\* What has been consumed stays consumed.
LEMMA ConsumedKept ==
  ASSUME TypeInv, UNCHANGED seq, CursorGrows, TypeInv', NEW m \in Messages, Consumed(m)
  PROVE  Consumed(m)'
<1>1. ConvOfMessage(m) \in Convs
  BY MessageIs
<1>2. cursor[ConvOfMessage(m)] <= cursor'[ConvOfMessage(m)]
  BY <1>1 DEF CursorGrows
<1>3. seq[m] \in Nat /\ cursor[ConvOfMessage(m)] \in Nat /\ cursor'[ConvOfMessage(m)] \in Nat
  BY <1>1 DEF TypeInv, TypeOK
<1> QED
  BY <1>2, <1>3 DEF Consumed, ConvOfMessage

\* At the start nothing is claimed.
LEMMA OnceInit == Init => OnceInv
<1> SUFFICES ASSUME Init PROVE OnceInv
  OBVIOUS
<1>1. TypeInv /\ \A p \in Procs : Claims(p) = {} /\ pc[p] \in {"new", "idle"}
  BY TypeInit DEF Init, Claims
<1>2. ClaimedOnce /\ ClaimsNew /\ PushedConsumed /\ Untouched
  BY <1>1 DEF Init, ClaimedOnce, ClaimsNew, PushedConsumed, Untouched
<1>3. InOrder
  <2>1. \A m \in Messages : seq[m] = 0 /\ pc[m[1]] # "jump"
    BY <1>1, MessageIs DEF Init, Procs
  <2> QED
    BY <2>1 DEF InOrder
<1>4. HandsApart
  <2>1. <<>> \notin Messages
    BY MessageIs
  <2>2. \A p \in Procs : todo[p] = {} /\ hand[p] = <<>>
    BY DEF Init
  <2> QED
    BY <2>1, <2>2 DEF HandsApart
<1>5. AtFlushable /\ OwnBatch
  BY <1>1 DEF Init, AtFlushable, OwnBatch, Procs
<1> QED
  BY <1>1, <1>2, <1>3, <1>4, <1>5 DEF OnceInv

\* A step that leaves every claim and every request at its place as it was.
LEMMA OnceKept ==
  ASSUME OnceInv, TypeInv', UNCHANGED <<seq, pushed>>, CursorGrows,
         \A p \in Procs : Claims(p)' \subseteq Claims(p),
         \A r \in Requests : pc'[r] \in {"new", "insert", "jump"} => pc[r] \in {"new", "insert", "jump"},
         \A r \in Requests : pc'[r] = "jump" => pc[r] = "jump",
         HandsApart', AtFlushable', OwnBatch'
  PROVE  OnceInv'
<1>1. TypeInv
  BY DEF OnceInv
<1>2. ClaimedOnce'
  BY DEF OnceInv, ClaimedOnce
<1>3. ClaimsNew'
  <2> SUFFICES ASSUME NEW p \in Procs, NEW m \in Claims(p)'
               PROVE  pushed'[m] = 0 /\ Consumed(m)'
    BY DEF ClaimsNew
  <2>1. m \in Claims(p) /\ m \in Messages
    BY <1>1, ClaimsType
  <2>2. pushed[m] = 0 /\ Consumed(m)
    BY <2>1 DEF OnceInv, ClaimsNew
  <2> QED
    BY <1>1, <2>1, <2>2, ConsumedKept
<1>4. PushedConsumed'
  BY <1>1, ConsumedKept DEF OnceInv, PushedConsumed
<1>5. InOrder'
  BY MessageIs DEF OnceInv, InOrder
<1>6. Untouched'
  BY MessageIs DEF OnceInv, Untouched, InBatch
<1> QED
  BY <1>2, <1>3, <1>4, <1>5, <1>6 DEF OnceInv

\* Calm steps leave the claims alone.
LEMMA OnceCalm ==
  ASSUME ServiceApart, OnceInv, TypeInv', NEW ps \in SUBSET Procs, Calm(ps) PROVE OnceInv'
<1>1. /\ \A q \in Procs \ ps : /\ pc'[q] = pc[q] /\ todo'[q] = todo[q] /\ hand'[q] = hand[q]
      /\ \A p \in ps : pc'[p] \notin {"new", "insert", "jump", "push"} /\ Loads(p)
      /\ UNCHANGED <<seq, pushed>> /\ CursorGrows /\ FlushesServe
  BY DEF Calm, Others
<1>2. \A p \in Procs : Claims(p)' \subseteq Claims(p)
  <2> TAKE p \in Procs
  <2>1. CASE p \in ps
    BY <1>1, <2>1 DEF Claims
  <2>2. CASE p \notin ps
    BY <1>1, <2>2 DEF Claims, Is
  <2> QED
    BY <2>1, <2>2
<1>3. /\ \A r \in Requests : pc'[r] \in {"new", "insert", "jump"} => pc[r] \in {"new", "insert", "jump"}
      /\ \A r \in Requests : pc'[r] = "jump" => pc[r] = "jump"
  BY <1>1 DEF Procs
<1>4. HandsApart'
  <2> SUFFICES ASSUME NEW p \in Procs, ~Is(p, "batch"), ~Is(p, "sync"),
                      NEW m \in todo'[p] \cup {hand'[p]}, m \in Messages
               PROVE  ~InBatch(m)
    BY DEF HandsApart, Is, InBatch
  <2>1. CASE m \in todo[p] \cup {hand[p]}
    BY <2>1 DEF OnceInv, HandsApart
  <2>2. CASE m \notin todo[p] \cup {hand[p]}
    <3>1. p \in ps /\ m # <<>>
      BY <1>1, <2>2, MessageIs
    <3>2. IsAt(p, ConvOfMessage(m))
      BY <1>1, <2>2, <3>1 DEF Loads
    <3>3. m[1] \in Requests
      BY MessageIs
    <3>4. CASE p \in Requests
      <4>1. KindOf[p] = "ingest" /\ ConvOf[m[1]] = ConvOf[p]
        BY <3>2, <3>4, DispatchAssumption DEF Is, IsAt, ConvOfMessage
      <4> QED
        BY <3>3, <3>4, <4>1 DEF ServiceApart, InBatch
    <3>5. CASE p \notin Requests
      <4>1. ConvOf[m[1]] \in at[p] /\ p \in Flushers
        BY <3>2, <3>5 DEF IsAt, ConvOfMessage, Procs
      <4>2. ConvOf[m[1]] \in Flushable
        BY <4>1 DEF OnceInv, AtFlushable
      <4> QED
        BY <3>3, <4>2 DEF ServiceApart, InBatch
    <3> QED
      BY <3>4, <3>5
  <2> QED
    BY <2>1, <2>2
<1>5. AtFlushable'
  BY <1>1 DEF OnceInv, AtFlushable, FlushesServe
<1>6. OwnBatch'
  BY <1>1 DEF OnceInv, OwnBatch, Is, Procs
<1> QED
  BY <1>1, <1>2, <1>3, <1>4, <1>5, <1>6, OnceKept

\* A step of a request that leaves what everyone holds.
LEMMA HandsKept ==
  ASSUME OnceInv, UNCHANGED <<todo, hand, at>> PROVE HandsApart' /\ AtFlushable'
BY DEF OnceInv, HandsApart, AtFlushable, InBatch, Is

\* Reading the greatest number claims nothing.
LEMMA OnceReadMax ==
  ASSUME OnceInv, TypeInv', NEW r \in Requests, ReadMax(r) PROVE OnceInv'
<1>1. r \in Procs /\ Step(r, "new", "insert")
      /\ UNCHANGED <<seq, cursor, pushed, todo, hand, at>>
  BY DEF ReadMax, Procs, tableVars, doneVars, flushVars
<1>2. pc[r] = "new" /\ pc'[r] = "insert" /\ \A q \in Procs \ {r} : pc'[q] = pc[q]
  BY <1>1, StepType DEF OnceInv, TypeInv, Labels
<1>3. \A p \in Procs : Claims(p)' \subseteq Claims(p)
  BY <1>1, <1>2 DEF Claims, Is
<1>4. \A q \in Requests : /\ pc'[q] \in {"new", "insert", "jump"} => pc[q] \in {"new", "insert", "jump"}
                          /\ pc'[q] \in {"jump", "push"} => pc[q] = pc'[q]
  BY <1>2 DEF Procs
<1>5. OwnBatch'
  BY <1>1, <1>4 DEF OnceInv, OwnBatch, Is
<1> QED
  BY <1>1, <1>3, <1>4, <1>5, CursorSame, HandsKept, OnceKept DEF OnceInv

\* A new row is nobody's, or its own batch's.
LEMMA OnceInsert ==
  ASSUME OnceInv, TypeInv', NEW r \in Requests, Insert(r) PROVE OnceInv'
<1>1. /\ r \in Procs /\ pc[r] = "insert" /\ read[r] \in Nat
      /\ UNCHANGED <<cursor, pushed, todo, hand, at>>
  BY DEF Insert, Step, Procs, doneVars, flushVars, OnceInv, TypeInv, TypeOK
<1>2. PICK to \in {"refresh", "jump", "cursor"} :
        Step(r, "insert", to) /\ (to = "jump" => Is(r, "batch"))
  BY DispatchAssumption DEF Insert, Is
<1>3. \A m \in Messages : seq'[m] = IF m[1] = r THEN read[r] + m[2] ELSE seq[m]
  BY DEF Insert
<1>4. pc'[r] = to /\ \A q \in Procs \ {r} : pc'[q] = pc[q]
  BY <1>1, <1>2, StepType DEF OnceInv, TypeInv, Labels, Awaiting
<1>5. \A p \in Procs : Claims(p)' = Claims(p)
  BY <1>1, <1>2, <1>4 DEF Claims, Is
<1>6. \A m \in Messages : Consumed(m) => Consumed(m)'
  <2> SUFFICES ASSUME NEW m \in Messages, Consumed(m) PROVE Consumed(m)'
    OBVIOUS
  <2>1. m[1] # r
    BY <1>1 DEF Consumed, OnceInv, TypeInv, NoRowYet
  <2> QED
    BY <1>1, <1>3, <2>1 DEF Consumed, ConvOfMessage
<1>7. ClaimedOnce'
  BY <1>5 DEF OnceInv, ClaimedOnce
<1>8. ClaimsNew'
  BY <1>1, <1>5, <1>6, ClaimsType DEF OnceInv, ClaimsNew
<1>9. PushedConsumed'
  BY <1>1, <1>6 DEF OnceInv, PushedConsumed
<1>10. InOrder'
  <2> SUFFICES ASSUME NEW m \in Messages, NEW n \in Messages
               PROVE  /\ m[1] = n[1] /\ m[2] <= n[2] => seq'[m] <= seq'[n]
                      /\ pc'[m[1]] = "jump" => seq'[m] > 0
    BY DEF InOrder
  <2>1. m[2] \in Nat \ {0} /\ n[2] \in Nat \ {0} /\ m[1] \in Procs
    BY MessageIs DEF Procs
  <2>2. CASE m[1] = r
    BY <1>1, <1>3, <2>1, <2>2
  <2>3. CASE m[1] # r
    <3>1. seq'[m] = seq[m] /\ pc'[m[1]] = pc[m[1]] /\ (m[1] = n[1] => seq'[n] = seq[n])
      BY <1>3, <1>4, <2>1, <2>3
    <3> QED
      BY <3>1 DEF OnceInv, InOrder
  <2> QED
    BY <2>2, <2>3
<1>11. Untouched'
  <2> SUFFICES ASSUME NEW m \in Messages, InBatch(m), pc'[m[1]] \in {"new", "insert", "jump"}
               PROVE  pushed'[m] = 0 /\ \A p \in Procs : m \notin Claims(p)'
    BY DEF Untouched, InBatch
  <2>1. pc[m[1]] \in {"new", "insert", "jump"}
    BY <1>1, <1>4, MessageIs DEF Procs
  <2> QED
    BY <1>1, <1>5, <2>1 DEF OnceInv, Untouched
<1>12. OwnBatch'
  BY <1>1, <1>2, <1>4 DEF OnceInv, OwnBatch, Is, Procs
<1> QED
  BY <1>1, <1>7, <1>8, <1>9, <1>10, <1>11, <1>12, HandsKept DEF OnceInv

\* One jump covers the whole batch, of which nobody has had anything.
LEMMA OnceJump ==
  ASSUME OnceInv, TypeInv', NEW r \in Requests, Jump(r) PROVE OnceInv'
<1> DEFINE users == {m \in Messages : m[1] = r /\ KindOfMessage(m) # "assistant"}
           last  == <<r, Len(Batch[r])>>
<1>1. /\ r \in Procs /\ Is(r, "batch") /\ KindOf[r] = "batch" /\ pc[r] = "jump"
      /\ ConvOf[r] \in Convs /\ last \in Messages /\ seq[last] \in Nat
  <2>1. r \in Procs /\ pc[r] = "jump" /\ ConvOf[r] \in Convs /\ last \in Messages
    BY BatchIsSeq, MessageOf DEF Jump, Step, Procs
  <2>2. Is(r, "batch")
    BY <2>1 DEF OnceInv, OwnBatch
  <2> QED
    BY <2>1, <2>2 DEF Is, OnceInv, TypeInv, TypeOK
<1>2. /\ Step(r, "jump", GoOn(r, users)) /\ AdvanceCursor(ConvOf[r], seq[last])
      /\ UNCHANGED <<seq, pushed, at>>
      /\ \/ users = {} /\ UNCHANGED <<todo, hand>>
         \/ \E m \in users : hand' = [hand EXCEPT ![r] = m] /\ todo' = [todo EXCEPT ![r] = users \ {m}]
  BY DEF Jump, doneVars, flushVars
<1>3. CursorGrows
  BY <1>1, <1>2, CursorType DEF OnceInv, CursorGrows
<1>4. \A m \in users :
        /\ m \in Messages /\ m[1] = r /\ pushed[m] = 0 /\ InBatch(m)
        /\ \A p \in Procs : m \notin Claims(p)
        /\ Consumed(m)'
  <2> SUFFICES ASSUME NEW m \in Messages, m[1] = r
               PROVE  /\ pushed[m] = 0 /\ InBatch(m) /\ \A p \in Procs : m \notin Claims(p)
                      /\ Consumed(m)'
    OBVIOUS
  <2>1. InBatch(m) /\ pushed[m] = 0 /\ \A p \in Procs : m \notin Claims(p)
    BY <1>1 DEF InBatch, OnceInv, Untouched
  <2>2. last[1] = r /\ last[2] = Len(Batch[r]) /\ m[2] <= last[2]
    BY MessageIs, BatchIsSeq
  <2>3. seq[m] > 0 /\ seq[m] <= seq[last]
    BY <1>1, <2>2 DEF OnceInv, InOrder
  <2>4. seq[last] <= cursor'[ConvOf[r]]
    BY <1>1, <1>2, CursorReached DEF OnceInv
  <2>5. seq[m] \in Nat /\ cursor'[ConvOf[r]] \in Nat
    BY <1>1 DEF OnceInv, TypeInv, TypeOK
  <2>6. Consumed(m)'
    BY <1>1, <1>2, <2>3, <2>4, <2>5 DEF Consumed, ConvOfMessage
  <2> QED
    BY <2>1, <2>6
<1> HIDE DEF users, last
<1>5. GoOn(r, users) \in Labels /\ GoOn(r, users) = IF users = {} THEN "done" ELSE "push"
  <2>1. ~Is(r, "ingest")
    BY <1>1 DEF Is
  <2> QED
    BY <1>1, <2>1 DEF GoOn, Labels, Awaiting
<1>6. pc'[r] = GoOn(r, users) /\ \A q \in Procs \ {r} : pc'[q] = pc[q]
  BY <1>1, <1>2, <1>5, StepType DEF OnceInv, TypeInv
<1>7. /\ \A q \in Procs \ {r} : todo'[q] = todo[q] /\ hand'[q] = hand[q]
      /\ users # {} => \E m \in users : hand'[r] = m /\ todo'[r] = users \ {m}
  <2>1. hand \in [Procs -> Messages \cup {<<>>}] /\ todo \in [Procs -> SUBSET Messages]
    BY DEF OnceInv, TypeInv, TypeOK
  <2> QED
    BY <1>1, <1>2, <2>1
<1>8. /\ \A q \in Procs \ {r} : Claims(q)' = Claims(q)
      /\ Claims(r)' \subseteq users
  <2>1. \A q \in Procs \ {r} : Claims(q)' = Claims(q)
    BY <1>6, <1>7 DEF Claims, Is
  <2>2. Claims(r)' \subseteq users
    BY <1>5, <1>6, <1>7 DEF Claims
  <2> QED
    BY <2>1, <2>2
<1>9. ClaimedOnce'
  BY <1>4, <1>8 DEF OnceInv, ClaimedOnce
<1>10. ClaimsNew'
  <2> SUFFICES ASSUME NEW p \in Procs, NEW m \in Claims(p)' PROVE pushed'[m] = 0 /\ Consumed(m)'
    BY DEF ClaimsNew
  <2>1. CASE p = r
    BY <1>2, <1>4, <1>8, <2>1
  <2>2. CASE p # r
    <3>1. m \in Messages /\ pushed[m] = 0 /\ Consumed(m)
      BY <1>8, <2>2, ClaimsType DEF OnceInv, ClaimsNew
    <3> QED
      BY <1>2, <1>3, <3>1, ConsumedKept DEF OnceInv
  <2> QED
    BY <2>1, <2>2
<1>11. PushedConsumed'
  BY <1>2, <1>3, ConsumedKept DEF OnceInv, PushedConsumed
<1>12. InOrder'
  <2>1. \A m \in Messages : pc'[m[1]] = "jump" => pc[m[1]] = "jump"
    BY <1>5, <1>6, MessageIs DEF Procs
  <2> QED
    BY <1>2, <2>1 DEF OnceInv, InOrder
<1>13. Untouched'
  <2> SUFFICES ASSUME NEW m \in Messages, InBatch(m), pc'[m[1]] \in {"new", "insert", "jump"}
               PROVE  pushed'[m] = 0 /\ \A p \in Procs : m \notin Claims(p)'
    BY DEF Untouched, InBatch
  <2>1. m[1] # r /\ pc[m[1]] \in {"new", "insert", "jump"}
    BY <1>5, <1>6, MessageIs DEF Procs
  <2>2. pushed[m] = 0 /\ \A p \in Procs : m \notin Claims(p)
    BY <2>1 DEF OnceInv, Untouched
  <2> QED
    BY <1>2, <1>4, <1>8, <2>1, <2>2
<1>14. HandsApart' /\ AtFlushable'
  BY <1>1, <1>2, <1>7 DEF OnceInv, HandsApart, AtFlushable, InBatch, Is
<1>15. OwnBatch'
  <2> SUFFICES ASSUME NEW q \in Requests
               PROVE  /\ Is(q, "batch") /\ pc'[q] = "push" => hand'[q] \notin todo'[q]
                      /\ pc'[q] = "jump" => Is(q, "batch")
    BY DEF OwnBatch, Is
  <2>1. CASE q = r
    BY <1>5, <1>6, <1>7, <2>1
  <2>2. CASE q # r
    BY <1>6, <1>7, <2>2 DEF OnceInv, OwnBatch, Procs
  <2> QED
    BY <2>1, <2>2
<1> QED
  BY <1>9, <1>10, <1>11, <1>12, <1>13, <1>14, <1>15 DEF OnceInv

\* Only one process gets a cursor past a message.
LEMMA OnceWins ==
  ASSUME OnceInv, TypeInv', NEW p \in Procs, Wins(p) PROVE OnceInv'
<1>1. PICK m \in Messages :
        /\ m = hand[p] /\ Step(p, "advance", "push") /\ ~Is(p, "sync") /\ ~Is(p, "batch")
        /\ Advances(ConvOfMessage(m), seq[m]) /\ AdvanceCursor(ConvOfMessage(m), seq[m])
        /\ UNCHANGED <<seq, pushed, todo, hand, at>>
  BY DEF Wins, Step, OnceInv, TypeInv, HandKnown, OnPath, BatchPath
<1>2. ConvOfMessage(m) \in Convs /\ seq[m] \in Nat /\ cursor[ConvOfMessage(m)] \in Nat
  BY <1>1, MessageIs DEF OnceInv, TypeInv, TypeOK
<1>3. CursorGrows
  BY <1>1, <1>2, CursorType DEF OnceInv, CursorGrows
<1>4. ~Consumed(m) /\ Consumed(m)'
  <2>1. cursor[ConvOfMessage(m)] < seq[m] /\ cursor'[ConvOfMessage(m)] = seq[m]
    BY <1>1, <1>2 DEF Advances, AdvanceCursor, OnceInv, TypeInv, TypeOK
  <2> QED
    BY <1>1, <1>2, <2>1 DEF Consumed, ConvOfMessage
<1>5. pushed[m] = 0 /\ ~InBatch(m) /\ \A q \in Procs : m \notin Claims(q)
  BY <1>1, <1>4 DEF OnceInv, PushedConsumed, HandsApart, ClaimsNew
<1>6. pc'[p] = "push" /\ \A q \in Procs \ {p} : pc'[q] = pc[q]
  BY <1>1, StepType DEF OnceInv, TypeInv, Labels
<1>7. Claims(p)' = {m} /\ \A q \in Procs \ {p} : Claims(q)' = Claims(q)
  BY <1>1, <1>6 DEF Claims, Is
<1>8. ClaimedOnce'
  BY <1>5, <1>7 DEF OnceInv, ClaimedOnce
<1>9. ClaimsNew'
  <2> SUFFICES ASSUME NEW q \in Procs, NEW n \in Claims(q)' PROVE pushed'[n] = 0 /\ Consumed(n)'
    BY DEF ClaimsNew
  <2>1. CASE q = p
    BY <1>1, <1>4, <1>5, <1>7, <2>1
  <2>2. CASE q # p
    <3>1. n \in Messages /\ pushed[n] = 0 /\ Consumed(n)
      BY <1>7, <2>2, ClaimsType DEF OnceInv, ClaimsNew
    <3> QED
      BY <1>1, <1>3, <3>1, ConsumedKept DEF OnceInv
  <2> QED
    BY <2>1, <2>2
<1>10. PushedConsumed'
  BY <1>1, <1>3, ConsumedKept DEF OnceInv, PushedConsumed
<1>11. \A r \in Requests : pc'[r] \in {"new", "insert", "jump"} => pc'[r] = pc[r]
  BY <1>6 DEF Procs
<1>12. InOrder'
  BY <1>1, <1>11, MessageIs DEF OnceInv, InOrder
<1>13. Untouched'
  <2> SUFFICES ASSUME NEW n \in Messages, InBatch(n), pc'[n[1]] \in {"new", "insert", "jump"}
               PROVE  pushed'[n] = 0 /\ \A q \in Procs : n \notin Claims(q)'
    BY DEF Untouched, InBatch
  <2>1. pushed[n] = 0 /\ \A q \in Procs : n \notin Claims(q)
    BY <1>11, MessageIs DEF OnceInv, Untouched
  <2> QED
    BY <1>1, <1>5, <1>7, <2>1
<1>14. OwnBatch'
  BY <1>1, <1>6, <1>11 DEF OnceInv, OwnBatch, Is, Procs
<1> QED
  BY <1>1, <1>8, <1>9, <1>10, <1>12, <1>13, <1>14, HandsKept DEF OnceInv

\* A claim is pushed once, and then it is no claim.
LEMMA OncePush ==
  ASSUME OnceInv, TypeInv', NEW p \in Procs, Push(p) PROVE OnceInv'
<1>1. PICK m \in Messages :
        /\ m = hand[p] /\ Step(p, "push", GoOn(p, todo[p])) /\ pc[p] = "push"
        /\ pushed' = [pushed EXCEPT ![m] = @ + 1]
        /\ UNCHANGED <<seq, cursor, at>>
  BY DEF Push, Step, OnceInv, TypeInv, HandKnown, tableVars, flushVars
<1>2. m \in Claims(p) /\ pushed[m] = 0 /\ Consumed(m)
  BY <1>1 DEF Claims, OnceInv, ClaimsNew
<1>3. pushed'[m] = 1 /\ \A n \in Messages \ {m} : pushed'[n] = pushed[n]
  BY <1>1, <1>2 DEF OnceInv, TypeInv, TypeOK
<1>4. /\ GoOn(p, todo[p]) \in Labels \ {"new", "insert", "jump"}
      /\ GoOn(p, todo[p]) = "push" <=> Is(p, "batch") /\ todo[p] # {}
  BY GoOnLabel DEF Labels, Awaiting
<1>5. pc'[p] = GoOn(p, todo[p]) /\ \A q \in Procs \ {p} : pc'[q] = pc[q]
  BY <1>1, <1>4, StepType DEF OnceInv, TypeInv
<1>6. /\ \A q \in Procs \ {p} : todo'[q] = todo[q] /\ hand'[q] = hand[q]
      /\ hand'[p] \in todo[p] \cup {<<>>} /\ todo'[p] \subseteq todo[p]
      /\ Is(p, "batch") /\ todo[p] # {} => hand'[p] \in todo[p] /\ hand'[p] \notin todo'[p]
  <2>1. hand \in [Procs -> Messages \cup {<<>>}] /\ todo \in [Procs -> SUBSET Messages]
    BY DEF OnceInv, TypeInv, TypeOK
  <2>2. CASE Is(p, "batch") /\ todo[p] # {}
    <3>1. PICK n \in todo[p] : /\ hand' = [hand EXCEPT ![p] = n]
                               /\ todo' = [todo EXCEPT ![p] = @ \ {n}]
      BY <2>2 DEF Push
    <3> QED
      BY <2>1, <3>1
  <2>3. CASE ~(Is(p, "batch") /\ todo[p] # {})
    <3>1. hand' = [hand EXCEPT ![p] = <<>>] /\ UNCHANGED todo
      BY <2>3 DEF Push
    <3> QED
      BY <2>1, <2>3, <3>1
  <2> QED
    BY <2>2, <2>3
<1>7. Is(p, "batch") => m \notin todo[p]
  BY <1>1 DEF OnceInv, OwnBatch, Is, Procs
<1>8. /\ Claims(p)' \subseteq Claims(p) \ {m}
      /\ \A q \in Procs \ {p} : Claims(q)' = Claims(q) /\ m \notin Claims(q)
  <2>1. Claims(p)' \subseteq Claims(p) \ {m}
    <3>1. CASE Is(p, "batch") /\ todo[p] # {}
      BY <1>1, <1>6, <1>7, <3>1 DEF Claims, Is
    <3>2. CASE ~(Is(p, "batch") /\ todo[p] # {})
      BY <1>4, <1>5, <3>2 DEF Claims
    <3> QED
      BY <3>1, <3>2
  <2>2. \A q \in Procs \ {p} : Claims(q)' = Claims(q)
    BY <1>5, <1>6 DEF Claims, Is
  <2>3. \A q \in Procs \ {p} : m \notin Claims(q)
    BY <1>2 DEF OnceInv, ClaimedOnce
  <2> QED
    BY <2>1, <2>2, <2>3
<1>9. CursorGrows
  BY <1>1, CursorSame DEF OnceInv
<1>10. ClaimedOnce'
  BY <1>8 DEF OnceInv, ClaimedOnce
<1>11. ClaimsNew'
  <2> SUFFICES ASSUME NEW q \in Procs, NEW n \in Claims(q)' PROVE pushed'[n] = 0 /\ Consumed(n)'
    BY DEF ClaimsNew
  <2>1. n \in Claims(q) /\ n # m
    BY <1>8
  <2>2. n \in Messages /\ pushed[n] = 0 /\ Consumed(n)
    BY <2>1, ClaimsType DEF OnceInv, ClaimsNew
  <2> QED
    BY <1>1, <1>3, <1>9, <2>1, <2>2, ConsumedKept DEF OnceInv
<1>12. PushedConsumed'
  <2> SUFFICES ASSUME NEW n \in Messages PROVE pushed'[n] = 0 \/ (pushed'[n] = 1 /\ Consumed(n)')
    BY DEF PushedConsumed
  <2>1. Consumed(n) => Consumed(n)'
    BY <1>1, <1>9, ConsumedKept DEF OnceInv
  <2> QED
    BY <1>2, <1>3, <2>1 DEF OnceInv, PushedConsumed
<1>13. \A r \in Requests : pc'[r] \in {"new", "insert", "jump"} => pc'[r] = pc[r]
  BY <1>4, <1>5 DEF Procs
<1>14. InOrder'
  BY <1>1, <1>13, MessageIs DEF OnceInv, InOrder
<1>15. Untouched'
  <2> SUFFICES ASSUME NEW n \in Messages, InBatch(n), pc'[n[1]] \in {"new", "insert", "jump"}
               PROVE  pushed'[n] = 0 /\ \A q \in Procs : n \notin Claims(q)'
    BY DEF Untouched, InBatch
  <2>1. pushed[n] = 0 /\ \A q \in Procs : n \notin Claims(q)
    BY <1>13, MessageIs DEF OnceInv, Untouched
  <2>2. n # m
    BY <1>2, <2>1
  <2> QED
    BY <1>3, <1>8, <2>1, <2>2
<1>16. HandsApart' /\ AtFlushable'
  <2>1. <<>> \notin Messages
    BY MessageIs
  <2>2. \A q \in Procs : todo'[q] \cup {hand'[q]} \subseteq todo[q] \cup {hand[q], <<>>}
    BY <1>6
  <2> QED
    BY <1>1, <2>1, <2>2 DEF OnceInv, HandsApart, AtFlushable, InBatch, Is
<1>17. OwnBatch'
  <2> SUFFICES ASSUME NEW q \in Requests
               PROVE  /\ Is(q, "batch") /\ pc'[q] = "push" => hand'[q] \notin todo'[q]
                      /\ pc'[q] = "jump" => Is(q, "batch")
    BY DEF OwnBatch, Is
  <2>1. CASE q = p
    BY <1>4, <1>5, <1>6, <2>1
  <2>2. CASE q # p
    BY <1>5, <1>6, <2>2 DEF OnceInv, OwnBatch, Procs
  <2> QED
    BY <2>1, <2>2
<1> QED
  BY <1>10, <1>11, <1>12, <1>14, <1>15, <1>16, <1>17 DEF OnceInv

\* PushedAtMostOnce: a message is given to the task scheduler once, however requests of
\* any number of event loops and any number of flush scans interleave, whatever fails
\* and wherever they stop: the UPDATE of the cursor chooses the one who pushes it.  A
\* batch of the service API pushes without asking, so it must have its conversation
\* to itself.
THEOREM NobodyPushedTwice == ASSUME ServiceApart PROVE Spec => []PushedAtMostOnce
<1>1. OnceInv /\ [Next]_vars => OnceInv'
  <2> SUFFICES ASSUME OnceInv, [Next]_vars PROVE OnceInv'
    OBVIOUS
  <2>1. TypeInv /\ TypeInv'
    BY TypeStep DEF OnceInv
  <2> QED
    BY <2>1, Steps, OnceCalm, OnceReadMax, OnceInsert, OnceJump, OnceWins, OncePush
<1>2. OnceInv => PushedAtMostOnce
  BY DEF OnceInv, PushedConsumed, PushedAtMostOnce
<1> QED
  BY <1>1, <1>2, OnceInit, PTL DEF Spec

-----------------------------------------------------------------------------
(* Only a failure loses a message.  A cursor that moves passes over the        *)
(* message in hand, and over no other one that somebody should still have:     *)
(* what lies before it is in hand too, or is settled.                          *)

\* No conversation has both a batch of the asynchronous service call and a chat, whose
\* window of messages that wait behind the cursor such a batch would jump.
WindowApart ==
  \A r, q \in Requests : KindOf[r] = "batch" /\ KindOf[q] = "ingest" => ConvOf[r] # ConvOf[q]

Users == {m \in Messages : KindOfMessage(m) = "user"}

\* A message that nobody needs to look for any more.
Settled(m) == pushed[m] + written[m] > 0 \/ Held(m) \/ m \in dropped

NoneLost == \A m \in Users : Consumed(m) => Settled(m)

\* A cursor is at a row, and a flush at one conversation.
CursorRow == \A c \in Convs : cursor[c] = 0 \/ \E m \in Rows(c) : cursor[c] = seq[m]
AtOne     == \A f \in Flushers : \A c, d \in at[f] : c = d

Fresh   == {"new", "insert", "jump", "cursor", "pending"}
Holding == {"lookup", "advance", "work"}

\* The rows before which p has still to move the cursor.
View(p) ==
  IF Is(p, "batch") THEN {}
  ELSE todo[p] \cup (IF pc[p] \in Holding THEN {hand[p]} ELSE {})

\* A request of the service API has settled its batch once it has looked at it, ...
OwnSettled(p) ==
  ~Is(p, "ingest") /\ pc[p] \notin Fresh =>
    \A m \in Users : m[1] = p => seq[m] = 0 \/ Settled(m)

\* ... the cursor that somebody has read does not go back, ...
ReadBehind(p) == pc[p] = "pending" => \A c \in Convs : IsAt(p, c) => read[p] <= cursor[c]

\* ... he deals with rows one by one in their order, ...
ViewInOrder(p) ==
  /\ \A n \in View(p) : seq[n] > 0
  /\ pc[p] \in Holding => \A k \in todo[p] : seq[hand[p]] <= seq[k]

\* ... and he has all that are not settled up to the last of them.
NoGap(p) ==
  \A n \in View(p) : \A m \in Users :
    ConvOfMessage(m) = ConvOfMessage(n) /\ 0 < seq[m] /\ seq[m] < seq[n]
      => m \in View(p) \/ Settled(m)

\* Where a process may be, and with what.
OnTrack(p) ==
  /\ p \in Requests /\ pc[p] \in Fresh \cup {"refresh", "mark"} => todo[p] = {}
  /\ pc[p] = "jump" => Is(p, "batch")
  /\ pc[p] = "choose" => Is(p, "ingest")
  /\ pc[p] \in {"refresh", "mark"} => Is(p, "ingest")
  /\ pc[p] = "advance" /\ Is(p, "sync") => hand[p] \notin Users

LossOf(p) == OwnSettled(p) /\ ReadBehind(p) /\ ViewInOrder(p) /\ NoGap(p) /\ OnTrack(p)

LossInv == DistinctInv /\ NoneLost /\ CursorRow /\ AtOne /\ \A p \in Procs : LossOf(p)

\* What is pushed, written or lost stays so.
DoneGrows ==
  /\ \A m \in Messages : pushed[m] <= pushed'[m] /\ written[m] <= written'[m]
  /\ dropped \subseteq dropped'

-----------------------------------------------------------------------------

\* The kinds of processes exclude each other.
LEMMA OneKind ==
  ASSUME NEW p \in Procs
  PROVE  /\ p \in Requests => Is(p, "ingest") \/ Is(p, "batch") \/ Is(p, "sync")
         /\ ~(Is(p, "ingest") /\ Is(p, "sync")) /\ ~(Is(p, "ingest") /\ Is(p, "batch"))
         /\ ~(Is(p, "batch") /\ Is(p, "sync"))
         /\ p \in Flushers => ~Is(p, "ingest") /\ ~Is(p, "batch") /\ ~Is(p, "sync")
                              /\ p \notin Requests
BY DispatchAssumption DEF Is

\* What was settled stays settled if the processes of ps settle what they had taken.
LEMMA SettledKept ==
  ASSUME TypeInv, TypeInv', DoneGrows, NEW ps \in SUBSET Procs, Others(ps),
         \A p \in ps : \A m \in Users \cap Taken(p) : Settled(m)'
  PROVE  \A m \in Users : Settled(m) => Settled(m)'
<1> SUFFICES ASSUME NEW m \in Users, Settled(m) PROVE Settled(m)'
  OBVIOUS
<1>1. m \in Messages
  BY DEF Users
<1>2. /\ pushed[m] \in Nat /\ written[m] \in Nat /\ pushed'[m] \in Nat /\ written'[m] \in Nat
  BY <1>1 DEF TypeInv, TypeOK
<1>3. CASE pushed[m] + written[m] > 0
  BY <1>1, <1>2, <1>3 DEF DoneGrows, Settled
<1>4. CASE Held(m)
  <2>1. PICK p \in Procs : m \in Taken(p)
    BY <1>4 DEF Held
  <2>2. CASE p \in ps
    BY <2>1, <2>2
  <2>3. CASE p \notin ps
    <3>1. m \in Taken(p)'
      BY <2>1, <2>3 DEF Taken, Others, Is
    <3> QED
      BY <3>1 DEF Settled, Held
  <2> QED
    BY <2>2, <2>3
<1>5. CASE m \in dropped
  BY <1>5 DEF DoneGrows, Settled
<1> QED
  BY <1>3, <1>4, <1>5 DEF Settled

\* A step of the processes of ps that inserts nothing, and moves a cursor only over
\* what is settled.
LEMMA LossKept ==
  ASSUME LossInv, DistinctInv', UNCHANGED seq, CursorGrows, NEW ps \in SUBSET Procs, Others(ps),
         \A f \in Flushers \ ps : at'[f] = at[f],
         \A m \in Users : Settled(m) => Settled(m)',
         \A m \in Users : Consumed(m)' => Consumed(m) \/ Settled(m)',
         CursorRow', AtOne',
         \A p \in ps : LossOf(p)'
  PROVE  LossInv'
<1>1. NoneLost'
  BY DEF LossInv, NoneLost
<1>2. ASSUME NEW p \in Procs, p \notin ps PROVE LossOf(p)'
  <2>1. /\ pc'[p] = pc[p] /\ read'[p] = read[p] /\ todo'[p] = todo[p] /\ hand'[p] = hand[p]
        /\ View(p)' = View(p) /\ LossOf(p)
    BY <1>2 DEF Others, View, Is, LossInv
  <2>2. OwnSettled(p)'
    BY <2>1 DEF LossOf, OwnSettled, Is
  <2>3. ReadBehind(p)'
    <3> SUFFICES ASSUME pc'[p] = "pending", NEW c \in Convs, IsAt(p, c)' PROVE read'[p] <= cursor'[c]
      BY DEF ReadBehind
    <3>1. IsAt(p, c)
      BY <1>2 DEF IsAt, Procs
    <3>2. read[p] <= cursor[c] /\ cursor[c] <= cursor'[c]
      BY <2>1, <3>1 DEF LossOf, ReadBehind, CursorGrows
    <3>3. read[p] \in Nat /\ cursor[c] \in Nat /\ cursor'[c] \in Nat
      BY DEF LossInv, DistinctInv, TypeInv, TypeOK
    <3> QED
      BY <2>1, <3>2, <3>3
  <2>4. ViewInOrder(p)'
    BY <2>1 DEF LossOf, ViewInOrder
  <2>5. NoGap(p)'
    BY <2>1 DEF LossOf, NoGap
  <2>6. OnTrack(p)'
    BY <2>1 DEF LossOf, OnTrack, Is
  <2> QED
    BY <2>2, <2>3, <2>4, <2>5, <2>6 DEF LossOf
<1> QED
  BY <1>1, <1>2 DEF LossInv

\* A step of one process that neither inserts nor moves a cursor.
LEMMA LossStill ==
  ASSUME LossInv, DistinctInv', UNCHANGED <<seq, cursor>>, DoneGrows,
         NEW ps \in SUBSET Procs, Others(ps),
         \A p \in ps : \A m \in Users \cap Taken(p) : Settled(m)',
         \A f \in Flushers \ ps : at'[f] = at[f], AtOne',
         (\A m \in Users : Settled(m) => Settled(m)') => \A p \in ps : LossOf(p)'
  PROVE  LossInv'
<1>1. \A m \in Users : Settled(m) => Settled(m)'
  BY SettledKept DEF LossInv, DistinctInv
<1>2. \A m \in Users : Consumed(m)' => Consumed(m)
  BY DEF Consumed
<1>3. CursorRow'
  BY DEF LossInv, CursorRow, Rows
<1>4. CursorGrows
  BY CursorSame DEF LossInv, DistinctInv
<1> QED
  BY <1>1, <1>2, <1>3, <1>4, LossKept

\* A step that takes and gives up nothing.
LEMMA LossQuiet ==
  ASSUME LossInv, DistinctInv', UNCHANGED <<seq, cursor, pushed, written, todo, hand>>,
         dropped \subseteq dropped',
         NEW p \in Procs, NEW from,
         NEW to \in Labels \ (Holding \cup {"push", "choose", "jump", "refresh"}),
         Step(p, from, to), from \notin Holding \cup {"push"},
         to \in Fresh => from \in Fresh \cup {"mark"} \/ p \in Flushers,
         from \in Fresh => to \in Fresh, to = "mark" => from = "refresh",
         to = "pending" => ReadBehind(p)',
         \A q \in Procs \ {p} : read'[q] = read[q],
         \A f \in Flushers \ {p} : at'[f] = at[f], AtOne'
  PROVE  LossInv'
<1>1. pc[p] = from /\ pc'[p] = to /\ \A q \in Procs \ {p} : pc'[q] = pc[q]
  BY StepType DEF LossInv, DistinctInv, TypeInv
<1>2. Others({p})
  BY <1>1 DEF Others
<1>3. DoneGrows
  BY DEF DoneGrows, LossInv, DistinctInv, TypeInv, TypeOK
<1>4. \A m \in Taken(p) : m \in Taken(p)'
  BY <1>1 DEF Taken, Is, Holding
<1>5. \A m \in Users \cap Taken(p) : Settled(m)'
  BY <1>4 DEF Settled, Held
<1>6. LossOf(p) /\ View(p)' = View(p)
  BY <1>1 DEF LossInv, View, Is
<1>7. ASSUME \A m \in Users : Settled(m) => Settled(m)' PROVE LossOf(p)'
  <2>1. OwnSettled(p)'
    BY <1>1, <1>6, <1>7 DEF LossOf, OwnSettled, Is
  <2>2. ReadBehind(p)'
    BY <1>1 DEF ReadBehind
  <2>3. ViewInOrder(p)' /\ NoGap(p)'
    BY <1>1, <1>6, <1>7 DEF LossOf, ViewInOrder, NoGap
  <2>4. OnTrack(p)'
    <3>1. p \in Flushers => p \notin Requests
      BY OneKind
    <3> QED
      BY <1>1, <1>6, <3>1 DEF LossOf, OnTrack, Is, Fresh, Holding
  <2> QED
    BY <2>1, <2>2, <2>3, <2>4 DEF LossOf
<1> QED
  BY <1>2, <1>3, <1>5, <1>7, LossStill

\* A fault takes nothing back, and costs what it says.
LEMMA FaultCosts ==
  ASSUME NEW kind, NEW messages, Fault(kind, messages)
  PROVE  dropped \subseteq dropped' /\ messages \subseteq dropped'
BY DEF Fault

\* Where a flush is when another process steps.
LEMMA AtOneKept == ASSUME AtOne, UNCHANGED at PROVE AtOne'
BY DEF AtOne

\* The reads of a request, the marks and the unmarking lose nothing.
LEMMA LossReads ==
  ASSUME LossInv, DistinctInv', NEW p \in Procs,
         \/ p \in Requests /\ (ReadMax(p) \/ Refresh(p) \/ Mark(p))
         \/ ReadLast(p) \/ Compare(p) \/ Unmark(p)
  PROVE  LossInv'
<1> USE DEF tableVars, keyVars, doneVars, failVars, bodyVars, flushVars
<1>1. Leave(p) \in {"done", "convs"}
  BY GoOnLabel
<1>2. PICK from, to \in Labels :
        /\ Step(p, from, to)
        /\ \/ from = "new" /\ to = "insert"
           \/ from = "refresh" /\ to = "mark"
           \/ from = "mark" /\ to = "cursor"
           \/ from = "verify" /\ to = "compare"
           \/ from = "compare" /\ to \in {"unmark", "done", "convs"}
           \/ from = "unmark" /\ to \in {"done", "convs"}
  BY <1>1 DEF ReadMax, Refresh, Mark, ReadLast, Compare, Unmark, Labels, Awaiting
<1>3. /\ UNCHANGED <<seq, cursor, pushed, written, todo, hand, at>>
      /\ UNCHANGED failVars \/ Fault("redis", {})
      /\ UNCHANGED read \/ \E n : read' = [read EXCEPT ![p] = n]
  BY DEF ReadMax, Refresh, Mark, ReadLast, Compare, Unmark, Used
<1>4. dropped \subseteq dropped'
  BY <1>3, FaultCosts
<1>5. \A q \in Procs \ {p} : read'[q] = read[q]
  BY <1>3 DEF LossInv, DistinctInv, TypeInv, TypeOK
<1>6. AtOne'
  BY <1>3, AtOneKept DEF LossInv
<1>7. /\ to \in Labels \ (Holding \cup {"push", "choose", "jump", "refresh"})
      /\ from \notin Holding \cup {"push"}
      /\ to \in Fresh => from \in Fresh \cup {"mark"}
      /\ from \in Fresh => to \in Fresh
      /\ to = "mark" => from = "refresh"
      /\ to # "pending"
  BY <1>2 DEF Holding, Fresh
<1> QED
  BY <1>2, <1>3, <1>4, <1>5, <1>6, <1>7, LossQuiet

\* Reading the cursor loses nothing: it does not go back.
LEMMA LossReadCursor ==
  ASSUME LossInv, DistinctInv', NEW p \in Procs, ReadCursor(p) PROVE LossInv'
<1> USE DEF tableVars, keyVars, doneVars, failVars, bodyVars, flushVars
<1>1. /\ Step(p, "cursor", "pending")
      /\ UNCHANGED <<seq, cursor, pushed, written, todo, hand, at, dropped>>
  BY DEF ReadCursor
<1>2. PICK c \in Convs : IsAt(p, c) /\ read' = [read EXCEPT ![p] = cursor[c]]
  BY DEF ReadCursor
<1>3. read'[p] = cursor[c] /\ \A q \in Procs \ {p} : read'[q] = read[q]
  BY <1>2 DEF LossInv, DistinctInv, TypeInv, TypeOK
<1>4. ReadBehind(p)'
  <2> SUFFICES ASSUME NEW d \in Convs, IsAt(p, d)' PROVE read'[p] <= cursor'[d]
    BY DEF ReadBehind
  <2>1. d = c
    BY <1>1, <1>2 DEF IsAt, LossInv, AtOne, Procs
  <2> QED
    BY <1>1, <1>3, <2>1 DEF LossInv, DistinctInv, TypeInv, TypeOK
<1>5. AtOne'
  BY <1>1, AtOneKept DEF LossInv
<1>6. "pending" \in Labels
  BY DEF Labels
<1> QED
  BY <1>1, <1>3, <1>4, <1>5, <1>6, LossQuiet DEF Holding, Fresh

\* A flush that looks for its next conversation loses nothing.
LEMMA LossConvs ==
  ASSUME LossInv, DistinctInv', NEW f \in Flushers,
         Scan(f) \/ Query(f) \/ NextConv(f) \/ ScanEnds(f)
  PROVE  LossInv'
<1> USE DEF tableVars, keyVars, doneVars, failVars, bodyVars, flushVars
<1>1. PICK from \in {"idle", "query", "convs"}, to \in {"idle", "query", "convs", "cursor"} :
        Step(f, from, to)
  BY DEF Scan, Query, NextConv, ScanEnds
<1>2. /\ UNCHANGED <<seq, cursor, pushed, written, todo, hand, read>>
      /\ UNCHANGED failVars \/ Fault("redis", {})
  BY DEF Scan, Query, NextConv, ScanEnds
<1>3. UNCHANGED at \/ at' = [at EXCEPT ![f] = {}] \/ \E c : at' = [at EXCEPT ![f] = {c}]
  BY DEF Scan, Query, NextConv, ScanEnds
<1>4. (\A g \in Flushers \ {f} : at'[g] = at[g]) /\ AtOne'
  <2>1. at \in [Flushers -> SUBSET Convs]
    BY DEF LossInv, DistinctInv, TypeInv, TypeOK
  <2>2. \A g \in Flushers \ {f} : at'[g] = at[g]
    BY <1>3, <2>1
  <2>3. at'[f] = at[f] \/ at'[f] = {} \/ \E c : at'[f] = {c}
    BY <1>3, <2>1
  <2> QED
    BY <2>2, <2>3 DEF LossInv, AtOne
<1>5. dropped \subseteq dropped'
  BY <1>2, FaultCosts
<1>6. /\ f \in Procs /\ to \in Labels \ (Holding \cup {"push", "choose", "jump", "refresh"})
      /\ from \notin Holding \cup {"push"} /\ from \notin Fresh /\ to # "mark" /\ to # "pending"
  BY DEF Procs, Labels, Awaiting, Holding, Fresh
<1> QED
  BY <1>1, <1>2, <1>4, <1>5, <1>6, LossQuiet

\* The expiry of a key loses nothing.
LEMMA LossExpire ==
  ASSUME LossInv, DistinctInv', (\E c \in Convs : Expire(c)) \/ UNCHANGED vars PROVE LossInv'
<1> USE DEF tableVars, doneVars, failVars, bodyVars, flushVars
<1>1. /\ UNCHANGED <<seq, cursor, pushed, written, pc, read, todo, hand, at>>
      /\ UNCHANGED failVars \/ Fault("stall", {})
  BY DEF Expire, vars
<1>2. dropped \subseteq dropped'
  BY <1>1, FaultCosts
<1>3. DoneGrows
  BY <1>1, <1>2 DEF DoneGrows, LossInv, DistinctInv, TypeInv, TypeOK
<1>4. Others({}) /\ AtOne'
  BY <1>1, AtOneKept DEF Others, LossInv
<1> QED
  BY <1>1, <1>3, <1>4, LossStill

\* What a process of each kind holds.
LEMMA TakenIs ==
  ASSUME TypeInv, NEW p \in Procs
  PROVE  /\ Taken(p) \subseteq Messages
         /\ Is(p, "batch") \/ Is(p, "sync") => todo[p] \subseteq Taken(p)
         /\ ~Is(p, "batch") /\ ~Is(p, "sync") /\ pc[p] \notin {"push", "work"} => Taken(p) = {}
         /\ Taken(p) \subseteq todo[p] \cup {hand[p]}
BY DEF Taken, TypeInv, TypeOK

\* One step of a process, which leaves the tables alone.
LEMMA LossOne ==
  ASSUME LossInv, DistinctInv', UNCHANGED <<seq, cursor, at>>, DoneGrows,
         NEW p \in Procs, NEW from, NEW to \in Labels \ (Fresh \cup {"refresh", "mark"}),
         Step(p, from, to),
         \A q \in Procs \ {p} : read'[q] = read[q] /\ todo'[q] = todo[q] /\ hand'[q] = hand[q],
         \A m \in Users \cap Taken(p) : Settled(m)',
         (\A m \in Users : Settled(m) => Settled(m)') => ViewInOrder(p)' /\ NoGap(p)',
         from \in Fresh => OwnSettled(p)',
         to = "choose" => Is(p, "ingest"),
         to = "advance" /\ Is(p, "sync") => hand'[p] \notin Users
  PROVE  LossInv'
<1>1. pc[p] = from /\ pc'[p] = to /\ \A q \in Procs \ {p} : pc'[q] = pc[q]
  BY StepType DEF LossInv, DistinctInv, TypeInv
<1>2. Others({p})
  BY <1>1 DEF Others
<1>3. ASSUME \A m \in Users : Settled(m) => Settled(m)' PROVE LossOf(p)'
  <2>1. OwnSettled(p)'
    BY <1>1, <1>3 DEF LossInv, LossOf, OwnSettled, Is
  <2>2. ReadBehind(p)'
    BY <1>1 DEF ReadBehind, Fresh
  <2>3. OnTrack(p)'
    BY <1>1 DEF OnTrack, Is, Fresh
  <2> QED
    BY <1>3, <2>1, <2>2, <2>3 DEF LossOf
<1>4. AtOne'
  BY AtOneKept DEF LossInv
<1> QED
  BY <1>2, <1>3, <1>4, LossStill

\* A process that loads rows has all that are not settled.
LEMMA LossReadPending ==
  ASSUME LossInv, DistinctInv', NEW p \in Procs, ReadPending(p) PROVE LossInv'
<1> USE DEF tableVars, keyVars, doneVars, failVars, flushVars
<1>1. PICK c \in Convs :
        /\ IsAt(p, c)
        /\ LET rows == {m \in Rows(c) : seq[m] > read[p]}
           IN  /\ Step(p, "pending", CASE rows = {} -> IF Is(p, "sync") THEN "verify" ELSE Leave(p)
                                       [] Is(p, "ingest") -> "choose"
                                       [] OTHER -> "each")
               /\ todo' = [todo EXCEPT ![p] = rows]
  BY DEF ReadPending
<1> DEFINE rows == {m \in Rows(c) : seq[m] > read[p]}
<1>2. Leave(p) \in {"done", "convs"}
  BY GoOnLabel
<1>3. PICK to \in {"verify", "done", "convs", "choose", "each"} :
        Step(p, "pending", to) /\ (to = "choose" => Is(p, "ingest"))
  BY <1>1, <1>2
<1>4. /\ UNCHANGED <<seq, cursor, pushed, written, dropped, hand, at>>
      /\ read' = [read EXCEPT ![p] = 0] /\ todo' = [todo EXCEPT ![p] = rows]
  BY <1>1 DEF ReadPending, Used
<1>5. /\ todo'[p] = rows
      /\ \A q \in Procs \ {p} : read'[q] = read[q] /\ todo'[q] = todo[q] /\ hand'[q] = hand[q]
  BY <1>4 DEF LossInv, DistinctInv, TypeInv, TypeOK
<1>6. pc[p] = "pending" /\ pc'[p] = to
  BY <1>3, StepType DEF LossInv, DistinctInv, TypeInv, Labels, Awaiting
<1>7. \A m \in Messages : seq[m] \in Nat
  BY DEF LossInv, DistinctInv, TypeInv, TypeOK
<1>8. read[p] <= cursor[c] /\ read[p] \in Nat /\ cursor[c] \in Nat
  BY <1>1, <1>6 DEF LossInv, LossOf, ReadBehind, DistinctInv, TypeInv, TypeOK
<1>9. \A m \in Users : ConvOfMessage(m) = c /\ seq[m] > 0 /\ m \notin rows => Settled(m)
  <2> SUFFICES ASSUME NEW m \in Users, ConvOfMessage(m) = c, seq[m] > 0, m \notin rows
               PROVE  Settled(m)
    OBVIOUS
  <2>1. m \in Messages /\ m \in Rows(c)
    BY DEF Users, Rows
  <2>2. Consumed(m)
    BY <1>7, <1>8, <2>1 DEF Consumed
  <2> QED
    BY <2>2 DEF LossInv, NoneLost
<1>10. Taken(p) = {}
  <2>1. CASE p \in Requests
    <3>1. todo[p] = {}
      BY <1>6, <2>1 DEF LossInv, LossOf, OnTrack, Fresh
    <3> QED
      BY <1>6, <3>1 DEF Taken
  <2>2. CASE p \in Flushers
    BY <1>6, <2>2, OneKind DEF Taken
  <2> QED
    BY <2>1, <2>2 DEF Procs
<1>11. DoneGrows
  BY <1>4 DEF DoneGrows, LossInv, DistinctInv, TypeInv, TypeOK
<1>12. \A m \in Users : Settled(m) => Settled(m)'
  <2>1. Others({p})
    BY <1>3, <1>5, StepType DEF Others, LossInv, DistinctInv, TypeInv, Labels, Awaiting
  <2> QED
    BY <1>10, <1>11, <2>1, SettledKept DEF LossInv, DistinctInv
<1>13. View(p)' \subseteq rows /\ (~Is(p, "batch") => View(p)' = rows)
  BY <1>5, <1>6 DEF View, Is, Holding
<1>14. ViewInOrder(p)'
  BY <1>4, <1>6, <1>13 DEF ViewInOrder, Rows, Holding
<1>15. NoGap(p)'
  <2> SUFFICES ASSUME NEW n \in View(p)', NEW m \in Users, ConvOfMessage(m) = ConvOfMessage(n),
                      0 < seq'[m], seq'[m] < seq'[n]
               PROVE  m \in View(p)' \/ Settled(m)'
    BY DEF NoGap
  <2>1. ConvOfMessage(m) = c /\ ~Is(p, "batch")
    BY <1>13 DEF Rows, View, Is
  <2> QED
    BY <1>4, <1>9, <1>12, <1>13, <2>1
<1>16. OwnSettled(p)'
  <2> SUFFICES ASSUME ~Is(p, "ingest"), NEW m \in Users, m[1] = p, seq'[m] # 0
               PROVE  Settled(m)'
    BY DEF OwnSettled, Is
  <2>1. m \in Messages /\ p \in Requests /\ (Is(p, "batch") \/ Is(p, "sync")) /\ seq[m] > 0
    BY <1>4, <1>7, MessageIs, OneKind DEF Users
  <2>2. ConvOfMessage(m) = c
    BY <1>1, <2>1 DEF ConvOfMessage, IsAt
  <2>3. CASE m \in rows
    <3>1. m \in Taken(p)'
      BY <1>5, <2>1, <2>3 DEF Taken, Is
    <3> QED
      BY <3>1 DEF Settled, Held
  <2>4. CASE m \notin rows
    BY <1>9, <1>12, <2>1, <2>2, <2>4
  <2> QED
    BY <2>3, <2>4
<1> HIDE DEF rows
<1>17. to \in Labels \ (Fresh \cup {"refresh", "mark"}) /\ to # "advance"
  BY DEF Labels, Awaiting, Fresh
<1> QED
  BY <1>3, <1>4, <1>5, <1>10, <1>11, <1>14, <1>15, <1>16, <1>17, LossOne

\* The window takes the first user message it has loaded.
LEMMA LossChoose ==
  ASSUME LossInv, DistinctInv', NEW r \in Requests, Choose(r) PROVE LossInv'
<1> USE DEF tableVars, keyVars, doneVars, failVars, flushVars
<1>1. r \in Procs /\ pc[r] = "choose"
  BY DEF Procs, Choose, Step
<1>2. Is(r, "ingest") /\ ~Is(r, "batch") /\ ~Is(r, "sync") /\ LossOf(r)
  BY <1>1, OneKind DEF LossInv, LossOf, OnTrack
<1> DEFINE candidates == {m \in todo[r] : KindOfMessage(m) = "user"}
<1>3. /\ UNCHANGED <<seq, cursor, pushed, written, dropped, read, at>>
      /\ todo' = [todo EXCEPT ![r] = {}]
  BY DEF Choose
<1>4. \/ Step(r, "choose", "done") /\ UNCHANGED hand
      \/ /\ Step(r, "choose", "advance")
         /\ \E m \in candidates : IsFirst(m, candidates) /\ hand' = [hand EXCEPT ![r] = m]
  BY DEF Choose
<1>5. todo'[r] = {} /\ \A q \in Procs \ {r} : read'[q] = read[q] /\ todo'[q] = todo[q]
  BY <1>1, <1>3 DEF LossInv, DistinctInv, TypeInv, TypeOK
<1>6. DoneGrows
  BY <1>3 DEF DoneGrows, LossInv, DistinctInv, TypeInv, TypeOK
<1>7. Taken(r) = {}
  BY <1>1, <1>2, TakenIs DEF LossInv, DistinctInv
<1>8. "done" \in Labels \ (Fresh \cup {"refresh", "mark"})
      /\ "advance" \in Labels \ (Fresh \cup {"refresh", "mark"}) /\ "choose" \notin Fresh
  BY DEF Labels, Awaiting, Fresh
<1>9. CASE Step(r, "choose", "done") /\ UNCHANGED hand
  <2>1. pc'[r] = "done"
    BY <1>1, <1>8, <1>9, StepType DEF LossInv, DistinctInv, TypeInv
  <2>2. ViewInOrder(r)' /\ NoGap(r)'
    BY <1>5, <2>1 DEF ViewInOrder, NoGap, View, Holding
  <2> QED
    BY <1>1, <1>3, <1>5, <1>6, <1>7, <1>8, <1>9, <2>2, LossOne
<1>10. ASSUME NEW m \in candidates, IsFirst(m, candidates), hand' = [hand EXCEPT ![r] = m],
              Step(r, "choose", "advance")
       PROVE  LossInv'
  <2>1. pc'[r] = "advance"
    BY <1>1, <1>8, <1>10, StepType DEF LossInv, DistinctInv, TypeInv
  <2>2. hand'[r] = m /\ \A q \in Procs \ {r} : hand'[q] = hand[q]
    BY <1>1, <1>10 DEF LossInv, DistinctInv, TypeInv, TypeOK
  <2>3. View(r)' = {m} /\ View(r) = todo[r] /\ m \in View(r)
    BY <1>1, <1>2, <1>5, <2>1, <2>2 DEF View, Is, Holding
  <2>4. ViewInOrder(r)'
    BY <1>2, <1>3, <1>5, <2>3 DEF LossOf, ViewInOrder
  <2>5. ASSUME \A k \in Users : Settled(k) => Settled(k)' PROVE NoGap(r)'
    <3> SUFFICES ASSUME NEW k \in Users, ConvOfMessage(k) = ConvOfMessage(m), 0 < seq[k],
                        seq[k] < seq[m]
                 PROVE  Settled(k)'
      BY <1>3, <2>3 DEF NoGap
    <3>1. k \in Messages /\ m \in Messages
      BY <1>1 DEF Users, LossInv, DistinctInv, TypeInv, TypeOK
    <3>2. k \notin candidates
      <4>1. seq[k] \in Nat /\ seq[m] \in Nat
        BY <3>1 DEF LossInv, DistinctInv, TypeInv, TypeOK
      <4> QED
        BY <1>10, <4>1 DEF IsFirst
    <3>3. k \notin todo[r]
      BY <3>2 DEF Users
    <3>4. Settled(k)
      BY <1>2, <2>3, <3>3 DEF LossOf, NoGap
    <3> QED
      BY <2>5, <3>4
  <2> QED
    BY <1>1, <1>2, <1>3, <1>5, <1>6, <1>7, <1>8, <1>10, <2>2, <2>4, <2>5, LossOne
<1> QED
  BY <1>4, <1>9, <1>10

\* The executor takes its rows one by one, in their order.
LEMMA LossExecute ==
  ASSUME LossInv, DistinctInv', NEW r \in Requests, ExecuteNext(r) PROVE LossInv'
<1> USE DEF tableVars, keyVars, doneVars, failVars, flushVars
<1>1. r \in Procs /\ Is(r, "sync") /\ ~Is(r, "batch")
  BY OneKind DEF Procs, ExecuteNext
<1>2. PICK m \in todo[r] :
        /\ IsFirst(m, todo[r])
        /\ Step(r, "each", IF KindOfMessage(m) = "muted" THEN "advance" ELSE "work")
        /\ todo' = [todo EXCEPT ![r] = @ \ {m}] /\ hand' = [hand EXCEPT ![r] = m]
  BY DEF ExecuteNext
<1>3. PICK to \in {"advance", "work"} :
        Step(r, "each", to) /\ (to = "advance" <=> KindOfMessage(m) = "muted")
  BY <1>2
<1>4. UNCHANGED <<seq, cursor, pushed, written, dropped, read, at>>
  BY DEF ExecuteNext
<1>5. /\ todo'[r] = todo[r] \ {m} /\ hand'[r] = m
      /\ \A q \in Procs \ {r} : read'[q] = read[q] /\ todo'[q] = todo[q] /\ hand'[q] = hand[q]
  BY <1>1, <1>2, <1>4 DEF LossInv, DistinctInv, TypeInv, TypeOK
<1>6. pc[r] = "each" /\ pc'[r] = to
  BY <1>1, <1>3, StepType DEF LossInv, DistinctInv, TypeInv, Labels, Awaiting
<1>7. View(r)' = View(r) /\ View(r) = todo[r] /\ m \in View(r) /\ LossOf(r)
  BY <1>1, <1>5, <1>6 DEF View, Is, Holding, LossInv
<1>8. to = "advance" => m \notin Users
  BY <1>3 DEF Users
<1>9. \A k \in Users \cap Taken(r) : Settled(k)'
  <2>1. Taken(r) \subseteq todo[r]
    BY <1>6 DEF Taken
  <2>2. \A k \in Users \cap todo[r] : k \in Taken(r)'
    BY <1>1, <1>5, <1>6, <1>8 DEF Taken, Users, Is
  <2> QED
    BY <1>1, <2>1, <2>2 DEF Settled, Held
<1>10. ViewInOrder(r)'
  BY <1>2, <1>4, <1>5, <1>7 DEF LossOf, ViewInOrder, IsFirst
<1>11. (\A k \in Users : Settled(k) => Settled(k)') => NoGap(r)'
  BY <1>4, <1>7 DEF LossOf, NoGap
<1>12. DoneGrows
  BY <1>4 DEF DoneGrows, LossInv, DistinctInv, TypeInv, TypeOK
<1>13. to \in Labels \ (Fresh \cup {"refresh", "mark"}) /\ "each" \notin Fresh /\ to # "choose"
  BY DEF Labels, Awaiting, Fresh
<1> QED
  BY <1>1, <1>3, <1>4, <1>5, <1>8, <1>9, <1>10, <1>11, <1>12, <1>13, LossOne

\* A process that has settled the message in hand goes on with the others.
LEMMA LossDrops ==
  ASSUME LossInv, NEW p \in Procs, UNCHANGED seq, todo'[p] \subseteq todo[p],
         pc'[p] \notin Holding, todo'[p] # {} => todo'[p] = todo[p],
         \A m \in Users : Settled(m) => Settled(m)',
         \A m \in Users : m = hand[p] /\ pc[p] \in Holding /\ todo'[p] # {} => Settled(m)'
  PROVE  ViewInOrder(p)' /\ NoGap(p)'
<1>1. View(p)' \subseteq View(p) /\ LossOf(p)
  BY DEF View, Is, LossInv
<1>2. ViewInOrder(p)'
  BY <1>1 DEF LossOf, ViewInOrder
<1>3. NoGap(p)'
  <2> SUFFICES ASSUME NEW n \in View(p)', NEW m \in Users, ConvOfMessage(m) = ConvOfMessage(n),
                      0 < seq'[m], seq'[m] < seq'[n]
               PROVE  m \in View(p)' \/ Settled(m)'
    BY DEF NoGap
  <2>1. m \in View(p) \/ Settled(m)
    BY <1>1 DEF LossOf, NoGap
  <2>2. ~Is(p, "batch") /\ n \in todo'[p] /\ todo'[p] = todo[p]
    BY DEF View, Is
  <2>3. CASE m \in View(p)
    <3>1. m \in todo'[p] \/ (pc[p] \in Holding /\ m = hand[p])
      BY <2>2, <2>3 DEF View
    <3>2. CASE m \in todo'[p]
      BY <2>2, <3>2 DEF View, Is
    <3>3. CASE pc[p] \in Holding /\ m = hand[p]
      BY <2>2, <3>3
    <3> QED
      BY <3>1, <3>2, <3>3
  <2>4. CASE Settled(m)
    BY <2>4
  <2> QED
    BY <2>1, <2>3, <2>4
<1> QED
  BY <1>2, <1>3

\* The executor has written the message in hand.
LEMMA LossWork ==
  ASSUME LossInv, DistinctInv', NEW r \in Requests, Work(r) PROVE LossInv'
<1> USE DEF tableVars, keyVars, doneVars, failVars, flushVars
<1>1. r \in Procs /\ pc[r] = "work" /\ hand[r] \in Messages /\ ~Is(r, "batch")
  BY DEF Procs, Work, LossInv, DistinctInv, TypeInv, HandKnown, OnPath, BatchPath
<1>2. UNCHANGED <<seq, cursor, pushed, dropped, read, todo, at>>
  BY DEF Work
<1>3. /\ pushed \in [Messages -> Nat] /\ written \in [Messages -> Nat]
      /\ hand \in [Procs -> Messages \cup {<<>>}]
  BY DEF LossInv, DistinctInv, TypeInv, TypeOK
<1>4. CASE KindOfMessage(hand[r]) = "user"
  <2>1. /\ Step(r, "work", GoOn(r, todo[r]))
        /\ written' = [written EXCEPT ![hand[r]] = @ + 1] /\ hand' = [hand EXCEPT ![r] = <<>>]
    BY <1>4 DEF Work
  <2>2. GoOn(r, todo[r]) \in {"done", "verify", "each"}
    BY <1>1, GoOnLabel
  <2>3. PICK to \in {"done", "verify", "each"} : Step(r, "work", to)
    BY <2>1, <2>2
  <2>4. to \in Labels \ (Fresh \cup {"refresh", "mark"}) /\ "work" \notin Fresh
        /\ to \notin Holding /\ to # "advance" /\ to # "choose" /\ to \notin {"push", "work"}
    BY <2>3 DEF Labels, Awaiting, Fresh, Holding
  <2>5. pc'[r] = to
    BY <1>1, <2>3, <2>4, StepType DEF LossInv, DistinctInv, TypeInv
  <2>6. \A q \in Procs \ {r} : hand'[q] = hand[q]
    BY <1>3, <2>1
  <2>7. written'[hand[r]] > 0 /\ DoneGrows
    BY <1>1, <1>2, <1>3, <2>1 DEF DoneGrows
  <2>8. \A m : m = hand[r] => Settled(m)'
    <3>1. pushed'[hand[r]] \in Nat /\ written'[hand[r]] \in Nat
      BY <1>1 DEF DistinctInv, TypeInv, TypeOK
    <3> QED
      BY <2>7, <3>1 DEF Settled
  <2>9. \A m \in Users \cap Taken(r) : Settled(m)'
    <3> SUFFICES ASSUME NEW m \in Users \cap Taken(r), m # hand[r] PROVE Settled(m)'
      BY <2>8
    <3>1. m \in Taken(r)'
      BY <1>1, <1>2 DEF Taken, Is
    <3> QED
      BY <1>1, <3>1 DEF Settled, Held
  <2>10. (\A m \in Users : Settled(m) => Settled(m)') => ViewInOrder(r)' /\ NoGap(r)'
    BY <1>1, <1>2, <2>4, <2>5, <2>8, LossDrops
  <2> QED
    BY <1>1, <1>2, <2>3, <2>4, <2>6, <2>7, <2>9, <2>10, LossOne
<1>5. CASE KindOfMessage(hand[r]) # "user"
  <2>1. Step(r, "work", "advance") /\ UNCHANGED <<written, hand>>
    BY <1>5 DEF Work
  <2>2. "advance" \in Labels \ (Fresh \cup {"refresh", "mark"}) /\ "work" \notin Fresh
        /\ "advance" \in Holding /\ "work" \in Holding
    BY DEF Labels, Awaiting, Fresh, Holding
  <2>3. pc'[r] = "advance"
    BY <1>1, <2>1, <2>2, StepType DEF LossInv, DistinctInv, TypeInv
  <2>4. DoneGrows
    BY <1>2, <1>3, <2>1 DEF DoneGrows
  <2>5. hand[r] \notin Users
    BY <1>5 DEF Users
  <2>6. \A m \in Users \cap Taken(r) : Settled(m)'
    <3> SUFFICES ASSUME NEW m \in Users \cap Taken(r) PROVE Settled(m)'
      OBVIOUS
    <3>1. m \in Taken(r)'
      BY <1>1, <1>2, <2>1, <2>3, <2>5 DEF Taken, Is
    <3> QED
      BY <1>1, <3>1 DEF Settled, Held
  <2>7. View(r)' = View(r) /\ LossOf(r)
    BY <1>1, <1>2, <2>1, <2>2, <2>3 DEF View, Is, LossInv
  <2>8. ViewInOrder(r)'
    BY <1>1, <1>2, <2>1, <2>2, <2>7 DEF LossOf, ViewInOrder
  <2>9. (\A m \in Users : Settled(m) => Settled(m)') => NoGap(r)'
    BY <1>2, <2>7 DEF LossOf, NoGap
  <2> QED
    BY <1>1, <1>2, <2>1, <2>2, <2>4, <2>5, <2>6, <2>8, <2>9, LossOne
<1> QED
  BY <1>4, <1>5

\* The executor skips the message in hand, which a fault has cost.
LEMMA LossSkip ==
  ASSUME LossInv, DistinctInv', NEW r \in Requests, SkipMessage(r) PROVE LossInv'
<1> USE DEF tableVars, keyVars, doneVars, flushVars
<1>1. r \in Procs /\ Is(r, "sync") /\ ~Is(r, "batch") /\ pc[r] \in {"work", "advance"}
  BY OneKind DEF Procs, SkipMessage
<1>2. /\ Step(r, pc[r], GoOn(r, todo[r])) /\ hand' = [hand EXCEPT ![r] = <<>>]
      /\ UNCHANGED <<seq, cursor, pushed, written, read, todo, at>>
      /\ Fault("error", {hand[r]})
  BY DEF SkipMessage
<1>3. dropped \subseteq dropped' /\ {hand[r]} \subseteq dropped'
  BY <1>2, FaultCosts
<1>4. GoOn(r, todo[r]) \in {"done", "verify", "each"}
  BY <1>1, GoOnLabel
<1>5. PICK to \in {"done", "verify", "each"} : Step(r, pc[r], to)
  BY <1>2, <1>4
<1>6. to \in Labels \ (Fresh \cup {"refresh", "mark"}) /\ pc[r] \notin Fresh
      /\ to \notin Holding /\ to # "advance" /\ to # "choose"
  BY <1>1, <1>5 DEF Labels, Awaiting, Fresh, Holding
<1>7. pc'[r] = to
  BY <1>1, <1>5, <1>6, StepType DEF LossInv, DistinctInv, TypeInv
<1>8. \A q \in Procs \ {r} : hand'[q] = hand[q]
  BY <1>2 DEF LossInv, DistinctInv, TypeInv, TypeOK
<1>9. DoneGrows
  BY <1>2, <1>3 DEF DoneGrows, LossInv, DistinctInv, TypeInv, TypeOK
<1>10. \A m : m = hand[r] => Settled(m)'
  BY <1>3 DEF Settled
<1>11. \A m \in Users \cap Taken(r) : Settled(m)'
  <2> SUFFICES ASSUME NEW m \in Users \cap Taken(r), m # hand[r] PROVE Settled(m)'
    BY <1>10
  <2>1. m \in Taken(r)'
    BY <1>1, <1>2 DEF Taken, Is
  <2> QED
    BY <1>1, <2>1 DEF Settled, Held
<1>12. (\A m \in Users : Settled(m) => Settled(m)') => ViewInOrder(r)' /\ NoGap(r)'
  BY <1>1, <1>2, <1>6, <1>7, <1>10, LossDrops
<1> QED
  BY <1>1, <1>2, <1>5, <1>6, <1>8, <1>9, <1>11, <1>12, LossOne

\* A flush that looks its message up has taken nothing yet.
LEMMA LossLookup ==
  ASSUME LossInv, DistinctInv', NEW f \in Flushers, Lookup(f) PROVE LossInv'
<1> USE DEF tableVars, keyVars, doneVars, failVars, flushVars
<1>1. f \in Procs /\ pc[f] = "lookup" /\ ~Is(f, "batch") /\ ~Is(f, "sync")
  BY OneKind DEF Procs, Lookup
<1>2. UNCHANGED <<seq, cursor, pushed, written, dropped, read, at>>
  BY DEF Lookup
<1>3. PICK to \in {"advance", "convs"} :
        /\ Step(f, "lookup", to)
        /\ \/ to = "advance" /\ UNCHANGED <<todo, hand>>
           \/ /\ to = "convs"
              /\ todo' = [todo EXCEPT ![f] = {}] /\ hand' = [hand EXCEPT ![f] = <<>>]
  BY DEF Lookup
<1>4. to \in Labels \ (Fresh \cup {"refresh", "mark"}) /\ "lookup" \notin Fresh
      /\ to # "choose"
  BY DEF Labels, Awaiting, Fresh
<1>5. pc'[f] = to
  BY <1>1, <1>3, <1>4, StepType DEF LossInv, DistinctInv, TypeInv
<1>6. \A q \in Procs \ {f} : todo'[q] = todo[q] /\ hand'[q] = hand[q]
  BY <1>3 DEF LossInv, DistinctInv, TypeInv, TypeOK
<1>7. DoneGrows
  BY <1>2 DEF DoneGrows, LossInv, DistinctInv, TypeInv, TypeOK
<1>8. Taken(f) = {}
  BY <1>1, TakenIs DEF LossInv, DistinctInv
<1>9. ASSUME \A m \in Users : Settled(m) => Settled(m)' PROVE ViewInOrder(f)' /\ NoGap(f)'
  <2>1. CASE to = "advance"
    <3>1. UNCHANGED <<todo, hand>> /\ View(f)' = View(f) /\ LossOf(f)
      BY <1>1, <1>3, <1>5, <2>1 DEF View, Is, Holding, LossInv
    <3> QED
      BY <1>1, <1>2, <1>9, <3>1 DEF LossOf, ViewInOrder, NoGap, Holding
  <2>2. CASE to = "convs"
    <3>1. todo'[f] = {} /\ pc'[f] \notin Holding
      BY <1>1, <1>3, <1>5, <2>2 DEF Holding, LossInv, DistinctInv, TypeInv, TypeOK
    <3> QED
      BY <3>1 DEF ViewInOrder, NoGap, View
  <2> QED
    BY <2>1, <2>2
<1> QED
  BY <1>1, <1>2, <1>3, <1>4, <1>6, <1>7, <1>8, <1>9, LossOne

\* A push settles the message in hand.
LEMMA LossPush ==
  ASSUME LossInv, DistinctInv', NEW p \in Procs, Push(p) PROVE LossInv'
<1> USE DEF tableVars, keyVars, doneVars, failVars, flushVars
<1>1. pc[p] = "push" /\ hand[p] \in Messages
  BY DEF Push, Step, LossInv, DistinctInv, TypeInv, HandKnown
<1>2. /\ Step(p, "push", GoOn(p, todo[p])) /\ pushed' = [pushed EXCEPT ![hand[p]] = @ + 1]
      /\ UNCHANGED <<seq, cursor, written, dropped, read, at>>
  BY DEF Push
<1>3. /\ GoOn(p, todo[p]) \in {"done", "push", "verify", "each"}
      /\ GoOn(p, todo[p]) = "push" <=> Is(p, "batch") /\ todo[p] # {}
  BY GoOnLabel
<1>4. PICK to \in {"done", "push", "verify", "each"} :
        Step(p, "push", to) /\ (to = "push" <=> Is(p, "batch") /\ todo[p] # {})
  BY <1>2, <1>3
<1>5. to \in Labels \ (Fresh \cup {"refresh", "mark"}) /\ "push" \notin Fresh
      /\ to \notin Holding /\ to # "choose" /\ to # "advance" /\ "push" \notin Holding
  BY DEF Labels, Awaiting, Fresh, Holding
<1>6. pc'[p] = to
  BY <1>4, <1>5, StepType DEF LossInv, DistinctInv, TypeInv
<1>7. /\ pushed \in [Messages -> Nat] /\ written \in [Messages -> Nat]
      /\ hand \in [Procs -> Messages \cup {<<>>}] /\ todo \in [Procs -> SUBSET Messages]
  BY DEF LossInv, DistinctInv, TypeInv, TypeOK
<1>8. /\ \A q \in Procs \ {p} : todo'[q] = todo[q] /\ hand'[q] = hand[q]
      /\ Is(p, "batch") /\ todo[p] # {} => todo[p] = todo'[p] \cup {hand'[p]}
      /\ ~Is(p, "batch") => todo'[p] = todo[p]
      /\ todo'[p] \subseteq todo[p]
  <2>1. CASE Is(p, "batch") /\ todo[p] # {}
    <3>1. PICK n \in todo[p] : /\ hand' = [hand EXCEPT ![p] = n]
                               /\ todo' = [todo EXCEPT ![p] = @ \ {n}]
      BY <2>1 DEF Push
    <3> QED
      BY <1>7, <2>1, <3>1
  <2>2. CASE ~(Is(p, "batch") /\ todo[p] # {})
    <3>1. hand' = [hand EXCEPT ![p] = <<>>] /\ UNCHANGED todo
      BY <2>2 DEF Push
    <3> QED
      BY <1>7, <2>2, <3>1
  <2> QED
    BY <2>1, <2>2
<1>9. pushed'[hand[p]] > 0 /\ DoneGrows
  BY <1>1, <1>2, <1>7 DEF DoneGrows
<1>10. \A m : m = hand[p] => Settled(m)'
  <2>1. pushed'[hand[p]] \in Nat /\ written'[hand[p]] \in Nat
    BY <1>1 DEF DistinctInv, TypeInv, TypeOK
  <2> QED
    BY <1>9, <2>1 DEF Settled
<1>11. \A m \in Users \cap Taken(p) : Settled(m)'
  <2> SUFFICES ASSUME NEW m \in Users \cap Taken(p), m # hand[p] PROVE Settled(m)'
    BY <1>10
  <2>1. m \in todo[p] /\ (Is(p, "batch") \/ Is(p, "sync")) /\ m \in Messages
    BY DEF Taken
  <2>2. m \in Taken(p)'
    BY <1>4, <1>6, <1>8, <2>1 DEF Taken, Is
  <2> QED
    BY <2>2 DEF Settled, Held
<1>12. ASSUME \A m \in Users : Settled(m) => Settled(m)' PROVE ViewInOrder(p)' /\ NoGap(p)'
  <2>1. CASE ~Is(p, "batch")
    BY <1>1, <1>2, <1>5, <1>6, <1>8, <1>12, <2>1, LossDrops
  <2>2. CASE Is(p, "batch")
    <3>1. View(p)' = {} /\ pc'[p] \notin Holding
      BY <1>5, <1>6, <2>2 DEF View, Is
    <3> QED
      BY <3>1 DEF ViewInOrder, NoGap
  <2> QED
    BY <2>1, <2>2
<1> QED
  BY <1>2, <1>4, <1>5, <1>8, <1>9, <1>11, <1>12, LossOne

\* Processes that end or give up leave no message: the fault has cost what they had.
LEMMA LossGone ==
  ASSUME LossInv, DistinctInv', UNCHANGED <<seq, cursor, pushed, written>>,
         NEW ps \in SUBSET Procs, Others(ps), dropped \subseteq dropped',
         \A p \in ps : /\ Costs(p) \subseteq dropped' /\ todo'[p] = {}
                       /\ pc'[p] \in {"done", "convs", "idle"},
         \A f \in Flushers \ ps : at'[f] = at[f], AtOne'
  PROVE  LossInv'
<1>1. DoneGrows
  BY DEF DoneGrows, LossInv, DistinctInv, TypeInv, TypeOK
<1>2. \A p \in ps : \A m \in Users \cap Taken(p) : Settled(m)'
  BY DEF Costs, Settled
<1>3. ASSUME \A m \in Users : Settled(m) => Settled(m)', NEW p \in ps PROVE LossOf(p)'
  <2>1. pc'[p] \notin Fresh \cup Holding \cup {"refresh", "mark", "choose"} /\ View(p)' = {}
    BY DEF Fresh, Holding, View
  <2>2. OwnSettled(p)'
    <3> SUFFICES ASSUME ~Is(p, "ingest"), NEW m \in Users, m[1] = p PROVE seq'[m] = 0 \/ Settled(m)'
      BY DEF OwnSettled, Is
    <3>1. m \in Messages
      BY DEF Users
    <3>2. CASE pc[p] \notin Fresh
      BY <1>3, <3>2 DEF LossInv, LossOf, OwnSettled
    <3>3. CASE pc[p] \in {"new", "insert"}
      BY <3>1, <3>3 DEF LossInv, DistinctInv, TypeInv, NoRowYet
    <3>4. CASE pc[p] \in {"jump", "cursor", "pending"}
      <4>1. m \in Costs(p)
        BY <3>1, <3>4 DEF Costs
      <4> QED
        BY <4>1 DEF Settled
    <3> QED
      BY <3>2, <3>3, <3>4 DEF Fresh
  <2>3. ReadBehind(p)' /\ ViewInOrder(p)' /\ NoGap(p)' /\ OnTrack(p)'
    BY <2>1 DEF ReadBehind, ViewInOrder, NoGap, OnTrack, Fresh, Holding
  <2> QED
    BY <2>2, <2>3 DEF LossOf
<1> QED
  BY <1>1, <1>2, <1>3, LossStill

\* A call that is abandoned, ...
LEMMA LossAbandon ==
  ASSUME LossInv, DistinctInv', NEW p \in Procs, Abandon(p) PROVE LossInv'
<1> USE DEF tableVars, keyVars, doneVars, flushVars
<1>1. Leave(p) \in {"done", "convs"} /\ Leave(p) \in Labels
  BY GoOnLabel DEF Labels, Awaiting
<1>2. /\ UNCHANGED <<seq, cursor, pushed, written, at>> /\ Fault("error", Costs(p))
      /\ Step(p, pc[p], Leave(p)) /\ todo' = [todo EXCEPT ![p] = {}]
      /\ hand' = [hand EXCEPT ![p] = <<>>] /\ read' = [read EXCEPT ![p] = 0]
  BY DEF Abandon, Used
<1>3. dropped \subseteq dropped' /\ Costs(p) \subseteq dropped'
  BY <1>2, FaultCosts
<1>4. pc'[p] = Leave(p) /\ \A q \in Procs \ {p} : pc'[q] = pc[q]
  BY <1>1, <1>2, StepType DEF LossInv, DistinctInv, TypeInv
<1>5. todo'[p] = {} /\ Others({p})
  BY <1>2, <1>4 DEF Others, LossInv, DistinctInv, TypeInv, TypeOK
<1>6. AtOne'
  BY <1>2, AtOneKept DEF LossInv
<1> QED
  BY <1>1, <1>2, <1>3, <1>4, <1>5, <1>6, LossGone

\* ... and a process that dies.
LEMMA LossDie ==
  ASSUME LossInv, DistinctInv', NEW ps \in SUBSET Procs, Die(ps),
         \A f \in Flushers \ ps : at'[f] = at[f], AtOne'
  PROVE  LossInv'
<1> USE DEF tableVars, keyVars, doneVars
<1>1. /\ Fault("crash", UNION {Costs(p) : p \in ps})
      /\ pc' = [p \in Procs |-> IF p \notin ps THEN pc[p]
                                ELSE IF p \in Requests THEN "done" ELSE "idle"]
      /\ todo' = [p \in Procs |-> IF p \in ps THEN {} ELSE todo[p]]
      /\ hand' = [p \in Procs |-> IF p \in ps THEN <<>> ELSE hand[p]]
      /\ read' = [p \in Procs |-> IF p \in ps THEN 0 ELSE read[p]]
      /\ UNCHANGED <<seq, cursor, pushed, written>>
  BY DEF Die
<1>2. Others(ps)
  BY <1>1 DEF Others
<1>3. dropped \subseteq dropped' /\ \A p \in ps : Costs(p) \subseteq dropped'
  BY <1>1, FaultCosts
<1>4. \A p \in ps : todo'[p] = {} /\ pc'[p] \in {"done", "convs", "idle"}
  BY <1>1
<1> QED
  BY <1>1, <1>2, <1>3, <1>4, LossGone

\* Crashes lose what they cost.
LEMMA LossCrash ==
  ASSUME LossInv, DistinctInv', (\E l : CrashLoop(l)) \/ (\E f \in Flushers : CrashFlush(f))
  PROVE  LossInv'
<1>1. ASSUME NEW l, CrashLoop(l) PROVE LossInv'
  <2> DEFINE ps == {r \in Requests : LoopOf[r] = l /\ pc[r] # "new"}
  <2>1. Die(ps) /\ UNCHANGED at /\ ps \in SUBSET Procs
    BY <1>1 DEF CrashLoop, flushVars, Procs
  <2>2. AtOne'
    BY <2>1, AtOneKept DEF LossInv
  <2> HIDE DEF ps
  <2> QED
    BY <2>1, <2>2, LossDie
<1>2. ASSUME NEW f \in Flushers, CrashFlush(f) PROVE LossInv'
  <2>1. Die({f}) /\ at' = [at EXCEPT ![f] = {}] /\ {f} \in SUBSET Procs
    BY <1>2 DEF CrashFlush, Procs
  <2>2. at'[f] = {} /\ \A g \in Flushers \ {f} : at'[g] = at[g]
    BY <2>1 DEF LossInv, DistinctInv, TypeInv, TypeOK
  <2>3. AtOne'
    BY <2>2 DEF LossInv, AtOne
  <2> QED
    BY <2>1, <2>2, <2>3, LossDie
<1> QED
  BY <1>1, <1>2

\* A cursor that moves is at a row, and passes over those that come no later.
LEMMA CursorMoves ==
  ASSUME LossInv, UNCHANGED seq, NEW m \in Messages, AdvanceCursor(ConvOfMessage(m), seq[m])
  PROVE  /\ CursorRow' /\ CursorGrows
         /\ \A k \in Messages : Consumed(k)' =>
              Consumed(k) \/ (ConvOfMessage(k) = ConvOfMessage(m) /\ 0 < seq[k] /\ seq[k] <= seq[m])
<1> DEFINE d == ConvOfMessage(m)
<1>1. d \in Convs /\ seq \in [Messages -> Nat] /\ cursor \in [Convs -> Nat]
  BY MessageIs DEF LossInv, DistinctInv, TypeInv, TypeOK
<1>2. CursorGrows
  BY <1>1, CursorType DEF CursorGrows, LossInv, DistinctInv
<1>3. CASE ~Advances(d, seq[m])
  <2>1. UNCHANGED cursor
    BY <1>3 DEF AdvanceCursor
  <2> QED
    BY <1>2, <2>1 DEF LossInv, CursorRow, Rows, Consumed
<1>4. CASE Advances(d, seq[m])
  <2>1. /\ cursor'[d] = seq[m] /\ seq[m] > 0 /\ \A c \in Convs \ {d} : cursor'[c] = cursor[c]
    BY <1>1, <1>4 DEF AdvanceCursor, Advances
  <2>2. m \in Rows(d)'
    BY <2>1 DEF Rows
  <2>3. CursorRow'
    <3> SUFFICES ASSUME NEW c \in Convs
                 PROVE  cursor'[c] = 0 \/ \E k \in Rows(c)' : cursor'[c] = seq'[k]
      BY DEF CursorRow
    <3>1. CASE c = d
      BY <2>1, <2>2, <3>1
    <3>2. CASE c # d
      <4>1. Rows(c)' = Rows(c) /\ cursor'[c] = cursor[c]
        BY <2>1, <3>2 DEF Rows
      <4> QED
        BY <4>1 DEF LossInv, CursorRow
    <3> QED
      BY <3>1, <3>2
  <2>4. ASSUME NEW k \in Messages, Consumed(k)', ~Consumed(k)
        PROVE  ConvOfMessage(k) = d /\ 0 < seq[k] /\ seq[k] <= seq[m]
    <3>1. ConvOfMessage(k) \in Convs
      BY MessageIs
    <3> QED
      BY <2>1, <2>4, <3>1 DEF Consumed
  <2> QED
    BY <1>2, <2>3, <2>4
<1> QED
  BY <1>3, <1>4

\* What comes no later than the first row of a process is that row, or is settled.
LEMMA PassesOver ==
  ASSUME LossInv, NEW p \in Procs, NEW m \in View(p), \A j \in View(p) : seq[m] <= seq[j],
         NEW k \in Users, ConvOfMessage(k) = ConvOfMessage(m), 0 < seq[k], seq[k] <= seq[m]
  PROVE  k = m \/ Settled(k)
<1>1. k \in Messages /\ m \in Messages
  BY DEF Users, View, Holding, LossInv, DistinctInv, TypeInv, TypeOK, HandKnown
<1>2. seq[k] \in Nat /\ seq[m] \in Nat
  BY <1>1 DEF LossInv, DistinctInv, TypeInv, TypeOK
<1>3. CASE seq[k] = seq[m]
  BY <1>1, <1>3 DEF LossInv, DistinctInv, SeqsDistinct
<1>4. CASE seq[k] < seq[m]
  <2>1. k \in View(p) \/ Settled(k)
    BY <1>4 DEF LossInv, LossOf, NoGap
  <2>2. k \notin View(p)
    BY <1>2, <1>4
  <2> QED
    BY <2>1, <2>2
<1> QED
  BY <1>2, <1>3, <1>4

\* A process that moves the cursor over its first row settles that, or needs not.
LEMMA LossPasses ==
  ASSUME LossInv, DistinctInv', UNCHANGED <<seq, read, at>>, DoneGrows,
         NEW p \in Procs, NEW from \in Labels \ Fresh,
         NEW to \in Labels \ (Fresh \cup {"refresh", "mark", "choose", "advance"}),
         Step(p, from, to),
         \A q \in Procs \ {p} : todo'[q] = todo[q] /\ hand'[q] = hand[q],
         NEW m \in View(p), \A j \in View(p) : seq[m] <= seq[j],
         AdvanceCursor(ConvOfMessage(m), seq[m]),
         m \in Users /\ Advances(ConvOfMessage(m), seq[m]) => Settled(m)',
         \A k \in Users \cap Taken(p) : Settled(k)',
         (\A k \in Users : Settled(k) => Settled(k)') => ViewInOrder(p)' /\ NoGap(p)'
  PROVE  LossInv'
<1>1. pc[p] = from /\ pc'[p] = to /\ \A q \in Procs \ {p} : pc'[q] = pc[q]
  BY StepType DEF LossInv, DistinctInv, TypeInv
<1>2. Others({p})
  BY <1>1 DEF Others
<1>3. \A k \in Users : Settled(k) => Settled(k)'
  BY <1>2, SettledKept DEF LossInv, DistinctInv
<1>4. m \in Messages
  BY DEF View, Holding, LossInv, DistinctInv, TypeInv, TypeOK, HandKnown
<1>5. CursorRow' /\ CursorGrows
  BY <1>4, CursorMoves
<1>6. ASSUME NEW k \in Users, Consumed(k)', ~Consumed(k) PROVE Settled(k)'
  <2>1. k \in Messages
    BY DEF Users
  <2>2. ConvOfMessage(k) = ConvOfMessage(m) /\ 0 < seq[k] /\ seq[k] <= seq[m]
    BY <1>4, <1>6, <2>1, CursorMoves
  <2>3. k = m \/ Settled(k)
    BY <2>2, PassesOver
  <2>4. CASE Settled(k)
    BY <1>3, <2>4
  <2>5. CASE k = m
    <3>1. Advances(ConvOfMessage(m), seq[m])
      BY <1>6, <2>5 DEF AdvanceCursor, Consumed
    <3> QED
      BY <2>5, <3>1
  <2> QED
    BY <2>3, <2>4, <2>5
<1>7. LossOf(p)'
  <2>1. OwnSettled(p)'
    BY <1>1, <1>3 DEF LossInv, LossOf, OwnSettled, Is
  <2>2. ReadBehind(p)' /\ OnTrack(p)'
    BY <1>1 DEF ReadBehind, OnTrack, Fresh
  <2> QED
    BY <1>3, <2>1, <2>2 DEF LossOf
<1>8. AtOne'
  BY AtOneKept DEF LossInv
<1> QED
  BY <1>2, <1>3, <1>5, <1>6, <1>7, <1>8, LossKept

\* Who moves the cursor over the message in hand takes it; who does not, somebody has.
LEMMA LossAdvance ==
  ASSUME LossInv, DistinctInv', NEW p \in Procs, Advance(p) PROVE LossInv'
<1> USE DEF tableVars, keyVars, doneVars, failVars, flushVars
<1> DEFINE m == hand[p]
           c == ConvOfMessage(hand[p])
<1>1. /\ pc[p] = "advance" /\ AdvanceCursor(c, seq[m])
      /\ UNCHANGED <<seq, pushed, written, dropped, read, todo, at>>
  BY DEF Advance
<1>2. m \in Messages /\ ~Is(p, "batch") /\ c \in Convs
  BY <1>1, MessageIs DEF LossInv, DistinctInv, TypeInv, HandKnown, OnPath, BatchPath
<1>3. LossOf(p) /\ View(p) = todo[p] \cup {m} /\ m \in View(p)
  BY <1>1, <1>2 DEF View, Holding, LossInv
<1>4. \A j \in View(p) : seq[m] <= seq[j]
  BY <1>1, <1>2, <1>3 DEF LossOf, ViewInOrder, Holding, LossInv, DistinctInv, TypeInv, TypeOK
<1>5. DoneGrows
  BY <1>1 DEF DoneGrows, LossInv, DistinctInv, TypeInv, TypeOK
<1>6. "advance" \in Labels \ Fresh /\ "push" \notin Fresh
  BY DEF Labels, Fresh
<1>7. CASE Advances(c, seq[m]) /\ ~Is(p, "sync")
  <2>1. Step(p, "advance", "push") /\ UNCHANGED hand
    BY <1>7 DEF Advance
  <2>2. "push" \in Labels \ (Fresh \cup {"refresh", "mark", "choose", "advance"})
    BY DEF Labels, Fresh
  <2>3. pc'[p] = "push"
    BY <2>1, <2>2, StepType DEF LossInv, DistinctInv, TypeInv
  <2>4. \A k : k = m => Settled(k)'
    <3> SUFFICES ASSUME NEW k, k = m PROVE Settled(k)'
      OBVIOUS
    <3>1. k \in Taken(p)'
      BY <1>2, <2>1, <2>3 DEF Taken
    <3> QED
      BY <3>1 DEF Settled, Held
  <2>5. Taken(p) = {}
    BY <1>1, <1>2, <1>7, TakenIs DEF LossInv, DistinctInv
  <2>6. (\A k \in Users : Settled(k) => Settled(k)') => ViewInOrder(p)' /\ NoGap(p)'
    BY <1>1, <2>3, <2>4, LossDrops DEF Holding
  <2> QED
    BY <1>1, <1>3, <1>4, <1>5, <1>6, <2>1, <2>2, <2>4, <2>5, <2>6, LossPasses
<1>8. CASE ~(Advances(c, seq[m]) /\ ~Is(p, "sync"))
  <2>1. Step(p, "advance", GoOn(p, todo[p])) /\ hand' = [hand EXCEPT ![p] = <<>>]
    BY <1>8 DEF Advance
  <2>2. GoOn(p, todo[p]) \in {"done", "verify", "each"}
    BY <1>2, GoOnLabel
  <2>3. PICK to \in {"done", "verify", "each"} : Step(p, "advance", to)
    BY <2>1, <2>2
  <2>4. to \in Labels \ (Fresh \cup {"refresh", "mark", "choose", "advance"})
        /\ to \notin Holding
    BY <2>3 DEF Labels, Awaiting, Fresh, Holding
  <2>5. pc'[p] = to
    BY <2>3, <2>4, StepType DEF LossInv, DistinctInv, TypeInv
  <2>6. \A q \in Procs \ {p} : hand'[q] = hand[q]
    BY <2>1 DEF LossInv, DistinctInv, TypeInv, TypeOK
  <2>7. Is(p, "sync") => m \notin Users
    BY <1>1, <1>3 DEF LossOf, OnTrack
  <2>8. m \in Users => Settled(m) /\ ~Advances(c, seq[m])
    <3> SUFFICES ASSUME m \in Users, ~Advances(c, seq[m]) PROVE Settled(m)
      BY <1>8, <2>7
    <3>1. seq[m] > 0
      BY <1>3 DEF LossOf, ViewInOrder
    <3>2. Consumed(m)
      BY <1>2, <3>1 DEF Consumed, Advances, LossInv, DistinctInv, TypeInv, TypeOK
    <3> QED
      BY <3>2 DEF LossInv, NoneLost
  <2>9. \A k \in Users \cap Taken(p) : Settled(k)'
    <3> SUFFICES ASSUME NEW k \in Users \cap Taken(p) PROVE Settled(k)'
      OBVIOUS
    <3>1. k \in Taken(p)'
      BY <1>1 DEF Taken, Is
    <3> QED
      BY <3>1 DEF Settled, Held
  <2>10. ASSUME \A k \in Users : Settled(k) => Settled(k)' PROVE ViewInOrder(p)' /\ NoGap(p)'
    <3>1. \A k \in Users : k = hand[p] => Settled(k)'
      BY <2>8, <2>10
    <3> QED
      BY <1>1, <2>4, <2>5, <2>10, <3>1, LossDrops
  <2> QED
    BY <1>1, <1>3, <1>4, <1>5, <1>6, <2>3, <2>4, <2>6, <2>8, <2>9, <2>10, LossPasses
<1> QED
  BY <1>7, <1>8

\* A flush moves the cursor over a row that is not to be memorized, or takes it up.
LEMMA LossFlushNext ==
  ASSUME LossInv, DistinctInv', NEW f \in Flushers, FlushNext(f) PROVE LossInv'
<1> USE DEF tableVars, keyVars, doneVars, failVars, flushVars
<1>1. /\ f \in Procs /\ ~Is(f, "batch") /\ ~Is(f, "sync") /\ pc[f] = "each"
      /\ UNCHANGED <<seq, pushed, written, dropped, read, at>>
  BY OneKind DEF Procs, FlushNext, Step
<1>2. PICK m \in todo[f] :
        /\ IsFirst(m, todo[f]) /\ todo' = [todo EXCEPT ![f] = @ \ {m}]
        /\ IF KindOfMessage(m) = "user"
           THEN Step(f, "each", "lookup") /\ hand' = [hand EXCEPT ![f] = m] /\ UNCHANGED cursor
           ELSE /\ Step(f, "each", GoOn(f, todo[f] \ {m}))
                /\ AdvanceCursor(ConvOfMessage(m), seq[m]) /\ UNCHANGED hand
  BY DEF FlushNext
<1>3. LossOf(f) /\ View(f) = todo[f] /\ m \in View(f) /\ Taken(f) = {}
  BY <1>1, TakenIs DEF View, Holding, LossInv, DistinctInv
<1>4. todo'[f] = todo[f] \ {m} /\ \A q \in Procs \ {f} : todo'[q] = todo[q]
  BY <1>1, <1>2 DEF LossInv, DistinctInv, TypeInv, TypeOK
<1>5. DoneGrows
  BY <1>1 DEF DoneGrows, LossInv, DistinctInv, TypeInv, TypeOK
<1>6. "each" \in Labels \ Fresh /\ "lookup" \in Labels \ (Fresh \cup {"refresh", "mark"})
  BY DEF Labels, Fresh
<1>7. CASE KindOfMessage(m) = "user"
  <2>1. Step(f, "each", "lookup") /\ UNCHANGED cursor /\ hand' = [hand EXCEPT ![f] = m]
    BY <1>2, <1>7
  <2>2. hand'[f] = m /\ \A q \in Procs \ {f} : hand'[q] = hand[q]
    BY <1>1, <2>1 DEF LossInv, DistinctInv, TypeInv, TypeOK
  <2>3. pc'[f] = "lookup"
    BY <1>1, <1>6, <2>1, StepType DEF LossInv, DistinctInv, TypeInv
  <2>4. View(f)' = View(f)
    BY <1>1, <1>3, <1>4, <2>2, <2>3 DEF View, Is, Holding
  <2>5. ViewInOrder(f)'
    BY <1>1, <1>2, <1>3, <1>4, <2>2, <2>4 DEF LossOf, ViewInOrder, IsFirst
  <2>6. (\A k \in Users : Settled(k) => Settled(k)') => NoGap(f)'
    BY <1>1, <1>3, <2>4 DEF LossOf, NoGap
  <2> QED
    BY <1>1, <1>3, <1>4, <1>5, <1>6, <2>1, <2>2, <2>5, <2>6, LossOne
<1>8. CASE KindOfMessage(m) # "user"
  <2>1. /\ Step(f, "each", GoOn(f, todo[f] \ {m})) /\ UNCHANGED hand
        /\ AdvanceCursor(ConvOfMessage(m), seq[m])
    BY <1>2, <1>8
  <2>2. GoOn(f, todo[f] \ {m}) \in {"done", "verify", "each"}
    BY <1>1, GoOnLabel
  <2>3. PICK to \in {"done", "verify", "each"} : Step(f, "each", to)
    BY <2>1, <2>2
  <2>4. to \in Labels \ (Fresh \cup {"refresh", "mark", "choose", "advance"})
        /\ to \notin Holding
    BY <2>3 DEF Labels, Awaiting, Fresh, Holding
  <2>5. pc'[f] = to
    BY <1>1, <2>3, <2>4, StepType DEF LossInv, DistinctInv, TypeInv
  <2>6. m \notin Users
    BY <1>8 DEF Users
  <2>7. View(f)' = View(f) \ {m}
    BY <1>1, <1>3, <1>4, <2>4, <2>5 DEF View, Is
  <2>8. ViewInOrder(f)'
    BY <1>1, <1>3, <2>4, <2>5, <2>7 DEF LossOf, ViewInOrder
  <2>9. (\A k \in Users : Settled(k) => Settled(k)') => NoGap(f)'
    BY <1>1, <1>3, <2>6, <2>7 DEF LossOf, NoGap
  <2>10. \A j \in View(f) : seq[m] <= seq[j]
    BY <1>2, <1>3 DEF IsFirst
  <2> QED
    BY <1>1, <1>3, <1>4, <1>5, <1>6, <2>1, <2>3, <2>4, <2>6, <2>8, <2>9, <2>10, LossPasses
<1> QED
  BY <1>7, <1>8

\* A batch jumps over its own messages, which it takes, and over those of other service
\* requests, which these have settled: while they await anything else, they have looked
\* at their rows.
LEMMA LossJump ==
  ASSUME OneLoop, WindowApart, LossInv, DistinctInv', NEW r \in Requests, Jump(r)
  PROVE  LossInv'
<1> USE DEF tableVars, keyVars, doneVars, failVars, flushVars
<1> DEFINE users == {m \in Messages : m[1] = r /\ KindOfMessage(m) # "assistant"}
           last  == <<r, Len(Batch[r])>>
<1>1. /\ r \in Procs /\ pc[r] = "jump" /\ MayRun(r) /\ last \in Messages /\ LossOf(r)
      /\ ConvOfMessage(last) = ConvOf[r]
  BY BatchIsSeq, MessageOf DEF Procs, Jump, Step, ConvOfMessage, LossInv
<1>2. Is(r, "batch") /\ KindOf[r] = "batch" /\ todo[r] = {}
  BY <1>1 DEF LossOf, OnTrack, Is, Fresh
<1>3. /\ UNCHANGED <<seq, pushed, written, dropped, read, at>>
      /\ Step(r, "jump", GoOn(r, users)) /\ AdvanceCursor(ConvOfMessage(last), seq[last])
      /\ \/ users = {} /\ UNCHANGED <<todo, hand>>
         \/ \E m \in users : hand' = [hand EXCEPT ![r] = m] /\ todo' = [todo EXCEPT ![r] = users \ {m}]
  BY <1>1 DEF Jump
<1> HIDE DEF users, last
<1>4. GoOn(r, users) = IF users = {} THEN "done" ELSE "push"
  BY <1>2, OneKind, <1>1 DEF GoOn
<1>5. PICK to \in {"done", "push"} : Step(r, "jump", to) /\ (to = "push" <=> users # {})
  BY <1>3, <1>4
<1>6. to \in Labels \ (Fresh \cup {"refresh", "mark", "choose"}) /\ to \notin Holding
      /\ to # "advance"
  BY <1>5 DEF Labels, Awaiting, Fresh, Holding
<1>7. pc'[r] = to /\ \A q \in Procs \ {r} : pc'[q] = pc[q]
  BY <1>1, <1>5, <1>6, StepType DEF LossInv, DistinctInv, TypeInv
<1>8. /\ \A q \in Procs \ {r} : todo'[q] = todo[q] /\ hand'[q] = hand[q]
      /\ users \subseteq todo'[r] \cup {hand'[r]}
  <2>1. hand \in [Procs -> Messages \cup {<<>>}] /\ todo \in [Procs -> SUBSET Messages]
    BY DEF LossInv, DistinctInv, TypeInv, TypeOK
  <2> QED
    BY <1>1, <1>3, <2>1
<1>9. Others({r}) /\ AtOne'
  BY <1>3, <1>7, <1>8, AtOneKept DEF Others, LossInv
<1>10. DoneGrows
  BY <1>3 DEF DoneGrows, LossInv, DistinctInv, TypeInv, TypeOK
<1>11. \A m \in Users : Settled(m) => Settled(m)'
  <2>1. Taken(r) = {}
    BY <1>1, <1>2 DEF Taken
  <2> QED
    BY <1>1, <1>9, <1>10, <2>1, SettledKept DEF LossInv, DistinctInv
<1>12. \A m \in Users : m[1] = r => Settled(m)'
  <2> SUFFICES ASSUME NEW m \in Users, m[1] = r PROVE Settled(m)'
    OBVIOUS
  <2>1. m \in users /\ m \in Messages
    BY DEF Users, users
  <2>2. pc'[r] = "push"
    BY <1>5, <1>7, <2>1
  <2>3. m \in Taken(r)'
    BY <1>2, <1>8, <2>1, <2>2 DEF Taken, Is
  <2> QED
    BY <1>1, <2>3 DEF Settled, Held
<1>13. CursorRow' /\ CursorGrows
  BY <1>1, <1>3, CursorMoves
<1>14. ASSUME NEW m \in Users, Consumed(m)', ~Consumed(m) PROVE Settled(m)'
  <2>1. m \in Messages /\ ConvOfMessage(m) = ConvOf[r] /\ 0 < seq[m]
    BY <1>1, <1>3, <1>14, CursorMoves DEF Users
  <2> DEFINE q == m[1]
  <2>2. q \in Requests /\ q \in Procs /\ ConvOf[q] = ConvOf[r]
    BY <2>1, MessageIs DEF ConvOfMessage, Procs
  <2>3. CASE q = r
    BY <1>12, <2>3
  <2>4. CASE q # r
    <3>1. pc[q] \in Awaiting
      BY <1>1, <2>2, <2>4 DEF OneLoop, MayRun
    <3>2. ~Is(q, "ingest")
      BY <1>2, <2>2 DEF WindowApart, Is
    <3>3. pc[q] # "new"
      BY <2>1 DEF LossInv, DistinctInv, TypeInv, NoRowYet
    <3>4. pc[q] \notin Fresh
      BY <3>1, <3>3 DEF Awaiting, Fresh
    <3>5. Settled(m)
      BY <2>1, <2>2, <3>2, <3>4 DEF LossInv, LossOf, OwnSettled
    <3> QED
      BY <1>11, <3>5
  <2> QED
    BY <2>3, <2>4
<1>15. LossOf(r)'
  <2>1. OwnSettled(r)'
    BY <1>12 DEF OwnSettled
  <2>2. View(r)' = {}
    BY <1>2 DEF View, Is
  <2>3. ReadBehind(r)' /\ ViewInOrder(r)' /\ NoGap(r)' /\ OnTrack(r)'
    BY <1>6, <1>7, <2>2 DEF ReadBehind, ViewInOrder, NoGap, OnTrack, Fresh, Holding
  <2> QED
    BY <2>1, <2>3 DEF LossOf
<1>16. {r} \in SUBSET Procs /\ UNCHANGED seq /\ \A f \in Flushers \ {r} : at'[f] = at[f]
  BY <1>1, <1>3
<1> QED
  BY <1>9, <1>11, <1>13, <1>14, <1>15, <1>16, LossKept

\* New rows come after all that anybody has read or the cursor has passed.
LEMMA LossInsert ==
  ASSUME LossInv, DistinctInv', NEW r \in Requests, Insert(r) PROVE LossInv'
<1> USE DEF tableVars, keyVars, doneVars, failVars, flushVars
<1>1. /\ r \in Procs /\ pc[r] = "insert" /\ read[r] \in Nat /\ ConvOf[r] \in Convs
      /\ seq \in [Messages -> Nat] /\ cursor \in [Convs -> Nat]
  BY BatchIsSeq DEF Procs, Insert, Step, LossInv, DistinctInv, TypeInv, TypeOK
<1>2. PICK to \in {"refresh", "jump", "cursor"} :
        /\ Step(r, "insert", to) /\ (to = "jump" => Is(r, "batch"))
        /\ to = "refresh" => Is(r, "ingest")
  BY <1>1, OneKind DEF Insert
<1>3. /\ UNCHANGED <<cursor, pushed, written, dropped, todo, hand, at>>
      /\ read' = [read EXCEPT ![r] = 0]
      /\ \A m \in Messages : seq'[m] = IF m[1] = r THEN read[r] + m[2] ELSE seq[m]
  BY DEF Insert, Used
<1>4. to \in Labels /\ pc'[r] = to /\ \A q \in Procs \ {r} : pc'[q] = pc[q]
  BY <1>1, <1>2, StepType DEF LossInv, DistinctInv, TypeInv, Labels, Awaiting
<1>5. \A q \in Procs \ {r} : read'[q] = read[q]
  BY <1>3 DEF LossInv, DistinctInv, TypeInv, TypeOK
<1>6. \A m \in Messages : m[1] = r => seq[m] = 0
  BY <1>1 DEF LossInv, DistinctInv, TypeInv, NoRowYet
<1>7. \A m, n \in Messages :
        m[1] = r /\ ConvOfMessage(n) = ConvOfMessage(m) /\ seq[n] > 0 => seq[n] < seq'[m]
  <2> SUFFICES ASSUME NEW m \in Messages, NEW n \in Messages, m[1] = r,
                      ConvOfMessage(n) = ConvOfMessage(m), seq[n] > 0
               PROVE  seq[n] < seq'[m]
    OBVIOUS
  <2>1. n \in Rows(ConvOf[r])
    BY DEF Rows, ConvOfMessage
  <2>2. seq[n] <= read[r]
    BY <1>1, <2>1 DEF LossInv, DistinctInv, ReadIsMax
  <2>3. seq'[m] = read[r] + m[2] /\ m[2] \in Nat \ {0}
    BY <1>3, MessageIs
  <2> QED
    BY <1>1, <2>2, <2>3
<1>8. todo[r] = {} /\ \A p \in Procs : LossOf(p)
  BY <1>1 DEF LossInv, LossOf, OnTrack, Fresh
<1>9. /\ \A p \in Procs : Taken(p)' = Taken(p) /\ View(p)' = View(p)
      /\ View(r) = {}
  BY <1>1, <1>2, <1>3, <1>4, <1>8 DEF Taken, View, Is, Holding
<1>10. \A m : Settled(m) => Settled(m)'
  BY <1>3, <1>9 DEF Settled, Held
<1>11. NoneLost'
  <2> SUFFICES ASSUME NEW m \in Users, Consumed(m)' PROVE Settled(m)'
    BY DEF NoneLost
  <2>1. m \in Messages /\ ConvOfMessage(m) \in Convs
    BY MessageIs DEF Users
  <2>2. CASE m[1] # r
    <3>1. Consumed(m)
      BY <1>3, <2>1, <2>2 DEF Consumed
    <3> QED
      BY <1>10, <3>1 DEF LossInv, NoneLost
  <2>3. CASE m[1] = r
    <3> DEFINE c == ConvOfMessage(m)
    <3>1. seq'[m] > 0 /\ seq'[m] <= cursor[c]
      BY <1>3 DEF Consumed
    <3>2. CASE cursor[c] = 0
      BY <2>1, <3>1, <3>2 DEF DistinctInv, TypeInv, TypeOK
    <3>3. ASSUME NEW n \in Rows(c), cursor[c] = seq[n] PROVE FALSE
      <4>1. n \in Messages /\ ConvOfMessage(n) = c /\ seq[n] > 0
        BY DEF Rows
      <4>2. seq[n] < seq'[m]
        BY <1>7, <2>1, <2>3, <4>1
      <4>3. seq'[m] \in Nat /\ seq[n] \in Nat
        BY <1>1, <2>1, <4>1 DEF DistinctInv, TypeInv, TypeOK
      <4> QED
        BY <3>1, <3>3, <4>2, <4>3
    <3> QED
      BY <2>1, <3>2, <3>3 DEF LossInv, CursorRow
  <2> QED
    BY <2>2, <2>3
<1>12. CursorRow'
  <2> SUFFICES ASSUME NEW c \in Convs, NEW n \in Rows(c), cursor[c] = seq[n]
               PROVE  \E m \in Rows(c)' : cursor'[c] = seq'[m]
    BY <1>3 DEF LossInv, CursorRow
  <2>1. n \in Messages /\ n[1] # r /\ seq'[n] = seq[n] /\ n \in Rows(c)'
    BY <1>3, <1>6 DEF Rows
  <2> QED
    BY <1>3, <2>1
<1>13. ASSUME NEW p \in Procs PROVE LossOf(p)'
  <2>1. OwnSettled(p)'
    <3>1. CASE p = r
      BY <1>2, <1>4, <3>1 DEF OwnSettled, Fresh, Is
    <3>2. CASE p # r
      <4>1. \A m \in Users : m[1] = p => seq'[m] = seq[m]
        BY <1>3, <3>2 DEF Users
      <4> QED
        BY <1>4, <1>8, <1>10, <3>2, <4>1 DEF LossOf, OwnSettled, Is
    <3> QED
      BY <3>1, <3>2
  <2>2. ReadBehind(p)'
    BY <1>2, <1>3, <1>4, <1>5, <1>8 DEF LossOf, ReadBehind, IsAt
  <2>3. \A n \in View(p) : n \in Messages /\ n[1] # r /\ seq'[n] = seq[n] /\ seq[n] > 0
    <3>1. \A n \in View(p) : seq[n] > 0 /\ n \in Messages
      BY <1>8 DEF LossOf, ViewInOrder, View, Holding, LossInv, DistinctInv, TypeInv, TypeOK,
                  HandKnown
    <3> QED
      BY <1>3, <1>6, <3>1
  <2>4. ViewInOrder(p)'
    <3>1. CASE p = r
      BY <1>2, <1>4, <1>9, <3>1 DEF ViewInOrder, Holding
    <3>2. CASE p # r /\ Is(p, "batch")
      <4>1. pc[p] \notin Holding /\ View(p) = {}
        BY <3>2 DEF LossInv, DistinctInv, TypeInv, OnPath, BatchPath, Holding, View
      <4> QED
        BY <1>4, <1>9, <3>2, <4>1 DEF ViewInOrder
    <3>3. CASE p # r /\ ~Is(p, "batch")
      <4>1. todo[p] \subseteq View(p) /\ (pc[p] \in Holding => hand[p] \in View(p))
        BY <3>3 DEF View
      <4> QED
        BY <1>3, <1>4, <1>8, <1>9, <2>3, <3>3, <4>1 DEF LossOf, ViewInOrder
    <3> QED
      BY <3>1, <3>2, <3>3
  <2>5. NoGap(p)'
    <3> SUFFICES ASSUME NEW n \in View(p), NEW m \in Users, ConvOfMessage(m) = ConvOfMessage(n),
                        0 < seq'[m], seq'[m] < seq'[n]
                 PROVE  m \in View(p) \/ Settled(m)'
      BY <1>9 DEF NoGap
    <3>1. m \in Messages /\ seq'[m] \in Nat /\ seq'[n] \in Nat
      BY <2>3 DEF Users, DistinctInv, TypeInv, TypeOK
    <3>2. m[1] # r
      BY <1>7, <2>3, <3>1
    <3>3. seq'[m] = seq[m]
      BY <1>3, <3>1, <3>2
    <3> QED
      BY <1>8, <1>10, <2>3, <3>3 DEF LossOf, NoGap
  <2>6. OnTrack(p)'
    BY <1>2, <1>3, <1>4, <1>8 DEF LossOf, OnTrack, Is
  <2> QED
    BY <2>1, <2>2, <2>4, <2>5, <2>6 DEF LossOf
<1>14. AtOne'
  BY <1>3, AtOneKept DEF LossInv
<1> QED
  BY <1>11, <1>12, <1>13, <1>14 DEF LossInv

\* At the start nobody has anything.
LEMMA LossInit == Init => LossInv
<1> SUFFICES ASSUME Init PROVE LossInv
  OBVIOUS
<1>1. NoneLost /\ CursorRow /\ AtOne
  BY DEF Init, NoneLost, CursorRow, AtOne, Consumed, Users
<1>2. ASSUME NEW p \in Procs PROVE LossOf(p)
  <2>1. pc[p] \in {"new", "idle"} /\ todo[p] = {} /\ \A m \in Users : seq[m] = 0
    BY DEF Init, Users
  <2>2. View(p) = {}
    BY <2>1 DEF View, Holding
  <2> QED
    BY <2>1, <2>2 DEF LossOf, OwnSettled, ReadBehind, ViewInOrder, NoGap, OnTrack, Holding
<1> QED
  BY <1>1, <1>2, DistinctInit DEF LossInv

\* LossNeedsFailure: as long as one event loop serves a conversation and a batch of the
\* asynchronous service call has none together with a chat, the cursor never passes over
\* a message that is still to be memorized, except in the hands of a process that then
\* fails, however requests, flush scans and faults interleave.
THEOREM OnlyFailuresLose ==
  ASSUME OneLoop, WindowApart PROVE Spec => []LossNeedsFailure
<1>1. LossInv /\ [Next]_vars => LossInv'
  <2> SUFFICES ASSUME LossInv, [Next]_vars PROVE LossInv'
    OBVIOUS
  <2>1. DistinctInv'
    BY DistinctStep DEF LossInv
  <2>2. ASSUME NEW r \in Requests, Request(r) PROVE LossInv'
    <3>1. r \in Procs
      BY DEF Procs
    <3> QED
      BY <2>1, <2>2, <3>1, LossReads, LossInsert, LossJump, LossChoose, LossExecute, LossWork,
         LossSkip DEF Request
  <2>3. ASSUME NEW f \in Flushers, Flush(f) PROVE LossInv'
    BY <2>1, <2>3, LossConvs, LossFlushNext, LossLookup DEF Flush
  <2>4. ASSUME NEW p \in Procs, Shared(p) \/ Abandon(p) PROVE LossInv'
    BY <2>1, <2>4, LossReads, LossReadCursor, LossReadPending, LossAdvance, LossPush,
       LossAbandon DEF Shared
  <2> QED
    BY <2>1, <2>2, <2>3, <2>4, LossCrash, LossExpire DEF Next
<1>2. LossInv => LossNeedsFailure
  <2> SUFFICES ASSUME LossInv, NEW m \in Lost PROVE m \in dropped
    BY DEF LossNeedsFailure
  <2>1. m \in Users /\ Consumed(m) /\ pushed[m] + written[m] = 0 /\ ~Held(m)
    BY MessageIs DEF Lost, Users, Consumed, LossInv, DistinctInv, TypeInv, TypeOK
  <2> QED
    BY <2>1 DEF LossInv, NoneLost, Settled
<1> QED
  BY <1>1, <1>2, LossInit, PTL DEF Spec

=============================================================================
