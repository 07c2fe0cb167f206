---------------------------- MODULE MemoryDispatch ----------------------------
(***************************************************************************)
(* The memory write dispatcher of                                          *)
(* src/api/app/core/memory/pipelines/dispatcher.py with the repository of  *)
(* memory_messages and its write cursor, the synchronous executor and the  *)
(* flush scan of src/api/app/tasks.py.  Requests append messages to a      *)
(* conversation; a message that somebody has moved the cursor over is his  *)
(* to push on the task scheduler; the flush scan, a periodic task, takes   *)
(* what the sliding window has left of conversations that are idle.        *)
(*                                                                         *)
(* One step is one SQL statement or one Redis command, as PostgreSQL runs  *)
(* the transactions at READ COMMITTED.  The requests of one API process    *)
(* share an event loop: a request gives way to another one only where it   *)
(* awaits Redis or a language model.  Every flush scan is a process.       *)
(***************************************************************************)
EXTENDS Integers, Sequences, FiniteSets

CONSTANTS
  Convs,       \* conversations
  Requests,    \* the requests of a behaviour
  Flushers,    \* the processes of the periodic worker
  ConvOf,      \* the conversation of each request
  LoopOf,      \* the API process that serves it
  KindOf,      \* its entry point: "ingest", "batch" or "sync"
  Batch,       \* the messages it brings, a sequence of MessageKinds
  Flushable,   \* conversations with a user, a published app and a memory config
  WindowSize,  \* WINDOW_SIZE
  Faults,      \* the kinds of fault that may happen, of FaultKinds
  MaxFaults    \* bound: faults in a behaviour

MessageKinds == {"user", "muted", "assistant"}  \* muted: should_memorize is false

FaultKinds == {"crash",  \* an API process or a flush dies
               "error",  \* a statement, a push or a model call raises
               "redis",  \* Redis raises where the dispatcher goes on without it
               "stall"}  \* a request takes longer than CONV_ACTIVE_TTL_SECONDS

Messages == UNION {{r} \X DOMAIN Batch[r] : r \in Requests}
Procs    == Requests \cup Flushers

ASSUME DispatchAssumption ==
  /\ ConvOf \in [Requests -> Convs]
  /\ KindOf \in [Requests -> {"ingest", "batch", "sync"}]
  /\ \A r \in Requests : Batch[r] \in Seq(MessageKinds) \ {<<>>}
  /\ Requests \cap Flushers = {}
  /\ Flushable \subseteq Convs
  /\ WindowSize \in Nat /\ MaxFaults \in Nat
  /\ Faults \subseteq FaultKinds

VARIABLES
  seq,      \* memory_messages: message_seq of each message, 0 while it has no row
  cursor,   \* conversations.write_cursor
  marked,   \* pending_conversations
  recent,   \* the conversations whose conv_active key exists
  pushed,   \* how often each message was pushed on the task scheduler
  written,  \* how often the synchronous executor ran the pipeline on it
  faults,   \* how many faults have happened
  dropped,  \* the messages they may have cost
  \* the local state of each process:
  pc,       \* its next step
  read,     \* the number it read last: a max(message_seq) or a write_cursor
  todo,     \* the rows it has loaded and not yet dealt with
  hand,     \* the message in hand, or <<>>
  \* and of each flush:
  convs,    \* candidate conversations it has still to look at
  at        \* the conversation it is at, in a set of one, or {}

tableVars == <<seq, cursor>>
keyVars   == <<marked, recent>>
doneVars  == <<pushed, written>>
failVars  == <<faults, dropped>>
bodyVars  == <<read, todo, hand>>
flushVars == <<convs, at>>
vars == <<tableVars, keyVars, doneVars, failVars, pc, bodyVars, flushVars>>

\* Where a request has given up the event loop.
Awaiting == {"new", "refresh", "mark", "work", "done"}
Labels   == Awaiting \cup {"insert", "jump", "cursor", "pending", "choose", "each",
                           "lookup", "advance", "push", "verify", "compare", "unmark",
                           "idle", "query", "convs"}

TypeOK ==
  /\ seq \in [Messages -> Nat] /\ cursor \in [Convs -> Nat]
  /\ marked \subseteq Convs /\ recent \subseteq Convs
  /\ pushed \in [Messages -> Nat] /\ written \in [Messages -> Nat]
  /\ faults \in 0 .. MaxFaults /\ dropped \subseteq Messages
  /\ pc \in [Procs -> Labels]
  /\ read \in [Procs -> Nat]
  /\ todo \in [Procs -> SUBSET Messages]
  /\ hand \in [Procs -> Messages \cup {<<>>}]
  /\ convs \in [Flushers -> SUBSET Convs]
  /\ at \in [Flushers -> SUBSET Convs]

Init ==
  /\ seq = [m \in Messages |-> 0] /\ cursor = [c \in Convs |-> 0]
  /\ marked = {} /\ recent = {}
  /\ pushed = [m \in Messages |-> 0] /\ written = [m \in Messages |-> 0]
  /\ faults = 0 /\ dropped = {}
  /\ pc = [p \in Procs |-> IF p \in Requests THEN "new" ELSE "idle"]
  /\ read = [p \in Procs |-> 0]
  /\ todo = [p \in Procs |-> {}] /\ hand = [p \in Procs |-> <<>>]
  /\ convs = [f \in Flushers |-> {}] /\ at = [f \in Flushers |-> {}]

-----------------------------------------------------------------------------
(* Helpers *)

KindOfMessage(m) == Batch[m[1]][m[2]]
ConvOfMessage(m) == ConvOf[m[1]]

\* The rows of a conversation, and its greatest message_seq.
Rows(c)   == {m \in Messages : ConvOfMessage(m) = c /\ seq[m] > 0}
MaxSeq(c) == CHOOSE n \in {0} \cup {seq[m] : m \in Rows(c)} :
               \A m \in Rows(c) : seq[m] <= n

\* The first of some rows, by message_seq.
IsFirst(m, rows) == m \in rows /\ \A other \in rows : seq[m] <= seq[other]

\* p is at conversation c.
IsAt(p, c) == IF p \in Requests THEN c = ConvOf[p] ELSE c \in at[p]

\* p may take its next step: no other request runs on its event loop.
MayRun(p) ==
  \A q \in Requests :
    p \in Requests \ {q} /\ LoopOf[p] = LoopOf[q] => pc[q] \in Awaiting

Step(p, from, to) == pc[p] = from /\ MayRun(p) /\ pc' = [pc EXCEPT ![p] = to]

\* A number that has been used is forgotten.
Used(p) == read' = [read EXCEPT ![p] = 0]

Is(p, kind) == IF p \in Requests THEN KindOf[p] = kind ELSE kind = "flush"

\* The messages that p has taken and is to push or to write.
Taken(p) ==
  {m \in Messages : \/ pc[p] \in {"push", "work"} /\ hand[p] = m
                    \/ (Is(p, "batch") \/ Is(p, "sync")) /\ m \in todo[p]}

\* What a failure of p costs: also the batch that a service request has inserted and
\* not loaded yet, which no other process is bound to look for.
Costs(p) ==
  Taken(p) \cup {m \in Messages : /\ m[1] = p /\ ~Is(p, "ingest")
                                  /\ pc[p] \in {"jump", "cursor", "pending"}}

\* A fault that costs at most these messages.
Fault(kind, messages) ==
  /\ kind \in Faults /\ faults < MaxFaults
  /\ faults' = faults + 1 /\ dropped' = dropped \cup messages

\* Where p goes on with the rows it has left.
GoOn(p, rest) ==
  CASE Is(p, "ingest") -> "done"
    [] Is(p, "batch")  -> IF rest = {} THEN "done" ELSE "push"
    [] OTHER           -> IF rest = {} THEN "verify" ELSE "each"

\* Where p goes on when it is through with its conversation.
Leave(p) == IF p \in Requests THEN "done" ELSE "convs"

\* advance_write_cursor: UPDATE ... WHERE write_cursor < n, returning rowcount > 0.
Advances(c, n)      == cursor[c] < n
AdvanceCursor(c, n) == cursor' = IF Advances(c, n) THEN [cursor EXCEPT ![c] = n] ELSE cursor

-----------------------------------------------------------------------------
(* write_single and write_batch *)

\* Mutant: the number comes from the write cursor.
ReadCursorAsMax(r) ==
  /\ Step(r, "new", "insert")
  /\ read' = [read EXCEPT ![r] = cursor[ConvOf[r]]]
  /\ UNCHANGED <<tableVars, keyVars, doneVars, failVars, todo, hand, flushVars>>

\* SELECT max(message_seq).
ReadMax(r) ==
  /\ Step(r, "new", "insert")
  /\ read' = [read EXCEPT ![r] = MaxSeq(ConvOf[r])]
  /\ UNCHANGED <<tableVars, keyVars, doneVars, failVars, todo, hand, flushVars>>

\* INSERT of the batch with the numbers that follow, and COMMIT.
Insert(r) ==
  /\ Step(r, "insert", CASE Is(r, "ingest") -> "refresh"
                         [] Is(r, "batch")  -> "jump"
                         [] Is(r, "sync")   -> "cursor")
  /\ seq' = [m \in Messages |-> IF m[1] = r THEN read[r] + m[2] ELSE seq[m]]
  /\ Used(r)
  /\ UNCHANGED <<cursor, keyVars, doneVars, failVars, todo, hand, flushVars>>

-----------------------------------------------------------------------------
(* dispatch_api_service_async *)

\* Mutant: only the first user message of the batch is pushed.
JumpOnce(r) ==
  LET users == {m \in Messages : m[1] = r /\ KindOfMessage(m) # "assistant"}
      last  == <<r, Len(Batch[r])>>
  IN  /\ Step(r, "jump", GoOn(r, users))
      /\ AdvanceCursor(ConvOf[r], seq[last])
      /\ IF users = {}
         THEN UNCHANGED hand
         ELSE \E m \in users : IsFirst(m, users) /\ hand' = [hand EXCEPT ![r] = m]
      /\ UNCHANGED <<seq, keyVars, doneVars, failVars, read, todo, flushVars>>

\* The cursor moves over the whole batch; its user messages are then pushed.
Jump(r) ==
  LET users == {m \in Messages : m[1] = r /\ KindOfMessage(m) # "assistant"}
      last  == <<r, Len(Batch[r])>>
  IN  /\ Step(r, "jump", GoOn(r, users))
      /\ AdvanceCursor(ConvOf[r], seq[last])
      /\ IF users = {}
         THEN UNCHANGED <<todo, hand>>
         ELSE \E m \in users : /\ IsFirst(m, users)
                               /\ hand' = [hand EXCEPT ![r] = m]
                               /\ todo' = [todo EXCEPT ![r] = users \ {m}]
      /\ UNCHANGED <<seq, keyVars, doneVars, failVars, read, flushVars>>

-----------------------------------------------------------------------------
(* ingest_agent_message, ingest_workflow_messages *)

\* refresh_active_key: SET conv_active EX 300, awaited; an error is only logged.
Refresh(r) ==
  /\ Step(r, "refresh", "mark")
  /\ \/ recent' = recent \cup {ConvOf[r]} /\ UNCHANGED failVars
     \/ Fault("redis", {}) /\ UNCHANGED recent
  /\ UNCHANGED <<tableVars, marked, doneVars, bodyVars, flushVars>>

\* mark_conversation_pending: SADD; an error is only logged.
Mark(r) ==
  /\ Step(r, "mark", "cursor")
  /\ \/ marked' = marked \cup {ConvOf[r]} /\ UNCHANGED failVars
     \/ Fault("redis", {}) /\ UNCHANGED marked
  /\ UNCHANGED <<tableVars, recent, doneVars, bodyVars, flushVars>>

\* get_write_cursor.
ReadCursor(p) ==
  /\ Step(p, "cursor", "pending")
  /\ \E c \in Convs : IsAt(p, c) /\ read' = [read EXCEPT ![p] = cursor[c]]
  /\ UNCHANGED <<tableVars, keyVars, doneVars, failVars, todo, hand, flushVars>>

\* get_pending_messages: the rows behind the cursor that was read.  Without any, the
\* executor looks whether it can unmark the conversation, the others are through.
ReadPending(p) ==
  /\ \E c \in Convs :
       /\ IsAt(p, c)
       /\ LET rows == {m \in Rows(c) : seq[m] > read[p]}
          IN  /\ Step(p, "pending", CASE rows = {} -> IF Is(p, "sync") THEN "verify"
                                                                       ELSE Leave(p)
                                      [] Is(p, "ingest") -> "choose"
                                      [] OTHER -> "each")
              /\ todo' = [todo EXCEPT ![p] = rows]
  /\ Used(p)
  /\ UNCHANGED <<tableVars, keyVars, doneVars, failVars, hand, flushVars>>

\* check_sliding_window_and_dispatch: the first pending user message to memorize, if
\* the user has said WindowSize things since.
Choose(r) ==
  LET candidates == {m \in todo[r] : KindOfMessage(m) = "user"}
      After(m)   == {n \in Rows(ConvOf[r]) : /\ KindOfMessage(n) # "assistant"
                                             /\ seq[n] > seq[m]}
      target     == {m \in candidates : /\ IsFirst(m, candidates)
                                        /\ Cardinality(After(m)) >= WindowSize}
  IN  /\ IF target = {}
         THEN Step(r, "choose", "done") /\ UNCHANGED hand
         ELSE /\ Step(r, "choose", "advance")
              /\ \E m \in target : hand' = [hand EXCEPT ![r] = m]
      /\ todo' = [todo EXCEPT ![r] = {}]
      /\ UNCHANGED <<tableVars, keyVars, doneVars, failVars, read, flushVars>>

-----------------------------------------------------------------------------
(* Steps that several paths share *)

\* Mutant: the row count of the UPDATE is ignored.
AdvanceAnyway(p) ==
  LET m == hand[p]
      c == ConvOfMessage(m)
  IN  /\ pc[p] = "advance"
      /\ AdvanceCursor(c, seq[m])
      /\ Step(p, "advance", IF Is(p, "sync") THEN GoOn(p, todo[p]) ELSE "push")
      /\ hand' = [hand EXCEPT ![p] = IF Is(p, "sync") THEN <<>> ELSE @]
      /\ UNCHANGED <<seq, keyVars, doneVars, failVars, read, todo, flushVars>>

\* Mutant: the sequence number stands for the place in the batch.
AdvanceKeepsSeq(p) ==
  LET m == hand[p]
  IN  /\ pc[p] = "advance"
      /\ AdvanceCursor(ConvOfMessage(m), seq[m])
      /\ Step(p, "advance", IF Is(p, "sync") THEN GoOn(p, todo[p]) ELSE "push")
      /\ hand' = [hand EXCEPT ![p] = <<m[1], seq[m]>>]
      /\ UNCHANGED <<seq, keyVars, doneVars, failVars, read, todo, flushVars>>

\* advance_write_cursor for the message in hand: who moves the cursor over a message
\* pushes it.  The executor, which has pruned it, does not care who did.
Advance(p) ==
  LET m == hand[p]
      c == ConvOfMessage(m)
  IN  /\ pc[p] = "advance"
      /\ AdvanceCursor(c, seq[m])
      /\ IF Advances(c, seq[m]) /\ ~Is(p, "sync")
         THEN Step(p, "advance", "push") /\ UNCHANGED hand
         ELSE /\ Step(p, "advance", GoOn(p, todo[p]))
              /\ hand' = [hand EXCEPT ![p] = <<>>]
      /\ UNCHANGED <<seq, keyVars, doneVars, failVars, read, todo, flushVars>>

\* push_write_task, the scheduler's push_task.  An API batch goes on to its next one.
Push(p) ==
  /\ Step(p, "push", GoOn(p, todo[p]))
  /\ pushed' = [pushed EXCEPT ![hand[p]] = @ + 1]
  /\ IF Is(p, "batch") /\ todo[p] # {}
     THEN \E m \in todo[p] : /\ IsFirst(m, todo[p])
                             /\ hand' = [hand EXCEPT ![p] = m]
                             /\ todo' = [todo EXCEPT ![p] = @ \ {m}]
     ELSE hand' = [hand EXCEPT ![p] = <<>>] /\ UNCHANGED todo
  /\ UNCHANGED <<tableVars, keyVars, written, failVars, read, flushVars>>

\* verify_unmark_safe: first max(message_seq) ...
ReadLast(p) ==
  /\ Step(p, "verify", "compare")
  /\ \E c \in Convs : IsAt(p, c) /\ read' = [read EXCEPT ![p] = MaxSeq(c)]
  /\ UNCHANGED <<tableVars, keyVars, doneVars, failVars, todo, hand, flushVars>>

\* ... and then the cursor.
Compare(p) ==
  /\ \E c \in Convs :
       IsAt(p, c) /\ Step(p, "compare", IF read[p] <= cursor[c] THEN "unmark" ELSE Leave(p))
  /\ Used(p)
  /\ UNCHANGED <<tableVars, keyVars, doneVars, failVars, todo, hand, flushVars>>

\* unmark_conversation_pending: SREM; an error is only logged.
Unmark(p) ==
  /\ Step(p, "unmark", Leave(p))
  /\ \/ marked' = {c \in marked : ~IsAt(p, c)} /\ UNCHANGED failVars
     \/ Fault("redis", {}) /\ UNCHANGED marked
  /\ UNCHANGED <<tableVars, recent, doneVars, bodyVars, flushVars>>

-----------------------------------------------------------------------------
(* execute_pending_from_pool *)

\* The next row: one that is not to be memorized only moves the cursor; for another
\* one the request awaits the pruning or the write pipeline.
ExecuteNext(r) ==
  /\ Is(r, "sync")
  /\ \E m \in todo[r] :
       /\ IsFirst(m, todo[r])
       /\ Step(r, "each", IF KindOfMessage(m) = "muted" THEN "advance" ELSE "work")
       /\ todo' = [todo EXCEPT ![r] = @ \ {m}]
       /\ hand' = [hand EXCEPT ![r] = m]
  /\ UNCHANGED <<tableVars, keyVars, doneVars, failVars, read, flushVars>>

\* WritePipeline.run has written a user message, PruningPipeline.prune an assistant's.
Work(r) ==
  /\ pc[r] = "work"
  /\ IF KindOfMessage(hand[r]) = "user"
     THEN /\ Step(r, "work", GoOn(r, todo[r]))
          /\ written' = [written EXCEPT ![hand[r]] = @ + 1]
          /\ hand' = [hand EXCEPT ![r] = <<>>]
     ELSE Step(r, "work", "advance") /\ UNCHANGED <<written, hand>>
  /\ UNCHANGED <<tableVars, keyVars, pushed, failVars, read, todo, flushVars>>

\* One of these steps raises: the message is skipped.
SkipMessage(r) ==
  /\ Is(r, "sync") /\ pc[r] \in {"work", "advance"}
  /\ Fault("error", {hand[r]})
  /\ Step(r, pc[r], GoOn(r, todo[r]))
  /\ hand' = [hand EXCEPT ![r] = <<>>]
  /\ UNCHANGED <<tableVars, keyVars, doneVars, read, todo, flushVars>>

-----------------------------------------------------------------------------
(* flush_conversation_task and dispatch_flush_conversation *)

\* SMEMBERS pending_conversations.  If it is empty or unreadable the table is asked.
Scan(f) ==
  /\ pc[f] = "idle"
  /\ IF marked # {}
     THEN \/ /\ convs' = [convs EXCEPT ![f] = marked]
             /\ Step(f, "idle", "convs") /\ UNCHANGED failVars
          \/ Fault("redis", {}) /\ Step(f, "idle", "query") /\ UNCHANGED convs
     ELSE Step(f, "idle", "query") /\ UNCHANGED <<convs, failVars>>
  /\ UNCHANGED <<tableVars, keyVars, doneVars, bodyVars, at>>

\* The conversations whose last row is behind the cursor.
Query(f) ==
  /\ Step(f, "query", "convs")
  /\ convs' = [convs EXCEPT ![f] = {c \in Convs : MaxSeq(c) > cursor[c]}]
  /\ UNCHANGED <<tableVars, keyVars, doneVars, failVars, bodyVars, at>>

\* Mutant: the test of the active key is inverted.
NextActiveConv(f) ==
  /\ \E c \in convs[f] :
       /\ convs' = [convs EXCEPT ![f] = @ \ {c}]
       /\ IF c \notin recent \/ c \notin Flushable
          THEN Step(f, "convs", "convs") /\ at' = [at EXCEPT ![f] = {}]
          ELSE Step(f, "convs", "cursor") /\ at' = [at EXCEPT ![f] = {c}]
  /\ UNCHANGED <<tableVars, keyVars, doneVars, failVars, bodyVars>>

\* EXISTS conv_active: the next candidate is skipped while it is active, while it has
\* no user, published app or memory config, and if Redis raises.
NextConv(f) ==
  /\ \E c \in convs[f] :
       /\ convs' = [convs EXCEPT ![f] = @ \ {c}]
       /\ IF c \in recent \/ c \notin Flushable
          THEN Step(f, "convs", "convs") /\ at' = [at EXCEPT ![f] = {}] /\ UNCHANGED failVars
          ELSE \/ /\ Step(f, "convs", "cursor")
                  /\ at' = [at EXCEPT ![f] = {c}] /\ UNCHANGED failVars
               \/ /\ Fault("redis", {})
                  /\ Step(f, "convs", "convs") /\ at' = [at EXCEPT ![f] = {}]
  /\ UNCHANGED <<tableVars, keyVars, doneVars, bodyVars>>

ScanEnds(f) ==
  /\ convs[f] = {}
  /\ Step(f, "convs", "idle")
  /\ at' = [at EXCEPT ![f] = {}]
  /\ UNCHANGED <<tableVars, keyVars, doneVars, failVars, bodyVars, convs>>

\* Mutant: the rows come in no particular order.
FlushAny(f) ==
  /\ Is(f, "flush")
  /\ \E m \in todo[f] :
       /\ todo' = [todo EXCEPT ![f] = @ \ {m}]
       /\ IF KindOfMessage(m) = "user"
          THEN /\ Step(f, "each", "lookup")
               /\ hand' = [hand EXCEPT ![f] = m]
               /\ UNCHANGED cursor
          ELSE /\ Step(f, "each", GoOn(f, todo[f] \ {m}))
               /\ AdvanceCursor(ConvOfMessage(m), seq[m])
               /\ UNCHANGED hand
  /\ UNCHANGED <<seq, keyVars, doneVars, failVars, read, flushVars>>

\* The next row: a user message to memorize is looked up again, another one only moves
\* the cursor.
FlushNext(f) ==
  /\ Is(f, "flush")
  /\ \E m \in todo[f] :
       /\ IsFirst(m, todo[f])
       /\ todo' = [todo EXCEPT ![f] = @ \ {m}]
       /\ IF KindOfMessage(m) = "user"
          THEN /\ Step(f, "each", "lookup")
               /\ hand' = [hand EXCEPT ![f] = m]
               /\ UNCHANGED cursor
          ELSE /\ Step(f, "each", GoOn(f, todo[f] \ {m}))
               /\ AdvanceCursor(ConvOfMessage(m), seq[m])
               /\ UNCHANGED hand
  /\ UNCHANGED <<seq, keyVars, doneVars, failVars, read, flushVars>>

\* get_by_seq: scalar_one_or_none raises when two rows have the number, which ends the
\* flush of the conversation.
Lookup(f) ==
  LET same == {m \in Rows(ConvOfMessage(hand[f])) : seq[m] = seq[hand[f]]}
  IN  /\ pc[f] = "lookup"
      /\ IF Cardinality(same) = 1
         THEN Step(f, "lookup", "advance") /\ UNCHANGED <<todo, hand>>
         ELSE /\ Step(f, "lookup", "convs")
              /\ todo' = [todo EXCEPT ![f] = {}] /\ hand' = [hand EXCEPT ![f] = <<>>]
      /\ UNCHANGED <<tableVars, keyVars, doneVars, failVars, read, flushVars>>

-----------------------------------------------------------------------------
(* Failures and expiry *)

\* A statement or the push raises: the request fails, the flush goes on with the next
\* conversation.  What a transaction has committed stays.
Abandon(p) ==
  /\ pc[p] \notin Awaiting \cup {"idle", "query", "convs", "unmark"}
  /\ ~(Is(p, "sync") /\ pc[p] \in {"each", "advance"})
  /\ Fault("error", Costs(p))
  /\ Step(p, pc[p], Leave(p))
  /\ todo' = [todo EXCEPT ![p] = {}] /\ hand' = [hand EXCEPT ![p] = <<>>]
  /\ Used(p)
  /\ UNCHANGED <<tableVars, keyVars, doneVars, flushVars>>

\* Every process of ps is gone, with all it held.
Die(ps) ==
  /\ Fault("crash", UNION {Costs(p) : p \in ps})
  /\ pc' = [p \in Procs |-> IF p \notin ps THEN pc[p]
                            ELSE IF p \in Requests THEN "done" ELSE "idle"]
  /\ todo' = [p \in Procs |-> IF p \in ps THEN {} ELSE todo[p]]
  /\ hand' = [p \in Procs |-> IF p \in ps THEN <<>> ELSE hand[p]]
  /\ read' = [p \in Procs |-> IF p \in ps THEN 0 ELSE read[p]]
  /\ UNCHANGED <<tableVars, keyVars, doneVars>>

\* An API process dies: so do the requests it is serving.
CrashLoop(l) ==
  /\ \E r \in Requests : LoopOf[r] = l /\ pc[r] \notin {"new", "done"}
  /\ Die({r \in Requests : LoopOf[r] = l /\ pc[r] # "new"})
  /\ UNCHANGED flushVars

\* A periodic worker dies; the next flush starts from nothing.
CrashFlush(f) ==
  /\ pc[f] # "idle"
  /\ Die({f})
  /\ convs' = [convs EXCEPT ![f] = {}] /\ at' = [at EXCEPT ![f] = {}]

\* conv_active expires 300 s after it was set, when the request that set it has ended.
Expire(c) ==
  /\ c \in recent
  /\ IF \A r \in Requests : ConvOf[r] = c => pc[r] \in {"new", "insert", "refresh", "done"}
     THEN UNCHANGED failVars ELSE Fault("stall", {})
  /\ recent' = recent \ {c}
  /\ UNCHANGED <<tableVars, marked, doneVars, pc, bodyVars, flushVars>>

-----------------------------------------------------------------------------

Request(r) ==
  \/ ReadMax(r) \/ Insert(r) \/ Jump(r) \/ Refresh(r) \/ Mark(r) \/ Choose(r)
  \/ ExecuteNext(r) \/ Work(r) \/ SkipMessage(r)

Flush(f) ==
  Scan(f) \/ Query(f) \/ NextConv(f) \/ ScanEnds(f) \/ FlushNext(f) \/ Lookup(f)

Shared(p) ==
  \/ ReadCursor(p) \/ ReadPending(p) \/ Advance(p) \/ Push(p)
  \/ ReadLast(p) \/ Compare(p) \/ Unmark(p)

Next ==
  \/ \E r \in Requests : Request(r)
  \/ \E f \in Flushers : Flush(f) \/ CrashFlush(f)
  \/ \E p \in Procs : Shared(p) \/ Abandon(p)
  \/ \E l \in {LoopOf[r] : r \in Requests} : CrashLoop(l)
  \/ \E c \in Convs : Expire(c)

Spec == Init /\ [][Next]_vars

-----------------------------------------------------------------------------
(* Properties *)

\* No two messages of a conversation have the same number.  The numbers come from a
\* SELECT of the greatest one before the INSERT, with no constraint on the table:
\* it is the event loop that keeps two requests from reading the same one.
SeqsDistinct ==
  \A m, n \in Messages :
    seq[m] > 0 /\ seq[m] = seq[n] /\ ConvOfMessage(m) = ConvOfMessage(n) => m = n

\* However the sliding window of several requests and several flush scans interleave,
\* wherever they stop: no message is pushed on the task scheduler twice.
PushedAtMostOnce == \A m \in Messages : pushed[m] <= 1

Held(m) == \E p \in Procs : m \in Taken(p)

\* The user messages that nobody will look at again: the cursor is past them, nobody
\* holds them, and they were not pushed or written.
Lost ==
  {m \in Messages : /\ KindOfMessage(m) = "user"
                    /\ seq[m] \in 1 .. cursor[ConvOfMessage(m)]
                    /\ pushed[m] + written[m] = 0
                    /\ ~Held(m)}

\* The cursor passes over no message that is still to be memorized, except in the hands
\* of a process that then fails: a failure costs what the process had taken, and nothing
\* else costs a message.
LossNeedsFailure == Lost \subseteq dropped

\* Every message of a conversation the flush can serve is eventually behind the cursor,
\* although its mark, its active key and any process may be lost.
EveryMessageConsumed ==
  \A m \in Messages : ConvOfMessage(m) \in Flushable =>
    (seq[m] > 0 ~> seq[m] <= cursor[ConvOfMessage(m)])

\* "The message_seq of the last message processed": what the executor has written, with
\* no request in progress, is not behind the cursor.
CursorIsLastProcessed ==
  (\A r \in Requests : pc[r] \in {"new", "done"}) =>
    \A m \in Messages : written[m] > 0 => seq[m] <= cursor[ConvOfMessage(m)]

\* The loops and the periodic worker go on, the beat starts a flush every minute, and
\* the active keys expire.  Nothing obliges a client to send a request.
Fairness ==
  /\ \A r \in Requests : WF_vars(Request(r) /\ pc[r] # "new")
  /\ \A f \in Flushers : WF_vars(Flush(f))
  /\ \A p \in Procs : WF_vars(Shared(p))
  /\ \A c \in Convs : WF_vars(Expire(c))

FairSpec == Spec /\ Fairness

=============================================================================
