# MemoryBear in TLA+

MemoryBear is a memory service for agents: a FastAPI application, Celery workers, Redis,
PostgreSQL and Neo4j. Its own core logic is the path a conversation's message takes on its way
to the user's memory graph, and the workflow engine that serves conversations. This directory
specifies both: what the dispatcher does with messages, what the Redis task scheduler does with
write tasks, which task may act on a user's graph, how a workflow's answer is streamed to the
client, and what its iterations and loops do with the variables they share. Paths are relative to the repository; `api/app` stands for `src/api/app`.

## 1. Inventory

### The path of a message

```
 agent chat, workflow run         service API (async, sync)        periodic worker
        |  ingest_*                        |                        flush_conversation (60 s)
        v                                  v                               |
  +---------------------- dispatcher --------------------------------------v----+
  |  memory_messages (message_seq)   conversations.write_cursor   [PostgreSQL]  |
  |  pending_conversations, conv_active:{id}                      [Redis]       |
  +------------------------------------+----------------------------------------+
                     push_write_task   |            execute_pending_from_pool (sync path)
                                       v                        |
  +-------------- Redis task scheduler ----------+              |
  |  list per user, READY, ACTIVE, locks, shards |              |
  +---------------------------+------------------+              |
                              v  send_task                      v
                       Celery workers: write_message ----> write pipeline -> Neo4j
                       reflection, deduplication ---fair lock---^
```

### Components

| Component | State | Operations | What is hard about it | What makes it correct |
|---|---|---|---|---|
| **Redis task scheduler** `celery_task_scheduler.py` | list of messages per user, ACTIVE_USERS, READY set, a lock per user, dispatch locks, pending_tasks, trackers, instance registry | `push_task`, `get_task_status`, `_heartbeat`, `_cleanup_finished`, `schedule_loop`, `_process_batch`, `_dispatch`, `_full_scan`, `run_server` | several instances with overlapping shards; crashes between two Redis commands; lost replies; signals dropped on failure; keys that expire | one write task of a user at a time; no message lost, reordered or forgotten; a lock somebody watches |
| **Memory write dispatcher** `core/memory/pipelines/dispatcher.py`, `repositories/memory_message_repository.py`, `core/memory/sliding_window/memory_message_pool_executor.py` | message_seq, write_cursor, pending set, active keys | `ingest_agent_message`, `ingest_workflow_messages`, `check_sliding_window_and_dispatch`, `dispatch_api_service_async`, `execute_pending_from_pool`, `dispatch_flush_conversation` | three kinds of process move one cursor; two stores without a common transaction; Redis errors swallowed | each message consumed once, none passed over, none left behind |
| **Flush scan** `tasks.py` `flush_conversation_task` | its list of candidates | scan the set, fall back to the table, flush idle conversations | scans overlap; the fallback is conditional | every idle conversation is served |
| **Redis fair lock** `utils/redis_lock.py` | a sorted set of waiters, the lock key, a renewal thread | acquire, renew, release, give up | lost replies, dead waiters, expiry under a holder | mutual exclusion while leases hold, order, progress |
| **Write pipeline** `core/memory/pipelines/write_pipeline.py` | none of its own | extraction, deduplication, storage | external effects | (calls of models and Neo4j) |
| **Workflow engine** `core/workflow/engine`, `core/workflow/executor.py`, `core/workflow/nodes/base_node.py` | graph state with activations, variable pool, output segments with activation and cursor | `check_activate`, `trans_activate`, routing; `update_scope_activation`, `emit_activate_chunk`, `handle_node_chunk_event`, `handle_updates_event`, `flush_remaining_chunk`; `resume_workflow_stream` | order of branches, chunks and updates decides the order of output; the analysis of the graph must agree with what executes | segments once each, in order, of executed answers only; the stream ends |
| **Iteration and loop nodes** `core/workflow/nodes/cycle_graph`, `nodes/assigner`, `nodes/breaker` | a deep copy of the pool per run, the output list, the loop's checkpoint | `run_task`, `run` of `IterationRuntime` and `LoopRuntime`, `_merge_conv_vars`, assignments, break | parallel runs over copies that are merged as a whole; some items fail; a branch of the workflow writes meanwhile | which writes survive; output in the items' order; no batch after a break; the node ends |
| **Human intervention** `core/workflow/nodes/human_intervention`, `services/intervention_registry.py` and its timeout scheduler | a queue and a node map per execution | wait, submit, time out, resume | answer against timeout; state in memory and in the database | each node resumed once |
| **Unit of work, compensation, monitor** `core/uow.py`, `core/compensation.py` | session, list of compensations | commit, rollback, compensate | partial failure | reverse order, all tried |
| **Forgetting, clustering, reflection engines** `core/memory/storage_services` | graph nodes in Neo4j | decay, merge, label propagation | real-valued data | (numerical) |
| **Quota manager** `core/quota_manager.py` | counts of rows | check before insert | check, then act | never above the quota |
| **Workflow triggers** `core/workflow/triggers.py` | schedule of each trigger | scan each minute | clock arithmetic | each due time once |
| **Code sandbox, RAG, controllers, front end** | | | I/O and third-party code | |

PROJECT.json lists every component with what is modelled of it, and the hazards of the code,
each at its line with the properties that watch it.

## 2. The task scheduler

`TaskScheduler.tla` has one variable per Redis structure (`queue`, `active`, `ready`, `lock`,
`dlock`, `pending`, `tracker`, `registry`), the state of each Celery task, where each `push_task`
stands, and the local state of each scheduler instance (`pc`, `view`, `fin`, `gone`, `batch`,
`heads`, `cur`). **A step is one round trip**: a command, a MULTI pipeline or a Lua script. What
an instance computes between two round trips is part of the step before. The lock key is
`{task_name}:{user}`; the repository pushes one task name only, so the lock is per user.

| Actions | Code |
|---|---|
| `Push`, `CheckLock`, `Signal`, `PushDies` | `push_task`: pipeline, EXISTS, SADD, failure after the pipeline |
| `TaskStatus` | `get_task_status` |
| `Heartbeat` | `_heartbeat`, with instances that have died or let their registration lapse |
| `Collect`, `SafeDelete`, `DeleteFails`, `ForgetFinished`, `SignalCleaned` | `_cleanup_finished` |
| `TakeReady`, `RemoveReady` | `schedule_loop` |
| `ReadHeads`, `DropEmpty`, `Pop`, `Requeue` | `_process_batch` |
| `Refuse`, `Acquire`, `Send`, `SendFails`, `Commit`, `CommitFails` | `_dispatch`, LUA_ATOMIC_LOCK, `_commit_post_dispatch` with its second attempt |
| `FullScan`, `Abort`, `Stop`, `Restart` | `_full_scan`, the handler of `run_server`, death, SIGTERM, the supervisor |
| `Start`, `Finish`, `ResultExpires`, `ExpireLock`, `ExpireDispatchLock`, `ExpireTracker` | Celery and Redis (external) |

A failure is an action guarded by a kind in `Faults` and a budget `MaxFaults`, so a run states
exactly which failures its properties survive: `crash`, `abort` (a Redis call raises), `send`,
`commit` (the pipeline fails without effect), `reply` (it takes effect and its reply is lost),
`push` (a pusher stops half-way), `ttl` (a lock expires under an unfinished task), `lapse` (a live
instance is dropped from the registry), `age` (a task that waits in the broker is given up after
TASK_TIMEOUT), `result` (a result expires before it is read), `day` (a tracker expires, 24 hours
after push, dispatch or cleanup wrote it). Other expiry that needs no mishap (a lock whose tasks are
over, the key of a dispatch that has ended) is free; that of a tracker is counted to bound it, since
only `get_task_status` reads one. A lock never expires
under a dispatch that is in progress: it lives for an hour, a dispatch for a few round trips; and no
tracker expires before its `push_task` has returned.

An expired tracker makes `get_task_status` answer NOT_FOUND, for a message that has long been
written as for one that still waits behind others. `StatusNeverGoesBack` names the three ways in which
an answer starts over: another task for the message, a result that expires (after an hour) before
cleanup has read it, and the tracker's day.

`SerialQueue.tla` says what callers are promised: a queue per user, written one message at a time,
in order, each once. `SchedulerRefinement.tla` maps the scheduler to it: a message waits until
`send_task` has created its task (also while the instance has still to LPOP it) and runs while
Celery has its task unfinished.

### Runs

| Run | Instance | Shows |
|---|---|---|
| `serial` | 2 instances, 1 user, 1 message, 2 faults of 7 kinds | `OneTaskPerUser`: Celery never holds two unfinished tasks of a user; `NamedLockIsWatched`: a lock that names a task is in pending_tasks; `TypeOK` |
| `overlap` | 2 instances, 1 user, 2 messages, no fault | `LossNeedsDuplicate`: before two instances have seen each other both own the user. The race of LINDEX, lock and LPOP can then pop a message that was never sent, but every loss has a duplicate beside it |
| `single` | 1 instance, 2 users, 3 messages, no fault | `ImplementsSerialQueue` (refinement), `NoMissedWakeup` (whoever has a message has somebody about to look at him, without the full scan), `EveryMessageWritten` (liveness without the full scan: from its push, each message comes to be reported as finished) |
| `recover` | 1 instance, 1 user, 2 messages, 2 faults of every kind but `lapse` | `NoMessageLost`, `SentInOrder`, `StatusNeverGoesBack`, and `ActiveUserServed`: the full scan serves whoever is in ACTIVE_USERS |
| `active` (violation) | 1 instance, 1 user, no fault | see Findings |

Bounds. The interesting interleavings are between two instances, between one instance and a
pusher, and between a message and the next one of its user: two of each suffice. One message is
enough for `serial`, because a crash or a lost dispatch makes the instances send it again
(`MaxSends` = 3), which is what could break the lock. Two faults allow one mishap and one during
the recovery from it. `serial` is without `ttl`, `age` and `reply`: in these three cases the code does
let two tasks of a user run at once, so `OneTaskPerUser` is false with them. `recover` has them, and
shows what holds all the same: no message is lost, out of order or left behind.

Fairness. `FairSpec` assumes weak fairness of the loop of each instance (`run_server` never
ends), of the supervisor's restart, of workers, of pushers and of expiry. `ScanSpec` adds strong
fairness of the full scan: `run_server` runs it every 30 s whenever it is between two
iterations, which is a state the loop leaves and comes back to. Faults are never fair.

### Findings

`active`: the comment at celery_task_scheduler.py:18 calls ACTIVE_USERS the users with pending
messages. `_process_batch` removes a user whose list was empty when it read it, without a
second look; a push in between is undone, and the full scan, which starts from ACTIVE_USERS, does
not see the user. `ActiveUserServed` therefore says "still in ACTIVE_USERS" in its hypothesis.

## 3. The dispatcher

`MemoryDispatch.tla` models the messages of a conversation, its cursor, the pending set and the
active keys, the requests that bring messages and the flush scans of the periodic worker. A
**step is one SQL statement or one Redis command**; a transaction that only reads is read
committed, statement by statement. Requests of one API process share an event loop (`LoopOf`):
one gives way to another only where the code awaits (`Awaiting`: Redis for the active key, a model
call in the synchronous executor, and between two of its steps none). Flush scans are processes
and interleave everywhere.

| Actions | Code |
|---|---|
| `ReadMax`, `Insert` | `write_single`, `write_batch` and their commit |
| `Refresh`, `Mark` | `refresh_active_key`, `mark_conversation_pending` |
| `ReadCursor`, `ReadPending`, `Choose`, `Advance`, `Push` | `check_sliding_window_and_dispatch`; also the first two steps of the executor and the flush |
| `Jump`, `Push` | `dispatch_api_service_async` |
| `ExecuteNext`, `Work`, `SkipMessage` | `execute_pending_from_pool` |
| `Scan`, `Query`, `NextConv`, `ScanEnds` | `flush_conversation_task` |
| `FlushNext`, `Lookup`, `Advance`, `Push` | `dispatch_flush_conversation`, `dispatch_single_message` |
| `ReadLast`, `Compare`, `Unmark` | `verify_unmark_safe`, `unmark_conversation_pending` |
| `Abandon`, `CrashLoop`, `CrashFlush`, `Expire` | an exception, a death, the expiry of an active key |

A message is a pair (request, place in its batch) of one of three kinds: `user`, `muted` (a
user's, with should_memorize false) and `assistant`. `Flushable` are the conversations with a
user, a published app and a memory configuration; the flush skips the others, and so it never
serves the virtual conversations of the service API. `push_task` is one step here: what it does
is the subject of TaskScheduler, which also covers its failure after its pipeline (`PushDies`).

### Runs

| Run | Instance | Shows |
|---|---|---|
| `chat` | one conversation, a workflow turn (user, assistant) and a chat message, 2 flush scans, 1 fault of any kind | `SeqsDistinct`, `PushedAtMostOnce`, `LossNeedsFailure`, `TypeOK` |
| `mixed` | an app conversation (user, muted), and a service conversation with an asynchronous batch (user, user) and a synchronous one (user, assistant, muted), 1 flush scan, 1 fault | `LossNeedsFailure` across the three paths, `EveryMessageConsumed` (liveness) for the app's conversation |
| `starve` (violation) | two app conversations, 3 chat messages, 1 flush scan, no fault | see Findings |
| `sync` (violation) | one service conversation, 2 synchronous requests, no fault | see Findings |

`LossNeedsFailure` counts the user messages that nobody will look at again: the cursor is past
them, they were neither pushed nor written, and no process has them in hand. The code moves the
cursor before it pushes, so a process that fails in between loses what it held. The history
variable `dropped` collects what each fault may cost: what the failing process had taken, and the
batch that a service request has inserted and not loaded yet. The property says that nothing else
is ever lost: not by the window and the flush racing for the cursor, nor by the flush moving the
cursor over what it does not push. No action reads `dropped`.

Bounds. `WindowSize` is 1 in the runs that must dispatch from the window (it is 3 in the code: a
window of 1 reaches the same branches with fewer messages) and 3 where the window has to hold
messages back. Two flush scans overlap when one lasts longer than the minute of the beat. One
fault of any kind is enough for every crash and swallowed error to meet the rest; with one
conversation the fallback to the table is reached whenever the mark is lost.

Assumption: one API process, as `docker-compose.yml` deploys it (one uvicorn without `--workers`).
With several, `ReadMax` and `Insert` of two requests interleave, two rows get the same number
(the index on conversation and number is not unique, memory_message_model.py:28), and `get_by_seq`
raises for them in every flush from then on. The assumption is also about workflows that run elsewhere:
a scheduled trigger runs its workflow in a Celery worker (tasks.py:4195, queue
workflow_trigger_tasks), and a memory node in it writes messages (nodes/memory/node.py:145). If the
trigger names a conversation that the API serves as well, two event loops write to it, and `SeqsDistinct`
no longer follows. `LoopOf` makes this a parameter of the model.

Fairness. A started request and a started flush go on, the beat starts a flush again and again, and
active keys expire. No client is obliged to send anything, and no fault is fair.

### Findings

`starve`: the docstring of `flush_conversation_task` (tasks.py:3992) says that it scans all idle
conversations and dispatches what remains of each. The table is asked only when the pending set
is empty or unreadable (tasks.py:4047). A message inserted and marked between
`verify_unmark_safe` and the SREM loses its mark; and a conversation marked after its message has
been flushed stays in the set, because the flush returns before unmarking when it finds nothing
(dispatcher.py:606). With both, the first conversation is never flushed until it gets another message.
`mixed` shows that one app conversation alone is always served.

`sync`: conversation_model.py:50 defines the cursor as the number of the last message processed. The
executor never advances it over a user message it has written (memory_message_pool_executor.py:195),
so the next synchronous request of the conversation runs the pipeline on it again.

## 4. The fair lock and its tasks

`FairLock.tla` models the lock memory_write:{user} and the tasks that take it. A client is one lock
object with an id of its own, as each task creates one. A **step is one Lua script or Redis
command**, or one transaction on the user's row; `Tick` is the unit of timeouts and leases.

| Actions | Code |
|---|---|
| `Scan`, `ExpireInflight` | `reflection_scan` and the deduplication's dispatch with their key in flight; expiry of that key |
| `Begin`, `Recheck`, `Work`, `WorkFails`, `End` | `_do_reflection`, `_do_dedup`: the second look with the lock, the work, an exception, the return |
| `AcquireScript`, `Acquire`, `CallFails` | ACQUIRE_SCRIPT with its purge and queue, one call of it, the retries of `acquire` |
| `Leave` | giving up: the entry is removed |
| `Renew`, `RenewFails` | the renewal thread |
| `Release` | RELEASE_SCRIPT, also when all its attempts fail |
| `Crash`, `Tick`, `PeriodElapses` | death of a worker, time, the reflection period |

Time. `Tick` may pass whenever no call that is due is being delayed (`Prompt`): a renewal happens
within its lease unless its calls fail, and a waiter polls within a tick. Without this assumption
a thread that is not scheduled for a whole lease loses the lock, which no code can exclude.
Faults are crashes, lost calls, lost replies, exhausted renewals, other exhausted commands, and
a task that raises; all failed attempts of one call are one fault.

Run `fairlock`: two reflections and a deduplication (three clients, so that two wait while one
holds), one fault of any kind; 203,706 states. `MutualExclusion` and `ReflectedWhenDue` say
exactly what is left when a renewal thread has ended or a lease run out; `NoOvertaking` is the
order of the queue as far as it holds (section 7 says what it needs); `OrphanFreed` and `DueServed` are liveness. Two faults
were checked once, for the safety properties.

Fairness. Tasks go on (WF of each client's next step), some renewal that is due happens, time
passes and keys expire, and the scan, which runs every ten minutes, is strongly fair: the key in
flight comes and goes, so dispatching is not continuously enabled. No fault is fair.

## 5. The stream of a workflow

`StreamOutput.tla` is about the executor's streaming mode. The graph (`Step`, `Chunk`, `Finish`,
`AttemptFails`) runs node by node within supersteps and appends chunk and update events; one
consumer takes them one at a time (`HandleUpdate`, `ChunkToEnd`, `PassSegment`, `ChunkDirectly`,
`EmitSegment`, `TurnToNext`, `Flush`) while nodes of the same superstep go on; the graph enters its
next superstep only when the consumer asks for more events. `Dependencies` is the analysis of the
graph done before the run (`ValidAssumption` says which graphs get that far: `IsValid` those that pass the
validator and are reachable, `IsLabelled` those whose edges the editor has labelled); `Notice` and `UpdateScope` are `update_activate` and
`update_scope_activation`; the consumer leaves off (`Wait`) when the next variable is not there yet. An
intervention ends the stream (`Interrupting`); `Resume`, `Replay`, `Recovered`
and `PreActivate` are `resume_workflow_stream`, which works out what was shown from the graph's
state.

Run `stream`: sixteen workflows, one for each shape the coordinator has to tell apart
(MCStreamOutput names them): a branch between answers, parallel models in one answer and in two,
Output nodes before an End and on one of two branches, an error branch, a branch resolved while
the model behind it already writes, an answer that becomes active while another is written, a
person's approval before and within an answer, a variable that is used twice, an answer that names
its second model first, and models whose chunks are not what they return (`Manners`). Two chunks a
field and two attempts a call tell first, middle and last apart. 92,604 states. Workflows end, so
deadlock is not checked; `Answered` says that they do.

`Stream` gives the order of a model's chunk events for each manner of writing
(llm/node.py:1022-1108): reasoning, then output; both in the same chunks, so that output comes before the reasoning
is done; no chunks of reasoning, because there is none or because it stands between think tags within
the output; or output held back until the reasoning is done and cut off before a stop sequence.
Chunks are numbered pieces of a field; what they say is the value in the pool only in the first manner
(`Verbatim`).

`AnswerExact` and `ResumedExact` give the text in full while one node executes at a time, no call
fails, models write verbatim and templates name variables in the order in which they get their values (`Repeating` and
`Passing` name the cases that are excluded; the shapes list Ends in the order in which they become
active, which is the order of the text); `OnlyExecuted`, `InTemplateOrder` and `LiteralsOnce` hold in every case. `NothingToFlush` shows
that the last flush has nothing left to do.

Fairness: weak fairness of the graph and the consumer together: asyncio goes on with what is ready,
calls of models return or time out, interventions are answered or time out.

## 6. Iterations and loops

`CycleNode.tla` models one iteration or loop node with its runs (the items or rounds), each with its
pool, and an assigner on a parallel branch of the workflow (`Aside`). Conversation variables are the
list of the writes they show, so a write that is lost is a write that is not in the list.

| Actions | Code |
|---|---|
| `Start` | `_create_iteration_tasks` and the part of `run_task` up to its first pause, which copies the pool; a loop's next round |
| `Route`, `Exec`, `Return`, `Fail` | the subgraph: its branch, an assigner, a break, other nodes; its end; an exception |
| `Collect` | the batch is counted: failures by error mode, output, merge of conversation variables, break, next index |
| `Complete`, `Timeout` | `run` returns; `wait_for` cancels the node |

The copies of a batch are made in one turn of the event loop, and between the end of one run of a
sequential node and the copy of the next there is no pause, so `Start` is one step and `Aside`
is kept out of that gap for a width of 1 (not for a parallel batch, whose tasks are scheduled by
`gather`). After a loop's first round its pool and the parent's hold the same objects (`Aliased`),
because the merge puts the child's structures into the parent's dictionary.

Run `cycles`: three items one by one in each error mode, three in parallel batches of two
(the last one short) with a body of several nodes, four in two full batches, and a loop of three
rounds with a condition; a break, a failure anywhere, one write of the other branch, a timeout;
437,447 states. A second batch is needed for what one leaves behind, a batch of two for
what its runs do to each other. Fairness: asyncio goes on with what is ready; failures, the
timeout and the other branch are not fair.

What the properties say is what the code does, and some of it may surprise: of a parallel
batch only the last successful item's writes survive (`LastOfBatchKept`), an assigner on a
parallel branch loses what it writes while copies are out (`SideWritesKept`), and a round of a
loop executes the branches that earlier rounds chose besides its own (`RunsWhatWasChosen`): all
rounds use one thread_id (loop.py:62) and `merge_activate_state` (state_manager.py:11) never
takes an activation back.

## 7. Proofs

Every theorem is checked by TLAPS to its last leaf and holds for every value of the constants: any
sets of users, messages, instances, clients or requests, any workflow, any bound on sends,
faults and time. Where a theorem assumes more, the assumption is named in its statement, and the
runs' instances that check the property satisfy it. The types are proved first; each safety
property then gets the invariant it needs, one lemma per conjunct or per group of actions.

### The task scheduler

`TaskSchedulerProofs.tla`: types, exclusion, and locks that are watched.

* `TypeCorrect`: `Spec => []TypeOK`, under every kind of fault. `TypeInv` adds to the types that an
  instance past `send_task` knows which task it has sent (`CurKnown`): without it, `Commit` could
  write a task number 0.
* `MutualExclusion`: `Spec => []OneTaskPerUser`, assuming `ExclusiveFaults`: no fault of kind
  `ttl`, `age` or `reply`. Each of these takes a lock from under a task that is not over, so two
  tasks of a user can then run at once and the property is false; the code relies on its time limits
  to make them rare. The property
  is not inductive: `ExclusionInv` adds that an instance in dispatch holds the user's lock
  (`LockHeld`) and is the only one (`OneDispatcher`), that the lock of a user with an unfinished task
  names that task or is still at "dispatching" for its sender (`LiveLocked`, `OwnTaskOnly`),
  and that cleanup only holds outcomes of tasks that are over (`OutcomesOver`), so the
  compare-and-delete cannot free a user whose task is unfinished.
* `LocksAreWatched`: `Spec => []NamedLockIsWatched`, assuming that no commit takes effect without its
  reply; locks may run out and tasks be given up. `WatchInv` adds that a task whose lock has been
  deleted is not named by a lock again (`GoneUnlocked`, `CommitsOnce`, `PendingSent`), which is why
  HDEL after the delete cannot unwatch a lock.

`SchedulerOrderProofs.tla`: the lists.

* `FirstSendsInOrder`: `Spec => []SentInOrder`, for any number of instances and every fault, with no
  assumption. A list holds each message once (`QueueKnown`), what an instance has read as a head or
  has in dispatch stands behind no other message of its list (`Fronts`), and the first task of a message
  is the first sent (`SentFromFirst`). RPUSH adds behind everything and LPOP takes the head, so
  nothing ever gets behind another message that was not behind it.
* `NothingLost`: `Spec => []NoMessageLost`, assuming `OneInstance`. What the instance
  has read as a head stays in its list until it pops it (`CandidatesQueued`), and by `Fronts` it is
  still the head; what is in flight has been sent (`FlightSent`). So LPOP takes the message that was sent,
  whatever fails and wherever the instance dies.
* `LossesPaidFor`: `Spec => []LossNeedsDuplicate`, with no assumption. `Balance` counts together the
  messages lost and the dispatches in flight whose pop may take another message than theirs
  (`Astray`): never more than the tasks sent for messages that already had one. A pop that loses a
  message was astray, and a dispatch goes astray only by a second task of its message.

`SchedulerWakeupProofs.tla`: what is owed to a waiting user.

* `NobodyOverlooked`: `Spec => []NoMissedWakeup`, assuming `NothingFails` (no failed call, no death),
  for any number of instances with overlapping shards. A user with a
  message is in READY, or a pusher has still to check or to signal, an instance has him in its batch, a task of his
  is in pending_tasks, or cleanup has still to signal him (`AllAwaited`). Both keys of the lock
  script belong to a dispatch under way (`DispatchingHeld`, `DlockHeld`), so an instance that is refused leaves
  him to somebody.
* `StatusMonotone`: `Spec => StatusNeverGoesBack`, an action property, assuming `NoCommitOvertaken`: one
  instance, or no lost reply of a commit. It says of every step but a tracker's expiry, another task and a result
  lost unread that the answer does not go back. `TrackerTells` relates a tracker with a task id to a
  task that was sent, and `CommitsTell` a commit that is being repeated to a tracker that cleanup has not
  reached. With several instances and a lost reply, the second
  attempt of the commit can write DISPATCHED over what cleanup has recorded.

`SchedulerRefinementProofs.tla`: `Refines`, `Spec => ImplementsSerialQueue`, step by step, assuming
`OneInstance` and `HarmlessFaults`: failed sends and commits, pushers that stop, lapsed
registrations, lost results and expired trackers. The step of `Send` is the abstract start, which needs that the message is
the head, unsent, and that no other task of the user runs: these come from the invariants of the
three modules before. After a death or an abandoned iteration a message can be sent twice, which
`SerialQueue` does not allow.

### The dispatcher

`MemoryDispatchProofs.tla`, for any conversations, requests, batches, flush scans, event loops and
faults of every kind:

* `DispatchTypeCorrect`: `Spec => []TypeOK`. `TypeInv` adds that a process that is to push, write,
  advance over or look up a message has one in hand (`HandKnown`), that a request inserts once
  (`NoRowYet`), that a conversation has a greatest number (`MaxExists`, so that `MaxSeq` is one), and
  that an asynchronous batch only inserts, jumps and pushes (`OnPath`).
* `NumbersDistinct`: `Spec => []SeqsDistinct`, assuming `OneLoop`: one event loop serves a
  conversation. The invariant adds that requests of a loop run one at a time (`OneRunning`) and
  that what a request has read is still the greatest number when it inserts (`ReadIsMax`). This is
  the whole argument for the missing unique constraint, and where it needs one API process.
* `OnlyFailuresLose`: `Spec => []LossNeedsFailure`, assuming `OneLoop` and `WindowApart`: no
  conversation has both asynchronous service batches and an app's chat (dispatcher.py:149, as below).
  Such a batch moves the cursor over everything before it, and would pass over the messages of a
  chat that wait for the window; a chat request has left these behind without a failure. Synchronous and
  asynchronous service calls may share a conversation: while the batch jumps, requests of its event loop
  stand where they await something, and have inserted nothing yet or settled their own batch
  (`OwnSettled`). The rest of the invariant is about the rows a process has loaded (`View`): it goes through
  them in order (`ViewInOrder`) and has all that are not settled up to the last (`NoGap`), because it
  read the cursor before (`ReadBehind`), and new rows come after the cursor (`CursorRow`). So a cursor
  that moves passes over the message in hand, and over others only if they are settled
  (`PassesOver`, which needs distinct numbers).
* `NobodyPushedTwice`: `Spec => []PushedAtMostOnce`, on any number of event loops, assuming
  `ServiceApart`: neither the flush nor the window of an app's chat looks at the conversation of a
  service batch. The code gives service calls virtual conversations of a sentinel app
  (dispatcher.py:149) that is never released, so the flush drops them from its candidates
  and would find no memory configuration for them. Such a batch pushes without looking at the row
  count of its UPDATE, so the property is false without
  the assumption. The invariant follows the claims: what a process has won and not yet pushed is
  behind the cursor, unpushed and nobody else's (`ClaimedOnce`, `ClaimsNew`); what was pushed is
  behind the cursor (`PushedConsumed`), which never goes back; a batch is numbered in order
  (`InOrder`), so that one jump covers it, and until then nobody has any of it (`Untouched`,
  `HandsApart`). Distinct numbers are not needed.

All steps but five number, claim and push nothing. They are `Calm`: lemma `Steps` shows it once, and
the invariants on numbers and pushes only have to look at `ReadMax`, `Insert`, `Jump`, `Push` and the winning case of
`Advance` (`Wins`).

### The fair lock

`FairLockProofs.tla`, for any clients, timeouts, leases, retries and faults of every kind:

* `LockTypeCorrect`: `Spec => []TypeOK`.
* `LockExcludes`: `Spec => []MutualExclusion`. `LockInv` adds that a lock with an owner has a
  lease that is not over (`Leased`), that a renewal timer never exceeds its pause and the thread of a
  task inside runs or has ended (`Renewing`), that the owner's lease outlives the pause until its next
  renewal (`LeaseHeld`), and that a task inside whose thread runs owns the lock (`WorkerOwns`). It needs
  only that the pause is shorter than the lease (`ConstantAssumption`).
* `OneReflectionAPeriod`: `Spec => []ReflectedWhenDue`, from the same invariant: two reflections
  that both see the period elapsed would have to be inside together.
* `FirstComeFirstServed`: `Spec => NoOvertaking`, an action property, assuming `GrantOutlivesWait`: if
  replies of acquire can be lost, a lease is longer than a task waits. In the code it is 600 s against
  30 and 120 s (tasks.py:2195-2198, 2368-2371). TLC shows the property false without it: a client that
  was granted the lock without being told has lost its place in the queue, and when that lease runs
  out it waits behind later ones. `QueueInv` says that a waiter old enough to matter has a place
  (`PlaceKept`) with nobody's entry older than its own waiting (`NoOlder`), or has been granted the
  lock (`Unknown`), or may be purged.

### The stream of a workflow

`StreamOutputProofs.tla`, for any number of chunks and attempts. The first three theorems are about any
workflow of the form `IsWorkflow`; the last two also use `ValidAssumption`:

* `PartsInOrder`: `Spec => []InTemplateOrder`. By `Frontier` an End that has been
  shown and is not finished is the current one, everything shown since belongs to it, and its cursor
  stands behind that, or on a variable whose chunks are being shown. Chunks are numbered from 1
  (`Numbered`), which tells them from whole values.
* `StreamTypeCorrect`: `Spec => []TypeOK`. `Coherent` says that the current End and those
  that queue are known, active, different and counted as processed, and that cursors stand on segments.
* `LiteralsShownOnce`: `Spec => []LiteralsOnce`. That a literal is shown at most once follows from
  `InTemplateOrder` and from literals being shown whole (`Wholes`); that it is shown at least once from
  `Passed`, all literals behind a cursor have been shown, and `OverDone`, an End that executed is
  done when the stream is over. The latter is the hard part (`Pending`): an End that has
  executed is finished or forced, or its update is still in the queue (`DoneHeard`); chunks come before
  the update of their model (`ChunkOrigin`); and while no End queues that the consumer could turn to,
  or more is awaited, it may be idle (`Settled`, `Settling`), so that the stream does not end with
  one in the queue.
* `OnlyExecutedShown`: `Spec => []OnlyExecuted`. `ChoiceInv` relates what executes (`Executing`: a unit
  that has started executes exactly if one before it does and, behind a branch, its label was taken), what
  the analysis says (`Analysed`: `deps` solves the equation of `Dependencies`), and what the
  coordinator holds (`Justified`: an End it counts as branched to or active is chosen, that is, runs,
  depends on no branch, or a branch it depends on has been taken by a node that executed). Chosen Ends stay
  chosen (`ChosenStays`), a chosen End that completes has executed (`ChosenLive`: here the analysis meets
  the execution), and whatever is shown is shown for a chosen End (`ShownChosen`).
* `FlushIsEmpty`: `Spec => []NothingToFlush`. When every unit is done, an End that is current has been
  chosen, so it executed; no event is left, so its own completion was heard and forced it (`DoneHeard`);
  a forced End can always be shown, so the consumer would not have left off (`Settled`). The flush
  therefore finds no current End, also in a resumed stream.

`Dependencies` is a recursive function over the graph. That it satisfies its equation for every
workflow, and what it says of each node, is not by structural induction, which is out of reach, but by
the form of acyclicity in `IsValid`: if some node were wrong, the set of wrong nodes would have one none
of whose predecessors is wrong. The assumption is what the code establishes before it streams:
the validator wants one entry and no cycle (validator.py:148-223), the builder keeps the nodes that
can be reached (graph_builder.py:571-577), and the editor labels the edges of routing nodes
(useWorkflowGraph.ts:1859-1900); a workflow imported with other labels is not covered.

### Iterations and loops

`CycleNodeProofs.tla`, for any subgraph, list, batch width, error mode and number of side writes:

* `Isolation`: `Spec => []RunsIsolated`, and `NoTrace`: `Spec => []FailureLeavesNoTrace`. The
  inductive invariant `Provenance` says where the entries of every pool come from: the other
  branch, the run itself, or a successful run that has been counted. A run of the current batch and
  a failed run are neither for anybody else.
* `LastRunKept`: `Spec => []LastOfBatchKept`, and `OtherBranchKept`: `Spec => []SideWritesKept`. `KeptInv`
  says that what the parent has shown once for good is also in every copy taken since, so that
  replacing the whole list by a copy cannot lose it.
* `BranchesChosen`: `Spec => []RunsWhatWasChosen`, from where each activation comes; `BreakEnds`:
  `Spec => []NothingAfterStop`, from `looping` being false once a break has been counted.
* `OutputsInOrder`: `Spec => []OutputsMatchItems`, and `CycleTypeCorrect`: `Spec => []TypeOK`. They are
  about a list filtered and extended batch by batch. `NewOutputs` is a recursive function, and the
  lemmas about it are proved by the least index at which they would fail; no induction theorem with an operator as parameter is used.

### Only model-checked

* Every liveness property: `EveryMessageWritten`, `ActiveUserServed`, `EveryMessageConsumed`,
  `OrphanFreed`, `DueServed`, `Answered`, `NodeEnds`. They need fairness and ENABLED, which are out of
  the prover's reach.
* `AnswerExact` and `ResumedExact`: they compare whole texts, flattened sequences of sequences defined
  by folds of the library.

## 8. What is left out

* Scheduler: the health endpoint; a malformed entry of a list (`_process_batch` drops it, `push_task`
  never writes one); the Redis client's own resending of a command whose reply was lost; a
  task delivered twice by the broker (acks_late, visibility timeout).
* Dispatcher: the gate on the app's memory setting, the RAG storage type, creation of conversations
  (one statement after another in one API process), blank messages (skipped before they get a
  number), context windows, a flush without any connection to Redis (it does nothing).
* Order of pushes: the sliding window and a flush may push two messages of a user in the opposite
  order of their numbers; the code promises nothing else.
* Lock: the reconnection of a client object; the deduplications are bounded by `MaxDedups` (one a
  day in the code).
* Stream: errors of models without error handling (the workflow fails), empty templates, more
  than one intervention, the stream of `sys`, subgraphs of iterations and loops (`CycleNode`), the node
  cache, the executor without streaming.
* Cycles: cycles within cycles, flattening, the cycle_item events, `__child_state`, interventions within
  a cycle; a loop's conditions are reduced to a limit of its counter. A parallel_count of 0 would
  never advance; the front end's slider starts at 1.
* Memory write pipeline, forgetting, clustering and reflection engines: what they do is decided by
  models, embeddings and real-valued formulas; as processes they are one sequence of calls.
* The other components are I/O around a database, a browser or a process, with reasons in PROJECT.json.

### Protocols that do not take place

Two components have a protocol in the code that never comes about, so that a model of it would
describe another program:

* Human intervention. `run_stream` closes its session before it starts to stream
  (workflow_service.py:4452), which detaches the execution; the later assignments of the status
  "waiting_human" and their commits write nothing, and the endpoints that take an answer refuse it
  because the stored status is another. The race of answer and timeout in
  `intervention_registry.py` therefore cannot be observed. `StreamOutput` models the interruption
  and the resumed stream, as they would be with the row stored.
* Workflow triggers. `update_release_trigger_runtime_state` (workflow_service.py:336) and
  `update_trigger_runtime` (workflow_repository.py:112) change a node that the old and the new
  configuration share, so the comparison at the flush finds them equal and no UPDATE is sent. The lease
  and the last run of a trigger are never stored: a trigger that is due is fired by every scan.

### Disagreements that no run shows

* loop.py:157-163 calls the condition the one to continue; `run` (loop.py:244) goes on while it
  is false. The front end presents it as the condition to end.
* stream_output_coordinator.py:466-469 promises that the flush shows all output. When a chunk
  arrives for a later variable of the template, the variables before it are passed for good, without a
  value if it is not in the pool yet (event_stream_handler.py:183). A template that names a model before
  one that runs earlier loses the first one's text in every run (`Reversed` in MCStreamOutput; TLC finds
  it if `Passing` is dropped from `AnswerExact`), one that names two parallel models may lose it.
* What a client is shown of a model is what it streams, not what it returns (llm/node.py:1022-1118); the
  text differs from the template's values in four cases, which `Verbatim` excludes from `AnswerExact`. With a stop
  sequence, the chunk that completes it is not streamed while the pool keeps its beginning, and
  earlier chunks may hold the beginning of the sequence. After streaming, think tags and stop sequences are
  taken out of the response. Reasoning between think tags comes as output and never as reasoning.
  And where a template shows the reasoning before the output, output that arrives before the
  reasoning is done (in the same chunks, or because no reasoning comes at all) meets the cursor at
  the wrong field and is dropped (event_stream_handler.py:193-199); the two done events then mark both as
  streamed, so the value in the pool is not shown either and the output never reaches the client
  (`Thinking` in MCStreamOutput; TLC finds it if `Verbatim` is dropped from `AnswerExact`).
* An End that becomes active while its model writes loses what was written before; a variable's
  second reference is left out once its scope has been streamed; a retry after part of
  a stream repeats text. `InTemplateOrder` allows them, `AnswerExact` excludes the cases.
* A resumed stream takes the outputs of all nodes completed before the intervention for shown
  (workflow_service.py:6433-6464); `ResumedExact` says so.
* tasks.py:2364 has a deduplication wait for 120 s lest reflections push it aside.
  ACQUIRE_SCRIPT purges with the caller's own timeout, so a reflection (30 s) removes a deduplication
  that has waited for 60 s; `NoOvertaking` says how far the order holds.
* tasks.py:2190 and 2363 take the lock against the write pipeline, which never takes it.
* memory_api_service.py:186 pushes its task with an argument "mode" that write_message_task
  (tasks.py:1750) does not have.

## 9. Plan

1. Done: TaskScheduler, SerialQueue, SchedulerRefinement, MemoryDispatch, FairLock, StreamOutput,
   CycleNode; proofs of all their safety properties but those of the list at the end of section 7.
2. An abstract outbox (messages accepted, claimed, pushed) that MemoryDispatch implements.
3. Once executions are stored as waiting and trigger leases as taken: the two protocols above.
