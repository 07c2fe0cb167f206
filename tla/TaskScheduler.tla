---------------------------- MODULE TaskScheduler ----------------------------
(***************************************************************************)
(* The Redis task scheduler of src/api/app/celery_task_scheduler.py: API    *)
(* processes push write tasks on a list per user; scheduler instances       *)
(* share the users by hash, lock a user, send the head of his list to       *)
(* Celery, record the task, pop the list, and release the user when the     *)
(* task's result appears.                                                   *)
(*                                                                          *)
(* One step is one round trip to Redis (one command, one MULTI pipeline or  *)
(* one Lua script) or to the broker; everything between two round trips is  *)
(* local to an instance.  The only task name the repository pushes is       *)
(* write_message, so a lock key (task name : user) stands for the user.     *)
(***************************************************************************)
EXTENDS Integers, Sequences, FiniteSets

CONSTANTS
  Users,        \* end users, the sharding key
  Msgs,         \* the messages pushed in a behaviour (msg_id)
  UserOf,       \* the user of each message
  Instances,    \* scheduler instances; their order is that of the instance ids
  Hash,         \* stable_hash of each user
  MaxSends,     \* bound: tasks sent to Celery for one message
  Faults,       \* the kinds of fault that may happen, of FaultKinds
  MaxFaults,    \* bound: faults in a behaviour
  Free,         \* value of a lock key that does not exist
  Dispatching   \* value of a lock key between the Lua script and the commit

FaultKinds == {"crash",   \* an instance dies and is restarted
               "abort",   \* a Redis call raises: the loop iteration is abandoned
               "send",    \* send_task raises
               "commit",  \* the post-dispatch pipeline fails without effect
               "reply",   \* it takes effect and its reply is lost
               "push",    \* push_task stops between its pipeline and its signal
               "ttl",     \* a lock key expires under an unfinished task
               "lapse",   \* a live instance lets its registration lapse
               "age",     \* an unstarted task is older than TASK_TIMEOUT
               "result",  \* a result expires before anyone has read it
               "day"}     \* a tracker is a day old: no mishap, but counted as one

\* A task id: the message and how many tasks have been sent for it.
Tasks == Msgs \X (1 .. MaxSends)

ASSUME ConstantAssumption ==
  /\ UserOf \in [Msgs -> Users]
  /\ Instances \subseteq Nat /\ IsFiniteSet(Instances)
  /\ Hash \in [Users -> Nat]
  /\ MaxSends \in Nat \ {0} /\ MaxFaults \in Nat
  /\ Faults \subseteq FaultKinds
  /\ Free # Dispatching /\ {Free, Dispatching} \cap Tasks = {}

VARIABLES
  queue,     \* scheduler:uq:{user}, the list of each user
  active,    \* scheduler:active_users
  ready,     \* scheduler:ready_users
  lock,      \* {task_name}:{user}: Free, Dispatching or a task id
  dlock,     \* the messages whose dispatch:{msg_id} exists
  pending,   \* the task ids of scheduler:pending_tasks
  tracker,   \* task_tracker:{msg_id}: status and task id (the message's k-th)
  registry,  \* scheduler:instances
  task,      \* Celery: the state of each task
  caller,    \* per message, where its push_task stands
  faults,    \* how many faults have happened
  \* the local state of each instance:
  pc,        \* its next round trip
  view,      \* the instances it last saw alive
  fin,       \* tasks that are over, their lock still to be deleted
  gone,      \* those whose lock has been dealt with
  batch,     \* users taken from READY, then those of them without a message
  heads,     \* candidate messages still to dispatch
  cur        \* the message in dispatch and which of its tasks has been sent

queueVars == <<queue, active, ready>>
keyVars   == <<lock, dlock, pending, tracker>>
otherVars == <<registry, task, caller>>
cleanVars == <<fin, gone>>
batchVars == <<batch, heads, cur>>
instVars  == <<pc, view, cleanVars, batchVars>>
vars == <<queueVars, keyVars, otherVars, faults, instVars>>

Labels   == {"down", "loop", "delete", "forget", "signal", "take", "srem", "heads",
             "drop", "dispatch", "send", "commit", "recommit", "pop", "requeue"}
Live     == {"queued", "running"}
Statuses == {"NOT_FOUND", "QUEUED", "DISPATCHED", "FINISHED", "EXPIRED"}

\* What cleanup has found out about a task: its id and its final status.
Outcomes == Tasks \X {"FINISHED", "EXPIRED"}

TypeOK ==
  /\ queue \in [Users -> Seq(Msgs)]
  /\ active \subseteq Users /\ ready \subseteq Users
  /\ lock \in [Users -> Tasks \cup {Free, Dispatching}]
  /\ dlock \subseteq Msgs /\ pending \subseteq Tasks
  /\ tracker \in [Msgs -> Statuses \X (0 .. MaxSends)]
  /\ registry \subseteq Instances
  /\ task \in [Tasks -> {"none", "finished", "forgotten"} \cup Live]
  /\ caller \in [Msgs -> {"new", "check", "signal", "done"}]
  /\ faults \in 0 .. MaxFaults
  /\ pc \in [Instances -> Labels]
  /\ view \in [Instances -> SUBSET Instances]
  /\ fin \in [Instances -> SUBSET Outcomes]
  /\ gone \in [Instances -> SUBSET Outcomes]
  /\ batch \in [Instances -> SUBSET Users]
  /\ heads \in [Instances -> SUBSET Msgs]
  /\ cur \in [Instances -> (Msgs \X (0 .. MaxSends)) \cup {<<>>}]

Init ==
  /\ queue = [u \in Users |-> <<>>] /\ active = {} /\ ready = {}
  /\ lock = [u \in Users |-> Free] /\ dlock = {} /\ pending = {}
  /\ tracker = [m \in Msgs |-> <<"NOT_FOUND", 0>>]
  /\ registry = {}
  /\ task = [t \in Tasks |-> "none"]
  /\ caller = [m \in Msgs |-> "new"]
  /\ faults = 0
  /\ pc = [i \in Instances |-> "loop"]
  /\ view = [i \in Instances |-> {}]
  /\ fin = [i \in Instances |-> {}] /\ gone = [i \in Instances |-> {}]
  /\ batch = [i \in Instances |-> {}] /\ heads = [i \in Instances |-> {}]
  /\ cur = [i \in Instances |-> <<>>]

-----------------------------------------------------------------------------
(* Helpers *)

UserOfTask(t) == UserOf[t[1]]
IsLive(t)     == task[t] \in Live
Sent(m)       == \E k \in 1 .. MaxSends : task[<<m, k>>] # "none"
Queued(m)     == \E n \in DOMAIN queue[UserOf[m]] : queue[UserOf[m]][n] = m

\* One of the bounded number of faults happens now.
Fault(kind) == kind \in Faults /\ faults < MaxFaults /\ faults' = faults + 1

\* _is_mine: an instance that knows of no other one owns every user.
IsMine(i, u) ==
  \/ Cardinality(view[i]) <= 1
  \/ Hash[u] % Cardinality(view[i]) = Cardinality({j \in view[i] : j < i})

Goto(i, label) == pc' = [pc EXCEPT ![i] = label]

\* Instance i has taken the lock of u and not yet committed the dispatch.
InDispatch(i, u) ==
  pc[i] \in {"send", "commit", "recommit"} /\ UserOfTask(cur[i]) = u

-----------------------------------------------------------------------------
(* push_task, run by an API process or a Celery worker *)

\* Mutant: LPUSH instead of RPUSH.
PushFront(m) ==
  /\ caller[m] = "new"
  /\ caller' = [caller EXCEPT ![m] = "check"]
  /\ queue' = [queue EXCEPT ![UserOf[m]] = <<m>> \o @]
  /\ active' = active \cup {UserOf[m]}
  /\ tracker' = [tracker EXCEPT ![m] = <<"QUEUED", 0>>]
  /\ UNCHANGED <<ready, lock, dlock, pending, registry, task, faults, instVars>>

\* The MULTI pipeline: RPUSH, SADD active, SET tracker.
Push(m) ==
  /\ caller[m] = "new"
  /\ caller' = [caller EXCEPT ![m] = "check"]
  /\ queue' = [queue EXCEPT ![UserOf[m]] = Append(@, m)]
  /\ active' = active \cup {UserOf[m]}
  /\ tracker' = [tracker EXCEPT ![m] = <<"QUEUED", 0>>]
  /\ UNCHANGED <<ready, lock, dlock, pending, registry, task, faults, instVars>>

\* Mutant: the test of the lock is inverted.
CheckLockInverted(m) ==
  /\ caller[m] = "check"
  /\ caller' = [caller EXCEPT
                  ![m] = IF lock[UserOf[m]] = Free THEN "done" ELSE "signal"]
  /\ UNCHANGED <<queueVars, keyVars, registry, task, faults, instVars>>

\* EXISTS lock_key: the user is signalled only when nobody holds his lock.
CheckLock(m) ==
  /\ caller[m] = "check"
  /\ caller' = [caller EXCEPT
                  ![m] = IF lock[UserOf[m]] = Free THEN "signal" ELSE "done"]
  /\ UNCHANGED <<queueVars, keyVars, registry, task, faults, instVars>>

\* SADD ready.
Signal(m) ==
  /\ caller[m] = "signal"
  /\ caller' = [caller EXCEPT ![m] = "done"]
  /\ ready' = ready \cup {UserOf[m]}
  /\ UNCHANGED <<queue, active, keyVars, registry, task, faults, instVars>>

\* The pushing process dies, or its next Redis call raises, after the pipeline.
PushDies(m) ==
  /\ caller[m] \in {"check", "signal"}
  /\ Fault("push")
  /\ caller' = [caller EXCEPT ![m] = "done"]
  /\ UNCHANGED <<queueVars, keyVars, registry, task, instVars>>

\* Mutant: a dispatched task without a result is not found.
TaskStatusOfResult(m) ==
  IF tracker[m][1] # "DISPATCHED" THEN tracker[m][1]
  ELSE CASE task[<<m, tracker[m][2]>>] = "running"  -> "STARTED"
         [] task[<<m, tracker[m][2]>>] = "finished" -> "FINISHED"
         [] OTHER                         -> "NOT_FOUND"

\* get_task_status: the tracker's status, refined by the task's result.
TaskStatus(m) ==
  LET status == tracker[m][1]
      meta   == task[<<m, tracker[m][2]>>]
  IN  CASE status = "DISPATCHED" /\ meta = "running"  -> "STARTED"
        [] status = "DISPATCHED" /\ meta = "finished" -> "FINISHED"
        [] OTHER                                      -> status

-----------------------------------------------------------------------------
(* schedule_loop, first part: _heartbeat and _cleanup_finished *)

\* Register, drop the entries that have lapsed (those of dead instances, or of one
\* held up for longer than INSTANCE_TTL), and keep the surviving ones as this
\* instance's view of the shards.
Heartbeat(i) ==
  /\ pc[i] = "loop"
  /\ \E dead \in SUBSET (registry \ {i}) :
       /\ registry' = (registry \cup {i}) \ dead
       /\ IF \A j \in dead : pc[j] = "down" THEN UNCHANGED faults ELSE Fault("lapse")
  /\ view' = [view EXCEPT ![i] = registry']
  /\ UNCHANGED <<queueVars, keyVars, task, caller, pc, cleanVars, batchVars>>

\* HSCAN pending and GET each result.  A task without a result, because it has
\* not started or because the result has expired, is given up once it is too old.
Collect(i) ==
  /\ pc[i] = "loop" /\ view[i] # {}
  /\ \E old \in SUBSET {t \in pending : task[t] \in {"queued", "forgotten"}} :
       LET finished == {t \in pending : task[t] = "finished"}
           over     == (finished \X {"FINISHED"}) \cup (old \X {"EXPIRED"})
       IN  /\ IF \E t \in old : task[t] = "queued" THEN Fault("age")
                                                   ELSE UNCHANGED faults
           /\ fin' = [fin EXCEPT ![i] = over]
           /\ Goto(i, IF over = {} THEN "take" ELSE "delete")
  /\ UNCHANGED <<queueVars, keyVars, otherVars, view, gone, batchVars>>

\* Mutant: DEL without comparing the lock with the task.
DeleteAnyway(i) ==
  /\ pc[i] = "delete"
  /\ \E r \in fin[i] :
       /\ lock' = [lock EXCEPT ![UserOfTask(r[1])] = Free]
       /\ fin' = [fin EXCEPT ![i] = @ \ {r}]
       /\ gone' = [gone EXCEPT ![i] = @ \cup {r}]
       /\ Goto(i, IF fin[i] = {r} THEN "forget" ELSE "delete")
  /\ UNCHANGED <<queueVars, dlock, pending, tracker, otherVars, faults, view, batchVars>>

\* LUA_SAFE_DELETE for one task that is over.
SafeDelete(i) ==
  /\ pc[i] = "delete"
  /\ \E r \in fin[i] :
       LET u == UserOfTask(r[1])
       IN  /\ lock' = IF lock[u] = r[1] THEN [lock EXCEPT ![u] = Free] ELSE lock
           /\ fin' = [fin EXCEPT ![i] = @ \ {r}]
           /\ gone' = [gone EXCEPT ![i] = @ \cup {r}]
           /\ Goto(i, IF fin[i] = {r} THEN "forget" ELSE "delete")
  /\ UNCHANGED <<queueVars, dlock, pending, tracker, otherVars, faults, view, batchVars>>

\* The safe delete raises: the loop logs it and leaves the task pending.
DeleteFails(i) ==
  /\ pc[i] = "delete"
  /\ Fault("abort")
  /\ \E r \in fin[i] :
       /\ fin' = [fin EXCEPT ![i] = @ \ {r}]
       /\ Goto(i, CASE fin[i] # {r}  -> "delete"
                    [] gone[i] # {}  -> "forget"
                    [] OTHER         -> "take")
  /\ UNCHANGED <<queueVars, keyVars, otherVars, view, gone, batchVars>>

\* cleanup_pipe: HDEL pending and the final status of each tracker.  When two tasks
\* of a message are over, the one written last stays.
ForgetFinished(i) ==
  /\ pc[i] = "forget"
  /\ pending' = pending \ {r[1] : r \in gone[i]}
  /\ \E last \in [{r[1][1] : r \in gone[i]} -> gone[i]] :
       /\ \A m \in DOMAIN last : last[m][1][1] = m
       /\ tracker' = [m \in Msgs |-> IF m \in DOMAIN last
                                     THEN <<last[m][2], last[m][1][2]>>
                                     ELSE tracker[m]]
  /\ Goto(i, "signal")
  /\ UNCHANGED <<queueVars, lock, dlock, otherVars, faults, view, cleanVars, batchVars>>

\* Mutant: nobody is signalled.
SignalNobody(i) ==
  /\ pc[i] = "signal"
  /\ gone' = [gone EXCEPT ![i] = {}]
  /\ Goto(i, "take")
  /\ UNCHANGED <<queueVars, keyVars, otherVars, faults, view, fin, batchVars>>

\* SADD ready for the users of these tasks.
SignalCleaned(i) ==
  /\ pc[i] = "signal"
  /\ ready' = ready \cup {UserOfTask(r[1]) : r \in gone[i]}
  /\ gone' = [gone EXCEPT ![i] = {}]
  /\ Goto(i, "take")
  /\ UNCHANGED <<queue, active, keyVars, otherVars, faults, view, fin, batchVars>>

-----------------------------------------------------------------------------
(* schedule_loop, second part: the ready users and _process_batch *)

\* SMEMBERS ready, filtered by _is_mine.
TakeReady(i) ==
  LET mine == {u \in ready : IsMine(i, u)}
  IN  /\ pc[i] = "take"
      /\ batch' = [batch EXCEPT ![i] = mine]
      /\ Goto(i, IF mine = {} THEN "loop" ELSE "srem")
      /\ UNCHANGED <<queueVars, keyVars, otherVars, faults, view, cleanVars, heads, cur>>

\* SREM ready.
RemoveReady(i) ==
  /\ pc[i] = "srem"
  /\ ready' = ready \ batch[i]
  /\ Goto(i, "heads")
  /\ UNCHANGED <<queue, active, keyVars, otherVars, faults, view, cleanVars, batchVars>>

\* Mutant: LPOP instead of LINDEX.
PopHeads(i) ==
  LET empty == {u \in batch[i] : queue[u] = <<>>}
  IN  /\ pc[i] = "heads"
      /\ heads' = [heads EXCEPT ![i] = {Head(queue[u]) : u \in batch[i] \ empty}]
      /\ queue' = [u \in Users |-> IF u \in batch[i] \ empty THEN Tail(queue[u])
                                                           ELSE queue[u]]
      /\ batch' = [batch EXCEPT ![i] = empty]
      /\ Goto(i, IF empty = {} THEN "dispatch" ELSE "drop")
      /\ UNCHANGED <<active, ready, keyVars, otherVars, faults, view, cleanVars, cur>>

\* LINDEX 0 of every user of the batch; batch keeps the users without a message.
ReadHeads(i) ==
  LET empty == {u \in batch[i] : queue[u] = <<>>}
  IN  /\ pc[i] = "heads"
      /\ heads' = [heads EXCEPT ![i] = {Head(queue[u]) : u \in batch[i] \ empty}]
      /\ batch' = [batch EXCEPT ![i] = empty]
      /\ Goto(i, IF empty = {} THEN "dispatch" ELSE "drop")
      /\ UNCHANGED <<queueVars, keyVars, otherVars, faults, view, cleanVars, cur>>

\* Where _process_batch goes on with the candidates that are left.
NextHead(rest) == IF rest = {} THEN "loop" ELSE "dispatch"

\* SREM active, of the users whose list was empty when it was read.
DropEmpty(i) ==
  /\ pc[i] = "drop"
  /\ active' = active \ batch[i]
  /\ batch' = [batch EXCEPT ![i] = {}]
  /\ Goto(i, NextHead(heads[i]))
  /\ UNCHANGED <<queue, ready, keyVars, otherVars, faults, view, cleanVars, heads, cur>>

\* Mutant: a refused dispatch counts as done, and its message is popped.
RefuseAndPop(i) ==
  /\ pc[i] = "dispatch"
  /\ \E m \in heads[i] :
       /\ m \in dlock \/ lock[UserOf[m]] # Free
       /\ heads' = [heads EXCEPT ![i] = @ \ {m}]
       /\ cur' = [cur EXCEPT ![i] = <<m, 0>>]
       /\ Goto(i, "pop")
  /\ UNCHANGED <<queueVars, keyVars, otherVars, faults, view, cleanVars, batch>>

\* LUA_ATOMIC_LOCK refuses a candidate whose dispatch key or whose user's lock exists.
Refuse(i) ==
  /\ pc[i] = "dispatch"
  /\ \E m \in heads[i] :
       /\ m \in dlock \/ lock[UserOf[m]] # Free
       /\ heads' = [heads EXCEPT ![i] = @ \ {m}]
       /\ Goto(i, NextHead(heads[i] \ {m}))
  /\ UNCHANGED <<queueVars, keyVars, otherVars, faults, view, cleanVars, batch, cur>>

\* Mutant: the script forgets to test the user's lock.
AcquireAnyway(i) ==
  /\ pc[i] = "dispatch"
  /\ \E m \in heads[i] :
       /\ m \notin dlock
       /\ lock' = [lock EXCEPT ![UserOf[m]] = Dispatching]
       /\ dlock' = dlock \cup {m}
       /\ heads' = [heads EXCEPT ![i] = @ \ {m}]
       /\ cur' = [cur EXCEPT ![i] = <<m, 0>>]
  /\ Goto(i, "send")
  /\ UNCHANGED <<queueVars, pending, tracker, otherVars, faults, view, cleanVars, batch>>

\* It locks both keys for another.
Acquire(i) ==
  /\ pc[i] = "dispatch"
  /\ \E m \in heads[i] :
       /\ m \notin dlock /\ lock[UserOf[m]] = Free
       /\ lock' = [lock EXCEPT ![UserOf[m]] = Dispatching]
       /\ dlock' = dlock \cup {m}
       /\ heads' = [heads EXCEPT ![i] = @ \ {m}]
       /\ cur' = [cur EXCEPT ![i] = <<m, 0>>]
  /\ Goto(i, "send")
  /\ UNCHANGED <<queueVars, pending, tracker, otherVars, faults, view, cleanVars, batch>>

\* send_task: a task with a fresh id is in the broker.
Send(i) ==
  LET m == cur[i][1]
  IN  /\ pc[i] = "send"
      /\ \E k \in 1 .. MaxSends :
           /\ task[<<m, k>>] = "none"
           /\ \A n \in 1 .. (k - 1) : task[<<m, n>>] # "none"
           /\ task' = [task EXCEPT ![<<m, k>>] = "queued"]
           /\ cur' = [cur EXCEPT ![i] = <<m, k>>]
      /\ Goto(i, "commit")
      /\ UNCHANGED <<queueVars, keyVars, registry, caller, faults, view, cleanVars,
                     batch, heads>>

\* send_task raises: DEL of both keys, unconditionally; the user stays out of READY.
SendFails(i) ==
  /\ pc[i] = "send"
  /\ Fault("send")
  /\ lock' = [lock EXCEPT ![UserOfTask(cur[i])] = Free]
  /\ dlock' = dlock \ {cur[i][1]}
  /\ cur' = [cur EXCEPT ![i] = <<>>]
  /\ Goto(i, NextHead(heads[i]))
  /\ UNCHANGED <<queueVars, pending, tracker, otherVars, view, cleanVars, batch, heads>>

\* Mutant: the lock gets the message id instead of the task id.
WriteMessageId(t) ==
  /\ lock' = [lock EXCEPT ![UserOfTask(t)] = t[1]]
  /\ pending' = pending \cup {t}
  /\ dlock' = dlock \ {t[1]}
  /\ tracker' = [tracker EXCEPT ![t[1]] = <<"DISPATCHED", t[2]>>]

\* Mutant: the HSET of pending_tasks is missing.
WriteUnwatched(t) ==
  /\ lock' = [lock EXCEPT ![UserOfTask(t)] = t]
  /\ dlock' = dlock \ {t[1]}
  /\ tracker' = [tracker EXCEPT ![t[1]] = <<"DISPATCHED", t[2]>>]
  /\ UNCHANGED pending

\* What _commit_post_dispatch writes, in one pipeline.
WriteDispatch(t) ==
  /\ lock' = [lock EXCEPT ![UserOfTask(t)] = t]
  /\ pending' = pending \cup {t}
  /\ dlock' = dlock \ {t[1]}
  /\ tracker' = [tracker EXCEPT ![t[1]] = <<"DISPATCHED", t[2]>>]

\* The first or the second attempt succeeds.
Commit(i) ==
  /\ pc[i] \in {"commit", "recommit"}
  /\ WriteDispatch(cur[i])
  /\ Goto(i, "pop")
  /\ UNCHANGED <<queueVars, otherVars, faults, view, cleanVars, batchVars>>

\* An attempt raises, without effect or after it; after two the dispatch counts as
\* done all the same.
CommitFails(i) ==
  /\ pc[i] \in {"commit", "recommit"}
  /\ \/ Fault("commit") /\ UNCHANGED keyVars
     \/ Fault("reply") /\ WriteDispatch(cur[i])
  /\ Goto(i, IF pc[i] = "commit" THEN "recommit" ELSE "pop")
  /\ UNCHANGED <<queueVars, otherVars, view, cleanVars, batchVars>>

\* LPOP: whatever is at the head by now.
Pop(i) ==
  /\ pc[i] = "pop"
  /\ queue' = [queue EXCEPT ![UserOfTask(cur[i])] = IF @ = <<>> THEN @ ELSE Tail(@)]
  /\ Goto(i, "requeue")
  /\ UNCHANGED <<active, ready, keyVars, otherVars, faults, view, cleanVars, batchVars>>

\* LLEN and SADD ready: a user with more messages is looked at again.
Requeue(i) ==
  LET u == UserOfTask(cur[i])
  IN  /\ pc[i] = "requeue"
      /\ ready' = IF queue[u] # <<>> THEN ready \cup {u} ELSE ready
      /\ cur' = [cur EXCEPT ![i] = <<>>]
      /\ Goto(i, NextHead(heads[i]))
      /\ UNCHANGED <<queue, active, keyVars, otherVars, faults, view, cleanVars,
                     batch, heads>>

-----------------------------------------------------------------------------
(* run_server: the full scan, failures and restarts *)

\* Mutant: the full scan takes the users whose lock exists.
ScanLocked(i) ==
  /\ pc[i] = "loop" /\ view[i] # {}
  /\ ready' = ready \cup {u \in active : IsMine(i, u) /\ queue[u] # <<>> /\ lock[u] # Free}
  /\ UNCHANGED <<queue, active, keyVars, otherVars, faults, instVars>>

\* _full_scan: the active users of this shard with a message and no lock are ready.
\* Its reads and its SADD are one step: a user signalled in vain is only looked at.
FullScan(i) ==
  /\ pc[i] = "loop" /\ view[i] # {}
  /\ ready' = ready \cup {u \in active : /\ IsMine(i, u)
                                         /\ queue[u] # <<>>
                                         /\ lock[u] = Free}
  /\ UNCHANGED <<queue, active, keyVars, otherVars, faults, instVars>>

\* An iteration ends and its local variables with it; the view of the shards stays.
Drop(i) ==
  /\ fin' = [fin EXCEPT ![i] = {}] /\ gone' = [gone EXCEPT ![i] = {}]
  /\ batch' = [batch EXCEPT ![i] = {}] /\ heads' = [heads EXCEPT ![i] = {}]
  /\ cur' = [cur EXCEPT ![i] = <<>>]

\* A Redis call raises outside the handlers of _dispatch and _cleanup_finished: the
\* iteration's local state is gone, what it wrote to Redis stays.
Abort(i) ==
  /\ pc[i] \notin {"down", "loop", "delete", "commit", "recommit"}
  /\ Fault("abort")
  /\ Goto(i, "loop") /\ Drop(i)
  /\ UNCHANGED <<queueVars, keyVars, otherVars, view>>

\* The process dies, or stops on SIGTERM, which first drops its registration.
Stop(i) ==
  /\ pc[i] # "down"
  /\ Fault("crash")
  /\ Goto(i, "down") /\ Drop(i)
  /\ view' = [view EXCEPT ![i] = {}]
  /\ registry' \in {registry, registry \ {i}}
  /\ UNCHANGED <<queueVars, keyVars, task, caller>>

\* restart: unless-stopped.
Restart(i) ==
  /\ pc[i] = "down"
  /\ Goto(i, "loop")
  /\ UNCHANGED <<queueVars, keyVars, otherVars, faults, view, cleanVars, batchVars>>

-----------------------------------------------------------------------------
(* Celery workers and Redis expiry *)

\* A worker starts a task (task_track_started writes a STARTED result), ...
Start(t) ==
  /\ task[t] = "queued"
  /\ task' = [task EXCEPT ![t] = "running"]
  /\ UNCHANGED <<queueVars, keyVars, registry, caller, faults, instVars>>

\* ... stores its result, SUCCESS or FAILURE, ...
Finish(t) ==
  /\ task[t] = "running"
  /\ task' = [task EXCEPT ![t] = "finished"]
  /\ UNCHANGED <<queueVars, keyVars, registry, caller, faults, instVars>>

\* ... which result_expires removes before any instance has cleaned up.
ResultExpires(t) ==
  /\ task[t] = "finished"
  /\ Fault("result")
  /\ task' = [task EXCEPT ![t] = "forgotten"]
  /\ UNCHANGED <<queueVars, keyVars, registry, caller, instVars>>

\* A lock lives for an hour, which is also task_time_limit: it outlives the dispatch
\* in progress, and the task unless that has waited in the broker first or runs on a
\* thread pool, where no limit stops it.
ExpireLock(u) ==
  /\ lock[u] # Free
  /\ \A i \in Instances : ~InDispatch(i, u)
  /\ IF \A t \in Tasks : UserOfTask(t) = u => ~IsLive(t)
     THEN UNCHANGED faults ELSE Fault("ttl")
  /\ lock' = [lock EXCEPT ![u] = Free]
  /\ UNCHANGED <<queueVars, dlock, pending, tracker, otherVars, instVars>>

\* The dispatch key that a dead or failed dispatch has left behind.
ExpireDispatchLock(m) ==
  /\ m \in dlock
  /\ \A i \in Instances : ~(InDispatch(i, UserOf[m]) /\ cur[i][1] = m)
  /\ dlock' = dlock \ {m}
  /\ UNCHANGED <<queueVars, lock, pending, tracker, otherVars, faults, instVars>>

\* A tracker lives for a day after it was last written, whatever its status; then
\* get_task_status knows nothing of the message.  Nobody stands in push_task so long.
ExpireTracker(m) ==
  /\ tracker[m][1] # "NOT_FOUND" /\ caller[m] = "done"
  /\ Fault("day")
  /\ tracker' = [tracker EXCEPT ![m] = <<"NOT_FOUND", 0>>]
  /\ UNCHANGED <<queueVars, lock, dlock, pending, otherVars, instVars>>

-----------------------------------------------------------------------------

PushTask(m) == Push(m) \/ CheckLock(m) \/ Signal(m) \/ PushDies(m)

\* One iteration of run_server, step by step.
Iterate(i) ==
  \/ Collect(i) \/ SafeDelete(i) \/ ForgetFinished(i) \/ SignalCleaned(i)
  \/ TakeReady(i) \/ RemoveReady(i) \/ ReadHeads(i) \/ DropEmpty(i) \/ Refuse(i)
  \/ Acquire(i) \/ Send(i) \/ Commit(i) \/ Pop(i) \/ Requeue(i)

Fail(i) ==
  DeleteFails(i) \/ SendFails(i) \/ CommitFails(i) \/ Abort(i) \/ Stop(i)

Worker(t) == Start(t) \/ Finish(t) \/ ResultExpires(t)

Next ==
  \/ \E m \in Msgs : PushTask(m) \/ ExpireDispatchLock(m) \/ ExpireTracker(m)
  \/ \E i \in Instances : \/ Heartbeat(i) \/ Iterate(i) \/ FullScan(i)
                          \/ Fail(i) \/ Restart(i)
  \/ \E t \in Tasks : Worker(t)
  \/ \E u \in Users : ExpireLock(u)

Spec == Init /\ [][Next]_vars

-----------------------------------------------------------------------------
(* Properties *)

\* Mutual exclusion: Celery never holds two unfinished write tasks of one user, however
\* the instances' shards overlap and wherever they stop.  This is what the lock key,
\* the Lua scripts and the compare-and-delete of cleanup are for.
OneTaskPerUser ==
  \A t1, t2 \in Tasks :
    IsLive(t1) /\ IsLive(t2) /\ UserOfTask(t1) = UserOfTask(t2) => t1 = t2

\* A lock that names a task is in pending_tasks too, so that cleanup will find the
\* task and release the user: no user is blocked until the TTL by a lock whose task
\* nobody watches.
NamedLockIsWatched ==
  \A u \in Users : lock[u] \in Tasks => lock[u] \in pending

\* With one instance, however often it stops and restarts, no message is lost: until
\* it has been sent, it is in its user's list.
NoMessageLost ==
  \A m \in Msgs : caller[m] # "new" /\ ~Sent(m) => Queued(m)

\* A user's messages are first sent in the order of his list: only
\* the head of a list may have been sent already.
SentInOrder ==
  \A u \in Users : \A n \in 2 .. Len(queue[u]) : ~Sent(queue[u][n])

Rank(status) ==
  CASE status = "NOT_FOUND" -> 0 [] status = "QUEUED" -> 1
    [] status = "DISPATCHED" -> 2 [] status = "STARTED" -> 3 [] OTHER -> 4

\* What get_task_status reports of a message never goes back, though it is put together
\* from a tracker that several steps overwrite and from a result that may disappear.
\* Three things start it over: another task for the message, a result that expires
\* before cleanup has read it, and the end of the day that the tracker itself lives.
StatusNeverGoesBack ==
  [][\A m \in Msgs : \/ Rank(TaskStatus(m)) <= Rank(TaskStatus(m)')
                     \/ tracker[m][2] # 0 /\ tracker'[m][2] \notin {0, tracker[m][2]}
                     \/ /\ tracker[m][1] = "DISPATCHED"
                        /\ task'[<<m, tracker[m][2]>>] = "forgotten"
                     \/ ExpireTracker(m)]_vars

\* Instance i will still look at user u in its present iteration.
WillLookAt(i, u) ==
  \/ pc[i] \in {"srem", "heads"} /\ u \in batch[i]
  \/ \E m \in heads[i] : UserOf[m] = u
  \/ pc[i] \in {"send", "commit", "recommit", "pop", "requeue"} /\ UserOfTask(cur[i]) = u

\* No missed wake-up: while a user has a message, somebody is about to look at him
\* without the help of the full scan: he is in READY, his pusher is about to decide, an
\* instance has him in its batch, or the end of a watched task of his will signal him.
NoMissedWakeup ==
  \A u \in Users : queue[u] # <<>> =>
    \/ u \in ready
    \/ \E m \in Msgs : UserOf[m] = u /\ caller[m] \in {"check", "signal"}
    \/ \E i \in Instances : WillLookAt(i, u)
    \/ \E t \in pending : UserOfTask(t) = u
    \/ \E i \in Instances : \E r \in gone[i] : UserOfTask(r[1]) = u

\* "User Collection of Pending Messages": the users with a message are in ACTIVE_USERS.
ActiveCoversQueued ==
  \A u \in Users : queue[u] # <<>> => u \in active

\* Overlapping shards can send the head of a list twice and then pop a message that
\* was never sent, but no list loses more messages than Celery gets duplicates.
LossNeedsDuplicate ==
  LET lost       == {m \in Msgs : caller[m] # "new" /\ ~Sent(m) /\ ~Queued(m)}
      duplicates == {t \in Tasks : t[2] > 1 /\ task[t] # "none"}
  IN  Cardinality(lost) <= Cardinality(duplicates)

\* Every pushed message is written and reported so, for as long as its tracker lives, by
\* the signals alone: the full scan is not needed while nothing fails.
EveryMessageWritten ==
  \A m \in Msgs : caller[m] = "check" ~> TaskStatus(m) = "FINISHED"

\* Whatever fails, the full scan serves a user with a message who is still in
\* ACTIVE_USERS, once the locks that failures left behind have expired.
ActiveUserServed ==
  \A u \in Users : (queue[u] # <<>> /\ u \in active)
                     ~> (queue[u] = <<>> \/ u \notin active)

\* The process supervisor restarts instances, an instance's loop goes on, workers take
\* and finish tasks, a pusher goes on, and Redis expires what nobody refreshes.
Fairness ==
  /\ \A i \in Instances : /\ WF_vars(Heartbeat(i)) /\ WF_vars(Iterate(i))
                          /\ WF_vars(Restart(i))
  /\ \A t \in Tasks : WF_vars(Start(t)) /\ WF_vars(Finish(t))
  /\ \A m \in Msgs : /\ WF_vars(CheckLock(m)) /\ WF_vars(Signal(m))
                     /\ WF_vars(ExpireDispatchLock(m))
  /\ \A u \in Users : WF_vars(ExpireLock(u))

FairSpec == Spec /\ Fairness

\* run_server also runs the full scan, between two iterations, every 30 s.
ScanSpec == FairSpec /\ \A i \in Instances : SF_vars(FullScan(i))

=============================================================================
