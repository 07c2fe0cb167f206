------------------------ MODULE TaskSchedulerProofs ------------------------
(***************************************************************************)
(* Theorems about TaskScheduler, for any numbers of users, messages,        *)
(* instances and faults.                                                    *)
(***************************************************************************)
EXTENDS TaskScheduler, TLAPS

\* The message in dispatch is known, and so is its task once it has been sent.
CurKnown ==
  \A i \in Instances :
    /\ pc[i] = "send" => cur[i] \in Msgs \X (0 .. MaxSends)
    /\ pc[i] \in {"commit", "recommit", "pop", "requeue"} => cur[i] \in Tasks

TypeInv == TypeOK /\ CurKnown

-----------------------------------------------------------------------------
(* Types *)

\* The head of a list is one of its elements.
LEMMA HeadInSet ==
  ASSUME NEW S, NEW q \in Seq(S), q # <<>> PROVE Head(q) \in S
OBVIOUS

\* The rest of a list has the same elements.
LEMMA TailInSeq ==
  ASSUME NEW S, NEW q \in Seq(S), q # <<>> PROVE Tail(q) \in Seq(S)
OBVIOUS

\* The types hold at the start.
LEMMA TypeInit == Init => TypeInv
<1> SUFFICES ASSUME Init PROVE TypeInv
  OBVIOUS
<1> USE ConstantAssumption DEF Init
<1>1. TypeOK
  BY DEF TypeOK, Statuses, Labels
<1>2. CurKnown
  BY DEF CurKnown
<1> QED
  BY <1>1, <1>2 DEF TypeInv

\* The budget of faults is never exceeded.
LEMMA FaultType == ASSUME TypeOK, NEW kind, Fault(kind) PROVE faults' \in 0 .. MaxFaults
BY ConstantAssumption DEF TypeOK, Fault

\* Pushing keeps the types.
LEMMA TypePush == ASSUME TypeInv, NEW m \in Msgs, PushTask(m) PROVE TypeInv'
<1> USE ConstantAssumption DEF TypeInv, TypeOK, CurKnown, queueVars, keyVars,
                               instVars, cleanVars, batchVars
<1>1. CASE Push(m)
  <2>1. queue' \in [Users -> Seq(Msgs)]
    BY <1>1 DEF Push
  <2>2. tracker' \in [Msgs -> Statuses \X (0 .. MaxSends)]
    BY <1>1 DEF Push, Statuses
  <2>3. caller' \in [Msgs -> {"new", "check", "signal", "done"}] /\ active' \subseteq Users
    BY <1>1 DEF Push
  <2>4. UNCHANGED <<ready, lock, dlock, pending, registry, task, faults, instVars>>
    BY <1>1 DEF Push
  <2> QED
    BY <2>1, <2>2, <2>3, <2>4
<1>2. CASE CheckLock(m)
  BY <1>2 DEF CheckLock
<1>3. CASE Signal(m)
  BY <1>3 DEF Signal
<1>4. CASE PushDies(m)
  <2>1. faults' \in 0 .. MaxFaults
    BY <1>4, FaultType DEF PushDies
  <2> QED
    BY <1>4, <2>1 DEF PushDies
<1> QED
  BY <1>1, <1>2, <1>3, <1>4 DEF PushTask

\* _heartbeat and _cleanup_finished.
LEMMA TypeCleanup ==
  ASSUME TypeInv, NEW i \in Instances,
         \/ Heartbeat(i) \/ Collect(i) \/ SafeDelete(i) \/ DeleteFails(i)
         \/ ForgetFinished(i) \/ SignalCleaned(i)
  PROVE  TypeInv'
<1> USE DEF TypeInv, TypeOK, CurKnown, queueVars, keyVars, otherVars, instVars, cleanVars,
            batchVars, Goto, Labels
<1>1. CASE Heartbeat(i)
  <2>1. faults' \in 0 .. MaxFaults
    BY <1>1, FaultType DEF Heartbeat
  <2> QED
    BY <1>1, <2>1 DEF Heartbeat
<1>2. CASE Collect(i)
  <2>1. faults' \in 0 .. MaxFaults
    BY <1>2, FaultType DEF Collect
  <2>2. PICK old \in SUBSET pending, finished \in SUBSET pending :
          LET over == (finished \X {"FINISHED"}) \cup (old \X {"EXPIRED"})
          IN  /\ fin' = [fin EXCEPT ![i] = over]
              /\ Goto(i, IF over = {} THEN "take" ELSE "delete")
    BY <1>2 DEF Collect
  <2>3. (finished \X {"FINISHED"}) \cup (old \X {"EXPIRED"}) \subseteq Outcomes
    BY DEF Outcomes
  <2>4. fin' \in [Instances -> SUBSET Outcomes]
    BY <2>2, <2>3
  <2>5. pc' \in [Instances -> Labels] /\ pc'[i] \in {"take", "delete"}
    BY <2>2
  <2>6. \A j \in Instances \ {i} : pc'[j] = pc[j]
    BY <2>2
  <2>7. CurKnown'
    BY <1>2, <2>5, <2>6 DEF Collect
  <2> QED
    BY <1>2, <2>1, <2>4, <2>5, <2>7 DEF Collect
<1>3. CASE SafeDelete(i)
  <2>1. PICK r \in fin[i] :
          /\ lock' = IF lock[UserOfTask(r[1])] = r[1]
                     THEN [lock EXCEPT ![UserOfTask(r[1])] = Free] ELSE lock
          /\ fin' = [fin EXCEPT ![i] = @ \ {r}]
          /\ gone' = [gone EXCEPT ![i] = @ \cup {r}]
          /\ Goto(i, IF fin[i] = {r} THEN "forget" ELSE "delete")
    BY <1>3 DEF SafeDelete
  <2>2. r \in Outcomes
    OBVIOUS
  <2>3. lock' \in [Users -> Tasks \cup {Free, Dispatching}]
    BY <2>1
  <2> QED
    BY <1>3, <2>1, <2>2, <2>3 DEF SafeDelete
<1>4. CASE DeleteFails(i)
  <2>1. faults' \in 0 .. MaxFaults
    BY <1>4, FaultType DEF DeleteFails
  <2>2. PICK r \in fin[i] :
          /\ fin' = [fin EXCEPT ![i] = @ \ {r}]
          /\ \/ Goto(i, "delete") \/ Goto(i, "forget") \/ Goto(i, "take")
    BY <1>4 DEF DeleteFails
  <2> QED
    BY <1>4, <2>1, <2>2 DEF DeleteFails
<1>5. CASE ForgetFinished(i)
  <2>1. PICK last \in [{r[1][1] : r \in gone[i]} -> gone[i]] :
          tracker' = [m \in Msgs |-> IF m \in DOMAIN last
                                     THEN <<last[m][2], last[m][1][2]>>
                                     ELSE tracker[m]]
    BY <1>5, Zenon DEF ForgetFinished
  <2>2. \A m \in DOMAIN last : last[m] \in Outcomes
    BY <2>1
  <2>3. \A r \in Outcomes : r[2] \in Statuses /\ r[1][2] \in 0 .. MaxSends
    <3>1. \A t \in Tasks : t[2] \in 0 .. MaxSends
      BY ConstantAssumption DEF Tasks
    <3> QED
      BY <3>1 DEF Outcomes, Statuses
  <2>4. tracker' \in [Msgs -> Statuses \X (0 .. MaxSends)]
    BY <2>1, <2>2, <2>3
  <2> QED
    BY <1>5, <2>4 DEF ForgetFinished
<1>6. CASE SignalCleaned(i)
  <2>1. \A r \in gone[i] : UserOfTask(r[1]) \in Users
    BY ConstantAssumption DEF Outcomes, Tasks, UserOfTask
  <2> QED
    BY <1>6, <2>1 DEF SignalCleaned
<1> QED
  BY <1>1, <1>2, <1>3, <1>4, <1>5, <1>6

\* SMEMBERS ready to the end of _process_batch.
LEMMA TypeBatch ==
  ASSUME TypeInv, NEW i \in Instances,
         \/ TakeReady(i) \/ RemoveReady(i) \/ ReadHeads(i) \/ DropEmpty(i) \/ Refuse(i)
         \/ Acquire(i) \/ FullScan(i)
  PROVE  TypeInv'
<1> USE DEF TypeInv, TypeOK, CurKnown, queueVars, keyVars, otherVars, instVars, cleanVars,
            batchVars, Goto, Labels
<1>1. CASE TakeReady(i)
  BY <1>1 DEF TakeReady
<1>2. CASE RemoveReady(i)
  BY <1>2 DEF RemoveReady
<1>3. CASE ReadHeads(i)
  <2>1. {Head(queue[u]) : u \in batch[i] \ {u \in batch[i] : queue[u] = <<>>}} \subseteq Msgs
    BY HeadInSet
  <2> QED
    BY <1>3, <2>1 DEF ReadHeads
<1>4. CASE DropEmpty(i)
  BY <1>4 DEF DropEmpty, NextHead
<1>5. CASE Refuse(i)
  <2>1. PICK m \in heads[i] :
          /\ heads' = [heads EXCEPT ![i] = @ \ {m}]
          /\ Goto(i, NextHead(heads[i] \ {m}))
    BY <1>5 DEF Refuse
  <2> QED
    BY <1>5, <2>1 DEF Refuse, NextHead
<1>6. CASE Acquire(i)
  <2>1. PICK m \in heads[i] :
          /\ lock' = [lock EXCEPT ![UserOf[m]] = Dispatching]
          /\ dlock' = dlock \cup {m}
          /\ heads' = [heads EXCEPT ![i] = @ \ {m}]
          /\ cur' = [cur EXCEPT ![i] = <<m, 0>>]
    BY <1>6 DEF Acquire
  <2>2. <<m, 0>> \in Msgs \X (0 .. MaxSends)
    BY ConstantAssumption
  <2>3. lock' \in [Users -> Tasks \cup {Free, Dispatching}]
    BY <2>1
  <2>4. heads' \in [Instances -> SUBSET Msgs] /\ dlock' \subseteq Msgs
    BY <2>1
  <2>5. cur' \in [Instances -> (Msgs \X (0 .. MaxSends)) \cup {<<>>}]
    BY <2>1, <2>2
  <2>6. pc' \in [Instances -> Labels]
    BY <1>6 DEF Acquire
  <2>7. CurKnown'
    BY <1>6, <2>1, <2>2 DEF Acquire
  <2> QED
    BY <1>6, <2>3, <2>4, <2>5, <2>6, <2>7 DEF Acquire
<1>7. CASE FullScan(i)
  BY <1>7 DEF FullScan
<1> QED
  BY <1>1, <1>2, <1>3, <1>4, <1>5, <1>6, <1>7

\* _dispatch after the locks are taken, and what follows it.
LEMMA TypeDispatch ==
  ASSUME TypeInv, NEW i \in Instances,
         \/ Send(i) \/ SendFails(i) \/ Commit(i) \/ CommitFails(i) \/ Pop(i) \/ Requeue(i)
  PROVE  TypeInv'
<1> USE DEF TypeInv, TypeOK, CurKnown, queueVars, keyVars, otherVars, instVars, cleanVars,
            batchVars, Goto, Labels
<1>1. CASE Send(i)
  <2>1. PICK k \in 1 .. MaxSends :
          /\ task' = [task EXCEPT ![<<cur[i][1], k>>] = "queued"]
          /\ cur' = [cur EXCEPT ![i] = <<cur[i][1], k>>]
    BY <1>1 DEF Send
  <2>2. <<cur[i][1], k>> \in Tasks /\ <<cur[i][1], k>> \in Msgs \X (0 .. MaxSends)
    BY <1>1, ConstantAssumption DEF Send, Tasks
  <2>3. task' \in [Tasks -> {"none", "finished", "forgotten"} \cup Live]
    BY <2>1, <2>2 DEF Live
  <2>4. cur' \in [Instances -> (Msgs \X (0 .. MaxSends)) \cup {<<>>}]
    BY <2>1, <2>2
  <2>5. pc' \in [Instances -> Labels]
    BY <1>1 DEF Send
  <2>6. pc'[i] = "commit" /\ \A j \in Instances \ {i} : pc'[j] = pc[j]
    BY <1>1 DEF Send
  <2>7. cur'[i] \in Tasks /\ \A j \in Instances \ {i} : cur'[j] = cur[j]
    BY <2>1, <2>2
  <2>8. CurKnown'
    BY <2>6, <2>7
  <2>9. UNCHANGED <<queueVars, keyVars, registry, caller, faults, view, cleanVars, batch,
                    heads>>
    BY <1>1 DEF Send
  <2> QED
    BY <2>3, <2>4, <2>5, <2>8, <2>9
<1>2. CASE SendFails(i)
  <2>1. faults' \in 0 .. MaxFaults
    BY <1>2, FaultType DEF SendFails
  <2> QED
    BY <1>2, <2>1 DEF SendFails, NextHead
<1>3. CASE WriteDispatch(cur[i]) /\ (Commit(i) \/ CommitFails(i))
  <2>1. faults' \in 0 .. MaxFaults
    BY <1>3, FaultType DEF Commit, CommitFails
  <2>2. cur[i] \in Tasks
    BY <1>3 DEF Commit, CommitFails
  <2>3. cur[i][1] \in Msgs /\ cur[i][2] \in 0 .. MaxSends
    BY <2>2, ConstantAssumption DEF Tasks
  <2>4. tracker' \in [Msgs -> Statuses \X (0 .. MaxSends)]
    BY <1>3, <2>3 DEF WriteDispatch, Statuses
  <2>5. lock' \in [Users -> Tasks \cup {Free, Dispatching}]
    BY <1>3, <2>2 DEF WriteDispatch
  <2>6. dlock' \subseteq Msgs /\ pending' \subseteq Tasks
    BY <1>3, <2>2 DEF WriteDispatch
  <2>7. pc' \in [Instances -> Labels] /\ pc'[i] \in {"recommit", "pop"}
    BY <1>3 DEF Commit, CommitFails
  <2>8. \A j \in Instances \ {i} : pc'[j] = pc[j]
    BY <1>3 DEF Commit, CommitFails
  <2>9. CurKnown'
    BY <1>3, <2>2, <2>7, <2>8 DEF Commit, CommitFails
  <2> QED
    BY <1>3, <2>1, <2>4, <2>5, <2>6, <2>7, <2>9 DEF Commit, CommitFails
<1>4. CASE UNCHANGED keyVars /\ CommitFails(i)
  <2>1. faults' \in 0 .. MaxFaults
    BY <1>4, FaultType DEF CommitFails
  <2> QED
    BY <1>4, <2>1 DEF CommitFails
<1>5. CASE Pop(i)
  <2>1. queue' \in [Users -> Seq(Msgs)]
    BY <1>5, TailInSeq DEF Pop
  <2> QED
    BY <1>5, <2>1 DEF Pop
<1>6. CASE Requeue(i)
  <2>1. UserOfTask(cur[i]) \in Users
    BY <1>6, ConstantAssumption DEF Requeue, UserOfTask, Tasks
  <2> QED
    BY <1>6, <2>1 DEF Requeue, NextHead
<1> QED
  BY <1>1, <1>2, <1>3, <1>4, <1>5, <1>6 DEF Commit, CommitFails

\* Failures of an instance, and its restart.
LEMMA TypeRestart ==
  ASSUME TypeInv, NEW i \in Instances, Abort(i) \/ Stop(i) \/ Restart(i) PROVE TypeInv'
<1> USE DEF TypeInv, TypeOK, CurKnown, queueVars, keyVars, otherVars, instVars, cleanVars,
            batchVars, Goto, Labels
<1>1. CASE Abort(i)
  <2>1. faults' \in 0 .. MaxFaults
    BY <1>1, FaultType DEF Abort
  <2> QED
    BY <1>1, <2>1 DEF Abort, Drop
<1>2. CASE Stop(i)
  <2>1. faults' \in 0 .. MaxFaults
    BY <1>2, FaultType DEF Stop
  <2> QED
    BY <1>2, <2>1 DEF Stop, Drop
<1>3. CASE Restart(i)
  BY <1>3 DEF Restart
<1> QED
  BY <1>1, <1>2, <1>3

\* Celery and the expiry of Redis keys.
LEMMA TypeOutside ==
  ASSUME TypeInv,
         \/ \E t \in Tasks : Worker(t)
         \/ \E u \in Users : ExpireLock(u)
         \/ \E m \in Msgs : ExpireDispatchLock(m) \/ ExpireTracker(m)
  PROVE  TypeInv'
<1> USE DEF TypeInv, TypeOK, CurKnown, queueVars, keyVars, otherVars, instVars, cleanVars,
            batchVars
<1>1. ASSUME NEW t \in Tasks, Worker(t) PROVE TypeInv'
  <2>1. CASE Start(t)
    BY <2>1 DEF Start, Live
  <2>2. CASE Finish(t)
    BY <2>2 DEF Finish, Live
  <2>3. CASE ResultExpires(t)
    <3>1. faults' \in 0 .. MaxFaults
      BY <2>3, FaultType DEF ResultExpires
    <3> QED
      BY <2>3, <3>1 DEF ResultExpires
  <2> QED
    BY <1>1, <2>1, <2>2, <2>3 DEF Worker
<1>2. ASSUME NEW u \in Users, ExpireLock(u) PROVE TypeInv'
  <2>1. faults' \in 0 .. MaxFaults
    BY <1>2, FaultType DEF ExpireLock
  <2> QED
    BY <1>2, <2>1 DEF ExpireLock
<1>3. ASSUME NEW m \in Msgs, ExpireDispatchLock(m) PROVE TypeInv'
  BY <1>3 DEF ExpireDispatchLock
<1>4. ASSUME NEW m \in Msgs, ExpireTracker(m) PROVE TypeInv'
  <2>1. faults' \in 0 .. MaxFaults
    BY <1>4, FaultType DEF ExpireTracker
  <2>2. <<"NOT_FOUND", 0>> \in Statuses \X (0 .. MaxSends)
    BY ConstantAssumption DEF Statuses
  <2> QED
    BY <1>4, <2>1, <2>2 DEF ExpireTracker
<1> QED
  BY <1>1, <1>2, <1>3, <1>4

\* Every step keeps the types.
LEMMA TypeStep == TypeInv /\ [Next]_vars => TypeInv'
<1> SUFFICES ASSUME TypeInv, [Next]_vars PROVE TypeInv'
  OBVIOUS
<1>1. CASE UNCHANGED vars
  BY <1>1 DEF TypeInv, TypeOK, CurKnown, vars, queueVars, keyVars, otherVars, instVars,
              cleanVars, batchVars
<1>2. CASE Next
  BY <1>2, TypePush, TypeCleanup, TypeBatch, TypeDispatch, TypeRestart, TypeOutside
     DEF Next, Iterate, Fail
<1> QED
  BY <1>1, <1>2

\* Whatever fails, the scheduler's keys and the instances' local states keep their
\* types: in particular no step reads the task of a message that was never sent.
THEOREM TypeCorrect == Spec => []TypeOK
<1>1. TypeInv => TypeOK
  BY DEF TypeInv
<1> QED
  BY <1>1, TypeInit, TypeStep, PTL DEF Spec

-----------------------------------------------------------------------------
(* Mutual exclusion.  The lock protects a dispatch from the Lua script to the commit,
   and a task from its commit to its end.  The first holds because only the instance
   in dispatch replaces Dispatching, the second because cleanup deletes the lock of a
   task only once it is over.  Three faults break it: a lock that expires under an
   unfinished task, a queued task taken for lost, and a commit repeated although it
   took effect, which brings back a lock that cleanup may have deleted since. *)

ExclusiveFaults == Faults \cap {"ttl", "age", "reply"} = {}

InCommit(i) == pc[i] \in {"commit", "recommit"}

\* Whoever is in dispatch for a user holds his lock, alone.
LockHeld ==
  \A i \in Instances, u \in Users : InDispatch(i, u) => lock[u] = Dispatching

OneDispatcher ==
  \A i, j \in Instances, u \in Users : InDispatch(i, u) /\ InDispatch(j, u) => i = j

\* The only unfinished task its user can have is the one it has sent.
OwnTaskOnly ==
  \A i \in Instances, t \in Tasks :
    InDispatch(i, UserOfTask(t)) /\ IsLive(t) => InCommit(i) /\ t = cur[i]

\* An unfinished task is protected by its own lock or by that of a dispatch.
LiveLocked ==
  \A t \in Tasks : IsLive(t) => lock[UserOfTask(t)] \in {t, Dispatching}

\* What cleanup takes for over is over.
OutcomesOver ==
  \A i \in Instances : \A r \in fin[i] \cup gone[i] : task[r[1]] \in {"finished", "forgotten"}

ExclusionInv == /\ LockHeld /\ OneDispatcher /\ OwnTaskOnly /\ LiveLocked /\ OutcomesOver
                /\ OneTaskPerUser

\* At the start there are no locks and no tasks.
LEMMA ExclusionInit == Init => ExclusionInv
BY DEF Init, ExclusionInv, LockHeld, OneDispatcher, OwnTaskOnly, LiveLocked, OutcomesOver,
       OneTaskPerUser, InDispatch, IsLive, Live

\* A step that leaves locks and tasks alone, starts no dispatch, and takes no task for
\* over that is not.
Quiet ==
  /\ UNCHANGED <<lock, task>>
  /\ \A i \in Instances : pc'[i] \in {"send", "commit", "recommit"} =>
       /\ pc[i] \in {"send", "commit", "recommit"} /\ cur'[i] = cur[i]
       /\ InCommit(i) <=> pc'[i] # "send"
  /\ \A i \in Instances : \A r \in fin'[i] \cup gone'[i] :
       r \in fin[i] \cup gone[i] \/ task[r[1]] \in {"finished", "forgotten"}

\* A step that touches neither locks nor tasks keeps the invariant.
LEMMA ExclusionQuiet == ASSUME ExclusionInv, Quiet PROVE ExclusionInv'
<1> USE DEF ExclusionInv, InDispatch, InCommit, Quiet
<1>1. \A i \in Instances, u \in Users : InDispatch(i, u)' => InDispatch(i, u)
  OBVIOUS
<1>2. LockHeld'
  BY <1>1 DEF LockHeld
<1>3. OneDispatcher'
  BY <1>1 DEF OneDispatcher
<1>4. OwnTaskOnly'
  BY DEF OwnTaskOnly, IsLive
<1>5. LiveLocked' /\ OneTaskPerUser'
  BY DEF LiveLocked, OneTaskPerUser, IsLive
<1>6. OutcomesOver'
  BY DEF OutcomesOver
<1> QED
  BY <1>2, <1>3, <1>4, <1>5, <1>6

\* Pushes and the expiry of dispatch locks and trackers are such steps.
LEMMA QuietPush ==
  ASSUME TypeInv, NEW m \in Msgs,
         PushTask(m) \/ ExpireDispatchLock(m) \/ ExpireTracker(m)
  PROVE  Quiet
<1>1. UNCHANGED <<lock, task, instVars>>
  BY DEF PushTask, Push, CheckLock, Signal, PushDies, ExpireDispatchLock, ExpireTracker,
         queueVars, keyVars, otherVars
<1> QED
  BY <1>1 DEF Quiet, InCommit, instVars, cleanVars, batchVars

\* So is most of what an instance does, but for the following.
LEMMA QuietInstance ==
  ASSUME TypeInv, ExclusiveFaults, NEW i \in Instances,
         \/ Heartbeat(i) \/ Collect(i) \/ DeleteFails(i) \/ ForgetFinished(i)
         \/ SignalCleaned(i) \/ TakeReady(i) \/ RemoveReady(i) \/ ReadHeads(i)
         \/ DropEmpty(i) \/ Refuse(i) \/ Pop(i) \/ Requeue(i)
         \/ FullScan(i) \/ Abort(i) \/ Stop(i) \/ Restart(i)
         \/ CommitFails(i)
  PROVE  Quiet
<1> USE DEF TypeInv, TypeOK, Quiet, InCommit, Goto, queueVars, keyVars, otherVars, instVars,
            cleanVars, batchVars
<1>1. CASE Heartbeat(i) \/ FullScan(i)
  BY <1>1 DEF Heartbeat, FullScan
<1>2. CASE Collect(i)
  <2>1. \A r \in fin'[i] : task[r[1]] \in {"finished", "forgotten"}
    BY <1>2 DEF Collect, Fault, ExclusiveFaults
  <2>2. pc'[i] \in {"take", "delete"} /\ \A j \in Instances \ {i} : pc'[j] = pc[j] /\ fin'[j] = fin[j]
    BY <1>2 DEF Collect
  <2> QED
    BY <1>2, <2>1, <2>2 DEF Collect
<1>3. CASE DeleteFails(i)
  BY <1>3 DEF DeleteFails
<1>4. CASE ForgetFinished(i) \/ RemoveReady(i)
  BY <1>4 DEF ForgetFinished, RemoveReady
<1>5. CASE SignalCleaned(i)
  BY <1>5 DEF SignalCleaned
<1>6. CASE TakeReady(i)
  BY <1>6 DEF TakeReady
<1>7. CASE ReadHeads(i)
  BY <1>7 DEF ReadHeads
<1>8. CASE DropEmpty(i) \/ Requeue(i)
  BY <1>8 DEF DropEmpty, Requeue, NextHead
<1>9. CASE Refuse(i)
  BY <1>9 DEF Refuse, NextHead
<1>10. CASE Pop(i)
  BY <1>10 DEF Pop
<1>11. CASE CommitFails(i)
  BY <1>11 DEF CommitFails, ExclusiveFaults, Fault
<1>12. CASE Abort(i) \/ Stop(i)
  <2>1. pc'[i] \in {"loop", "down"} /\ \A j \in Instances \ {i} : pc'[j] = pc[j]
    BY <1>12 DEF Abort, Stop
  <2>2. Drop(i) /\ UNCHANGED <<lock, task>>
    BY <1>12 DEF Abort, Stop
  <2> QED
    BY <2>1, <2>2 DEF Drop
<1>13. CASE Restart(i)
  BY <1>13 DEF Restart
<1> QED
  BY <1>1, <1>2, <1>3, <1>4, <1>5, <1>6, <1>7, <1>8, <1>9, <1>10, <1>11, <1>12, <1>13

\* The compare-and-delete only frees a user whose task is over.
LEMMA ExclusionSafeDelete ==
  ASSUME TypeInv, ExclusionInv, NEW i \in Instances, SafeDelete(i) PROVE ExclusionInv'
<1> USE DEF TypeInv, TypeOK, Goto, queueVars, otherVars, cleanVars, batchVars
<1>1. PICK r \in fin[i] :
        /\ lock' = IF lock[UserOfTask(r[1])] = r[1]
                   THEN [lock EXCEPT ![UserOfTask(r[1])] = Free] ELSE lock
        /\ gone' = [gone EXCEPT ![i] = @ \cup {r}]
        /\ fin' = [fin EXCEPT ![i] = @ \ {r}]
        /\ Goto(i, IF fin[i] = {r} THEN "forget" ELSE "delete")
  BY DEF SafeDelete
<1>2. r[1] \in Tasks /\ task[r[1]] \in {"finished", "forgotten"} /\ UserOfTask(r[1]) \in Users
  <2>1. r \in Outcomes
    BY <1>1
  <2> QED
    BY <2>1, ConstantAssumption DEF ExclusionInv, OutcomesOver, Outcomes, Tasks, UserOfTask
<1>3. task' = task /\ cur' = cur
  BY DEF SafeDelete
<1>4. \A u \in Users : lock[u] = Dispatching => lock'[u] = Dispatching
  BY <1>1, <1>2, ConstantAssumption
<1>5. \A j \in Instances, u \in Users : InDispatch(j, u)' <=> InDispatch(j, u)
  BY <1>1, <1>3 DEF InDispatch, SafeDelete
<1>6. LockHeld' /\ OneDispatcher'
  BY <1>4, <1>5 DEF ExclusionInv, LockHeld, OneDispatcher
<1>7. OwnTaskOnly'
  BY <1>1, <1>3, <1>5 DEF ExclusionInv, OwnTaskOnly, InDispatch, InCommit, IsLive, SafeDelete
<1>8. LiveLocked'
  <2> SUFFICES ASSUME NEW t \in Tasks, IsLive(t) PROVE lock'[UserOfTask(t)] \in {t, Dispatching}
    BY <1>3 DEF LiveLocked, IsLive
  <2>1. lock[UserOfTask(t)] \in {t, Dispatching} /\ t # r[1]
    BY <1>2 DEF ExclusionInv, LiveLocked, IsLive, Live
  <2>2. UserOfTask(t) \in Users
    BY ConstantAssumption DEF UserOfTask, Tasks
  <2> QED
    BY <1>1, <1>2, <2>1, <2>2, ConstantAssumption
<1>9. OutcomesOver'
  BY <1>1, <1>2, <1>3 DEF ExclusionInv, OutcomesOver
<1>10. OneTaskPerUser'
  BY <1>3 DEF ExclusionInv, OneTaskPerUser, IsLive
<1> QED
  BY <1>6, <1>7, <1>8, <1>9, <1>10 DEF ExclusionInv

\* The lock script succeeds only where no task is unfinished.
LEMMA ExclusionAcquire ==
  ASSUME TypeInv, ExclusionInv, NEW i \in Instances, Acquire(i) PROVE ExclusionInv'
<1> USE DEF TypeInv, TypeOK, Goto, queueVars, otherVars, cleanVars, batchVars
<1>1. PICK m \in heads[i] :
        /\ lock[UserOf[m]] = Free
        /\ lock' = [lock EXCEPT ![UserOf[m]] = Dispatching]
        /\ cur' = [cur EXCEPT ![i] = <<m, 0>>]
  BY DEF Acquire
<1>2. m \in Msgs /\ UserOf[m] \in Users
  BY <1>1, ConstantAssumption
<1>3. pc' = [pc EXCEPT ![i] = "send"] /\ pc[i] = "dispatch" /\ UNCHANGED <<task, fin, gone>>
  BY DEF Acquire
<1>4. \A j \in Instances, u \in Users :
        InDispatch(j, u)' => \/ j # i /\ InDispatch(j, u) /\ u # UserOf[m]
                             \/ j = i /\ u = UserOf[m]
  BY <1>1, <1>2, <1>3, ConstantAssumption
     DEF InDispatch, UserOfTask, ExclusionInv, LockHeld
<1>5. LockHeld' /\ OneDispatcher'
  BY <1>1, <1>2, <1>4 DEF ExclusionInv, LockHeld, OneDispatcher
<1>6. \A t \in Tasks : IsLive(t) => UserOfTask(t) # UserOf[m]
  BY <1>1, ConstantAssumption DEF ExclusionInv, LiveLocked
<1>7. OwnTaskOnly'
  <2> SUFFICES ASSUME NEW j \in Instances, NEW t \in Tasks,
                      InDispatch(j, UserOfTask(t))', IsLive(t)
               PROVE  InCommit(j)' /\ t = cur'[j]
    BY <1>3 DEF OwnTaskOnly, IsLive, UserOfTask
  <2>1. UserOfTask(t) \in Users
    BY ConstantAssumption DEF UserOfTask, Tasks
  <2>2. j # i /\ InDispatch(j, UserOfTask(t))
    BY <1>4, <1>6, <2>1
  <2> QED
    BY <1>1, <1>3, <2>2 DEF ExclusionInv, OwnTaskOnly, InCommit
<1>8. LiveLocked'
  BY <1>1, <1>2, <1>3, <1>6 DEF ExclusionInv, LiveLocked, IsLive, UserOfTask
<1>9. OutcomesOver' /\ OneTaskPerUser'
  BY <1>3 DEF ExclusionInv, OutcomesOver, OneTaskPerUser, IsLive
<1> QED
  BY <1>5, <1>7, <1>8, <1>9 DEF ExclusionInv

\* The task that is sent is the only one of its user.
LEMMA ExclusionSend ==
  ASSUME TypeInv, ExclusionInv, NEW i \in Instances, Send(i) PROVE ExclusionInv'
<1> USE DEF TypeInv, TypeOK, Goto, queueVars, keyVars, cleanVars
<1>1. PICK k \in 1 .. MaxSends :
        /\ task[<<cur[i][1], k>>] = "none"
        /\ task' = [task EXCEPT ![<<cur[i][1], k>>] = "queued"]
        /\ cur' = [cur EXCEPT ![i] = <<cur[i][1], k>>]
  BY DEF Send
<1> DEFINE own == <<cur[i][1], k>>
<1>2. own \in Tasks /\ UserOfTask(own) \in Users /\ UserOfTask(own) = UserOfTask(cur[i])
  BY ConstantAssumption DEF Send, CurKnown, Tasks, UserOfTask
<1>3. /\ pc[i] = "send" /\ pc' = [pc EXCEPT ![i] = "commit"] /\ UNCHANGED <<lock, fin, gone>>
      /\ cur'[i] = own /\ \A j \in Instances \ {i} : cur'[j] = cur[j]
      /\ task'[own] = "queued" /\ task[own] = "none"
      /\ \A t \in Tasks \ {own} : task'[t] = task[t]
  BY <1>1, <1>2 DEF Send
<1> HIDE DEF own
<1>4. \A j \in Instances, u \in Users : InDispatch(j, u)' <=> InDispatch(j, u)
  BY <1>2, <1>3 DEF InDispatch, UserOfTask
<1>5. LockHeld' /\ OneDispatcher'
  BY <1>3, <1>4 DEF ExclusionInv, LockHeld, OneDispatcher
<1>6. InDispatch(i, UserOfTask(own))
  BY <1>2, <1>3 DEF InDispatch
<1>7. \A t \in Tasks : IsLive(t) => UserOfTask(t) # UserOfTask(own)
  BY <1>3, <1>6 DEF ExclusionInv, OwnTaskOnly, InCommit
<1>8. \A t \in Tasks : IsLive(t)' => t = own \/ IsLive(t)
  BY <1>3 DEF IsLive
<1>9. OwnTaskOnly'
  <2> SUFFICES ASSUME NEW j \in Instances, NEW t \in Tasks,
                      InDispatch(j, UserOfTask(t))', IsLive(t)'
               PROVE  InCommit(j)' /\ t = cur'[j]
    BY DEF OwnTaskOnly, UserOfTask
  <2>1. InDispatch(j, UserOfTask(t))
    BY <1>4, ConstantAssumption DEF UserOfTask, Tasks
  <2>2. CASE t = own
    BY <1>2, <1>3, <1>6, <2>1, <2>2 DEF ExclusionInv, OneDispatcher, InCommit
  <2>3. CASE t # own
    <3>1. IsLive(t) /\ j # i
      BY <1>3, <1>7, <1>8, <2>1, <2>3 DEF InDispatch, UserOfTask
    <3> QED
      BY <1>3, <2>1, <3>1 DEF ExclusionInv, OwnTaskOnly, InCommit
  <2> QED
    BY <2>2, <2>3
<1>10. LiveLocked'
  BY <1>2, <1>3, <1>6, <1>8 DEF ExclusionInv, LiveLocked, LockHeld, UserOfTask
<1>11. OneTaskPerUser'
  BY <1>7, <1>8 DEF ExclusionInv, OneTaskPerUser, UserOfTask
<1>12. OutcomesOver'
  <2>1. \A j \in Instances : \A r \in fin[j] \cup gone[j] : r[1] \in Tasks
    BY DEF Outcomes
  <2>2. \A t \in Tasks : task[t] \in {"finished", "forgotten"} => task'[t] = task[t]
    BY <1>1, <1>2
  <2>3. OutcomesOver /\ UNCHANGED <<fin, gone>>
    BY <1>3 DEF ExclusionInv
  <2> QED
    BY <2>1, <2>2, <2>3 DEF OutcomesOver
<1> QED
  BY <1>5, <1>9, <1>10, <1>11, <1>12 DEF ExclusionInv

\* The end of a dispatch, with the lock released or named after the task.
LEMMA ExclusionRelease ==
  ASSUME TypeInv, ExclusionInv, NEW i \in Instances, NEW u \in Users,
         InDispatch(i, u), pc'[i] \notin {"send", "commit", "recommit"},
         \A j \in Instances \ {i} : pc'[j] = pc[j] /\ cur'[j] = cur[j],
         \/ pc[i] = "send" /\ lock' = [lock EXCEPT ![u] = Free]
         \/ InCommit(i) /\ lock' = [lock EXCEPT ![u] = cur[i]],
         UNCHANGED <<task, fin, gone>>
  PROVE  ExclusionInv'
<1> USE DEF TypeInv, TypeOK
<1>1. \A j \in Instances, v \in Users :
        InDispatch(j, v)' => j # i /\ v # u /\ InDispatch(j, v)
  BY DEF InDispatch, ExclusionInv, OneDispatcher
<1>2. \A v \in Users \ {u} : lock'[v] = lock[v]
  OBVIOUS
<1>3. LockHeld' /\ OneDispatcher'
  BY <1>1, <1>2 DEF ExclusionInv, LockHeld, OneDispatcher
<1>4. OwnTaskOnly'
  <2> SUFFICES ASSUME NEW j \in Instances, NEW t \in Tasks,
                      InDispatch(j, UserOfTask(t))', IsLive(t)
               PROVE  InCommit(j)' /\ t = cur'[j]
    BY DEF OwnTaskOnly, IsLive, UserOfTask
  <2>1. j # i /\ InDispatch(j, UserOfTask(t))
    BY <1>1, ConstantAssumption DEF UserOfTask, Tasks
  <2> QED
    BY <2>1 DEF ExclusionInv, OwnTaskOnly, InCommit
<1>5. LiveLocked'
  <2> SUFFICES ASSUME NEW t \in Tasks, IsLive(t)
               PROVE  lock'[UserOfTask(t)] \in {t, Dispatching}
    BY DEF LiveLocked, IsLive, UserOfTask
  <2>1. CASE UserOfTask(t) = u
    BY <2>1 DEF ExclusionInv, OwnTaskOnly, InCommit
  <2>2. CASE UserOfTask(t) # u
    BY <1>2, <2>2, ConstantAssumption DEF ExclusionInv, LiveLocked, UserOfTask, Tasks
  <2> QED
    BY <2>1, <2>2
<1>6. OutcomesOver' /\ OneTaskPerUser'
  BY DEF ExclusionInv, OutcomesOver, OneTaskPerUser, IsLive
<1> QED
  BY <1>3, <1>4, <1>5, <1>6 DEF ExclusionInv

\* A commit writes the task into its own lock; a failed dispatch frees a user without
\* one.
LEMMA ExclusionDispatchEnds ==
  ASSUME TypeInv, ExclusionInv, NEW i \in Instances, SendFails(i) \/ Commit(i)
  PROVE  ExclusionInv'
<1> USE DEF TypeInv, TypeOK, Goto, queueVars, otherVars, cleanVars, batchVars
<1>1. UserOfTask(cur[i]) \in Users
  <2>1. cur[i] \in Msgs \X (0 .. MaxSends) \/ cur[i] \in Tasks
    BY DEF CurKnown, SendFails, Commit
  <2> QED
    BY <2>1, ConstantAssumption DEF UserOfTask, Tasks
<1>2. InDispatch(i, UserOfTask(cur[i]))
  BY DEF InDispatch, SendFails, Commit
<1>3. CASE SendFails(i)
  BY <1>1, <1>2, <1>3, ExclusionRelease DEF SendFails, NextHead
<1>4. CASE Commit(i)
  BY <1>1, <1>2, <1>4, ExclusionRelease DEF Commit, InCommit, WriteDispatch
<1> QED
  BY <1>3, <1>4

\* Workers end tasks; locks run out only when their tasks are over.
LEMMA ExclusionOutside ==
  ASSUME TypeInv, ExclusionInv, ExclusiveFaults,
         (\E t \in Tasks : Worker(t)) \/ (\E u \in Users : ExpireLock(u))
  PROVE  ExclusionInv'
<1> USE DEF TypeInv, TypeOK, queueVars, keyVars, otherVars, instVars, cleanVars, batchVars
<1>1. ASSUME NEW t \in Tasks, Worker(t) PROVE ExclusionInv'
  <2>1. UNCHANGED <<lock, instVars>> /\ \A s \in Tasks : IsLive(s)' => IsLive(s)
    BY <1>1 DEF Worker, Start, Finish, ResultExpires, IsLive, Live
  <2>2. \A s \in Tasks : task[s] \in {"finished", "forgotten"}
                           => task'[s] \in {"finished", "forgotten"}
    BY <1>1 DEF Worker, Start, Finish, ResultExpires
  <2>3. OutcomesOver'
    <3>1. \A j \in Instances : \A r \in fin[j] \cup gone[j] : r[1] \in Tasks
      BY DEF Outcomes
    <3> QED
      BY <2>1, <2>2, <3>1 DEF ExclusionInv, OutcomesOver
  <2>4. LockHeld' /\ OneDispatcher' /\ OwnTaskOnly'
    BY <2>1 DEF ExclusionInv, LockHeld, OneDispatcher, OwnTaskOnly, InDispatch, InCommit,
                UserOfTask
  <2>5. LiveLocked' /\ OneTaskPerUser'
    BY <2>1 DEF ExclusionInv, LiveLocked, OneTaskPerUser, UserOfTask
  <2> QED
    BY <2>3, <2>4, <2>5 DEF ExclusionInv
<1>2. ASSUME NEW u \in Users, ExpireLock(u) PROVE ExclusionInv'
  <2>1. /\ \A i \in Instances : ~InDispatch(i, u)
        /\ \A t \in Tasks : UserOfTask(t) = u => ~IsLive(t)
        /\ lock' = [lock EXCEPT ![u] = Free] /\ UNCHANGED <<task, instVars>>
    BY <1>2 DEF ExpireLock, ExclusiveFaults, Fault
  <2>2. LockHeld' /\ OneDispatcher' /\ OwnTaskOnly'
    BY <2>1 DEF ExclusionInv, LockHeld, OneDispatcher, OwnTaskOnly, InDispatch, InCommit,
                UserOfTask, IsLive
  <2>3. LiveLocked' /\ OneTaskPerUser'
    BY <2>1, ConstantAssumption
       DEF ExclusionInv, LiveLocked, OneTaskPerUser, UserOfTask, IsLive, Tasks
  <2>4. OutcomesOver'
    BY <2>1 DEF ExclusionInv, OutcomesOver
  <2> QED
    BY <2>2, <2>3, <2>4 DEF ExclusionInv
<1> QED
  BY <1>1, <1>2

\* Every step keeps the invariant.
LEMMA ExclusionStep ==
  ASSUME TypeInv, ExclusionInv, ExclusiveFaults, [Next]_vars PROVE ExclusionInv'
<1>1. CASE UNCHANGED vars
  <2>1. Quiet
    BY <1>1 DEF Quiet, InCommit, vars, keyVars, otherVars, instVars, cleanVars, batchVars
  <2> QED
    BY <2>1, ExclusionQuiet
<1>2. CASE Next
  BY <1>2, ExclusionQuiet, QuietPush, QuietInstance, ExclusionSafeDelete, ExclusionAcquire,
     ExclusionSend, ExclusionDispatchEnds, ExclusionOutside
     DEF Next, Iterate, Fail
<1> QED
  BY <1>1, <1>2

\* Celery never holds two unfinished write tasks of one user, for any number of
\* instances that crash, abandon iterations, disagree about the shards or fail to
\* commit, as long as no lock expires under an unfinished task, no queued task is
\* taken for lost and no commit is repeated.
THEOREM MutualExclusion == ASSUME ExclusiveFaults PROVE Spec => []OneTaskPerUser
<1>1. TypeInv /\ ExclusionInv /\ [Next]_vars => (TypeInv /\ ExclusionInv)'
  BY ExclusiveFaults, TypeStep, ExclusionStep
<1>2. ExclusionInv => OneTaskPerUser
  BY DEF ExclusionInv
<1> QED
  BY <1>1, <1>2, TypeInit, ExclusionInit, PTL DEF Spec

-----------------------------------------------------------------------------
(* A lock that names a task is watched: cleanup deletes the lock before it forgets the
   task, and no commit can bring a forgotten task back into the lock, unless one is
   repeated although it took effect. *)

PendingSent == \A t \in pending : task[t] # "none"

\* What cleanup takes for over has been sent.
LearnedSent == \A i \in Instances : \A r \in fin[i] \cup gone[i] : task[r[1]] # "none"

\* The task being committed is not known to cleanup yet.
CommitsOnce ==
  \A i \in Instances : InCommit(i) =>
    /\ task[cur[i]] # "none"
    /\ cur[i] \notin pending
    /\ \A j \in Instances : \A r \in fin[j] \cup gone[j] : r[1] # cur[i]

CommitsDiffer ==
  \A i, j \in Instances : InCommit(i) /\ InCommit(j) /\ cur[i] = cur[j] => i = j

GoneUnlocked ==
  \A i \in Instances : \A r \in gone[i] : lock[UserOfTask(r[1])] # r[1]

LocksOwnUser == \A u \in Users : lock[u] \in Tasks => UserOfTask(lock[u]) = u

WatchInv ==
  /\ PendingSent /\ LearnedSent /\ CommitsOnce /\ CommitsDiffer /\ GoneUnlocked /\ LocksOwnUser
  /\ NamedLockIsWatched

\* At first there is nothing to watch.
LEMMA WatchInit == Init => WatchInv
BY ConstantAssumption
   DEF Init, WatchInv, PendingSent, LearnedSent, CommitsOnce, CommitsDiffer, GoneUnlocked,
       LocksOwnUser, NamedLockIsWatched, InCommit

\* A step that leaves locks and tasks alone, watches no new task, learns of no end but
\* that of a watched task, and commits nothing new.
Idle ==
  /\ UNCHANGED <<lock, task, pending>>
  /\ \A i \in Instances :
       /\ gone'[i] \subseteq gone[i]
       /\ \A r \in fin'[i] : r \in fin[i] \/ r[1] \in pending
       /\ InCommit(i)' => InCommit(i) /\ cur'[i] = cur[i]

\* A step that touches neither locks nor pending_tasks keeps the invariant.
LEMMA WatchIdle == ASSUME WatchInv, Idle PROVE WatchInv'
<1> USE DEF WatchInv, Idle
<1>1. PendingSent' /\ LearnedSent' /\ GoneUnlocked' /\ LocksOwnUser' /\ NamedLockIsWatched'
  BY DEF PendingSent, LearnedSent, GoneUnlocked, LocksOwnUser, NamedLockIsWatched
<1>2. CommitsOnce' /\ CommitsDiffer'
  BY DEF CommitsOnce, CommitsDiffer
<1> QED
  BY <1>1, <1>2

\* Most steps of an instance are such.
LEMMA IdleInstance ==
  ASSUME TypeInv, "reply" \notin Faults, NEW i \in Instances,
         \/ Heartbeat(i) \/ Collect(i) \/ DeleteFails(i)
         \/ SignalCleaned(i) \/ TakeReady(i) \/ RemoveReady(i) \/ ReadHeads(i)
         \/ DropEmpty(i) \/ Refuse(i) \/ Pop(i) \/ Requeue(i)
         \/ FullScan(i) \/ Abort(i) \/ Stop(i) \/ Restart(i) \/ CommitFails(i)
  PROVE  Idle
<1> USE DEF TypeInv, TypeOK, Idle, InCommit, Goto, queueVars, keyVars, otherVars, cleanVars,
            batchVars, instVars
<1>1. CASE Heartbeat(i) \/ FullScan(i) \/ Restart(i)
  BY <1>1 DEF Heartbeat, FullScan, Restart
<1>2. CASE Collect(i)
  BY <1>2 DEF Collect
<1>3. CASE DeleteFails(i) \/ SignalCleaned(i)
  BY <1>3 DEF DeleteFails, SignalCleaned
<1>4. CASE TakeReady(i) \/ RemoveReady(i)
  BY <1>4 DEF TakeReady, RemoveReady
<1>5. CASE ReadHeads(i)
  BY <1>5 DEF ReadHeads
<1>6. CASE DropEmpty(i) \/ Refuse(i)
  BY <1>6 DEF DropEmpty, Refuse, NextHead
<1>7. CASE Pop(i) \/ Requeue(i)
  BY <1>7 DEF Pop, Requeue, NextHead
<1>8. CASE Abort(i) \/ Stop(i)
  BY <1>8 DEF Abort, Stop, Drop
<1>9. CASE CommitFails(i)
  BY <1>9 DEF CommitFails, Fault
<1> QED
  BY <1>1, <1>2, <1>3, <1>4, <1>5, <1>6, <1>7, <1>8, <1>9

\* What cleanup learns is about tasks, of known users.
LEMMA OutcomeTasks ==
  ASSUME TypeOK
  PROVE  \A j \in Instances : \A r \in gone[j] \cup fin[j] :
           r[1] \in Tasks /\ UserOfTask(r[1]) \in Users
<1>1. \A j \in Instances : \A r \in gone[j] \cup fin[j] : r \in Outcomes
  BY DEF TypeOK
<1>2. \A t \in Tasks : UserOfTask(t) \in Users
  BY ConstantAssumption DEF Tasks, UserOfTask
<1> QED
  BY <1>1, <1>2 DEF Outcomes

\* Cleanup unwatches a task only after its lock has been deleted.
LEMMA WatchCleanup ==
  ASSUME TypeInv, WatchInv, NEW i \in Instances, SafeDelete(i) \/ ForgetFinished(i)
  PROVE  WatchInv'
<1> USE DEF TypeInv, TypeOK, Goto, queueVars, otherVars, cleanVars, batchVars
<1>1. CASE SafeDelete(i)
  <2>1. PICK r \in fin[i] :
          /\ lock' = IF lock[UserOfTask(r[1])] = r[1]
                     THEN [lock EXCEPT ![UserOfTask(r[1])] = Free] ELSE lock
          /\ gone' = [gone EXCEPT ![i] = @ \cup {r}]
          /\ fin' = [fin EXCEPT ![i] = @ \ {r}]
          /\ Goto(i, IF fin[i] = {r} THEN "forget" ELSE "delete")
    BY <1>1 DEF SafeDelete
  <2>2. \A j \in Instances : \A q \in gone[j] \cup fin[j] :
          q[1] \in Tasks /\ UserOfTask(q[1]) \in Users
    BY OutcomeTasks
  <2>3. UNCHANGED <<task, cur, pending>>
    BY <1>1 DEF SafeDelete
  <2>4. PendingSent' /\ LearnedSent'
    BY <2>1, <2>3 DEF WatchInv, PendingSent, LearnedSent
  <2>5. CommitsOnce' /\ CommitsDiffer'
    BY <1>1, <2>1, <2>3 DEF WatchInv, CommitsOnce, CommitsDiffer, InCommit, SafeDelete
  <2>6. GoneUnlocked'
    BY <2>1, <2>2, ConstantAssumption DEF WatchInv, GoneUnlocked, UserOfTask
  <2>7. LocksOwnUser' /\ NamedLockIsWatched'
    BY <2>1, <2>3, ConstantAssumption DEF WatchInv, LocksOwnUser, NamedLockIsWatched
  <2> QED
    BY <2>4, <2>5, <2>6, <2>7 DEF WatchInv
<1>2. CASE ForgetFinished(i)
  <2>1. /\ pending' = pending \ {r[1] : r \in gone[i]}
        /\ pc' = [pc EXCEPT ![i] = "signal"] /\ UNCHANGED <<lock, task, cur, fin, gone>>
    BY <1>2 DEF ForgetFinished
  <2>2. PendingSent' /\ LearnedSent' /\ GoneUnlocked' /\ LocksOwnUser'
    BY <2>1 DEF WatchInv, PendingSent, LearnedSent, GoneUnlocked, LocksOwnUser, UserOfTask
  <2>3. CommitsOnce' /\ CommitsDiffer'
    BY <2>1 DEF WatchInv, CommitsOnce, CommitsDiffer, InCommit
  <2>4. NamedLockIsWatched'
    <3> SUFFICES ASSUME NEW u \in Users, lock[u] \in Tasks PROVE lock[u] \in pending'
      BY <2>1 DEF NamedLockIsWatched
    <3>1. UserOfTask(lock[u]) = u
      BY DEF WatchInv, LocksOwnUser
    <3> QED
      BY <2>1, <3>1 DEF WatchInv, NamedLockIsWatched, GoneUnlocked
  <2> QED
    BY <2>2, <2>3, <2>4 DEF WatchInv
<1> QED
  BY <1>1, <1>2

\* A new lock names no task yet.
LEMMA WatchAcquire ==
  ASSUME TypeInv, WatchInv, NEW i \in Instances, Acquire(i) PROVE WatchInv'
<1> USE DEF TypeInv, TypeOK, Goto, queueVars, otherVars, cleanVars, batchVars
<1>1. PICK m \in heads[i] :
        /\ lock[UserOf[m]] = Free
        /\ lock' = [lock EXCEPT ![UserOf[m]] = Dispatching]
        /\ cur' = [cur EXCEPT ![i] = <<m, 0>>]
  BY DEF Acquire
<1>2. pc' = [pc EXCEPT ![i] = "send"] /\ UNCHANGED <<task, fin, gone, pending>>
  BY DEF Acquire
<1>3. UserOf[m] \in Users
  BY <1>1, ConstantAssumption
<1>4. PendingSent' /\ LearnedSent' /\ CommitsOnce' /\ CommitsDiffer'
  BY <1>1, <1>2
     DEF WatchInv, PendingSent, LearnedSent, CommitsOnce, CommitsDiffer, InCommit
<1>5. GoneUnlocked'
  <2>1. \A j \in Instances : \A r \in gone[j] : r[1] \in Tasks
    BY DEF Outcomes
  <2> QED
    BY <1>1, <1>2, <1>3, <2>1, ConstantAssumption DEF WatchInv, GoneUnlocked, UserOfTask
<1>6. LocksOwnUser' /\ NamedLockIsWatched'
  BY <1>1, <1>2, <1>3, ConstantAssumption DEF WatchInv, LocksOwnUser, NamedLockIsWatched
<1> QED
  BY <1>4, <1>5, <1>6 DEF WatchInv

\* A task that has just been sent is named by no lock.
LEMMA WatchSend ==
  ASSUME TypeInv, WatchInv, NEW i \in Instances, Send(i) PROVE WatchInv'
<1> USE DEF TypeInv, TypeOK, Goto, queueVars, keyVars, cleanVars
<1>1. PICK k \in 1 .. MaxSends :
        /\ task[<<cur[i][1], k>>] = "none"
        /\ task' = [task EXCEPT ![<<cur[i][1], k>>] = "queued"]
        /\ cur' = [cur EXCEPT ![i] = <<cur[i][1], k>>]
  BY DEF Send
<1> DEFINE own == <<cur[i][1], k>>
<1>2. own \in Tasks
  BY ConstantAssumption DEF Send, CurKnown, Tasks
<1>3. /\ pc' = [pc EXCEPT ![i] = "commit"] /\ UNCHANGED <<lock, fin, gone, pending>>
      /\ cur'[i] = own /\ \A j \in Instances \ {i} : cur'[j] = cur[j]
      /\ task'[own] = "queued" /\ task[own] = "none"
      /\ \A t \in Tasks \ {own} : task'[t] = task[t]
  BY <1>1, <1>2 DEF Send
<1> HIDE DEF own
<1>4. /\ PendingSent' /\ LearnedSent' /\ GoneUnlocked' /\ LocksOwnUser'
      /\ NamedLockIsWatched'
  <2>1. \A j \in Instances : \A r \in fin[j] \cup gone[j] : r[1] \in Tasks
    BY DEF Outcomes
  <2> QED
    BY <1>3, <2>1
       DEF WatchInv, PendingSent, LearnedSent, GoneUnlocked, LocksOwnUser, NamedLockIsWatched
<1>5. own \notin pending
  BY <1>3 DEF WatchInv, PendingSent
<1>6. \A j \in Instances : \A r \in fin[j] \cup gone[j] : r[1] # own
  BY <1>3 DEF WatchInv, LearnedSent
<1>7. CommitsOnce'
  <2> SUFFICES ASSUME NEW j \in Instances, InCommit(j)'
               PROVE  /\ task'[cur'[j]] # "none" /\ cur'[j] \notin pending
                      /\ \A h \in Instances : \A r \in fin[h] \cup gone[h] : r[1] # cur'[j]
    BY <1>3 DEF CommitsOnce
  <2>1. CASE j = i
    BY <1>3, <1>5, <1>6, <2>1
  <2>2. CASE j # i
    <3>1. InCommit(j) /\ cur'[j] = cur[j] /\ cur[j] \in Tasks
      BY <1>3, <2>2 DEF InCommit, CurKnown
    <3> QED
      BY <1>3, <3>1 DEF WatchInv, CommitsOnce
  <2> QED
    BY <2>1, <2>2
<1>8. CommitsDiffer'
  BY <1>3 DEF WatchInv, CommitsDiffer, CommitsOnce, InCommit
<1> QED
  BY <1>4, <1>7, <1>8 DEF WatchInv

\* One pipeline names the task in the lock and has it watched.
LEMMA WatchDispatchEnds ==
  ASSUME TypeInv, WatchInv, NEW i \in Instances, SendFails(i) \/ Commit(i)
  PROVE  WatchInv'
<1> USE DEF TypeInv, TypeOK, Goto, queueVars, otherVars, cleanVars, batchVars
<1>1. CASE SendFails(i)
  <2>1. /\ pc'[i] \in {"loop", "dispatch"} /\ UNCHANGED <<task, fin, gone, pending>>
        /\ lock' = [lock EXCEPT ![UserOfTask(cur[i])] = Free]
        /\ \A j \in Instances \ {i} : pc'[j] = pc[j] /\ cur'[j] = cur[j]
    BY <1>1 DEF SendFails, NextHead
  <2>2. \A u \in Users : lock'[u] = lock[u] \/ lock'[u] = Free
    BY <2>1
  <2>3. PendingSent' /\ LearnedSent' /\ LocksOwnUser' /\ NamedLockIsWatched'
    BY <2>1, <2>2, ConstantAssumption
       DEF WatchInv, PendingSent, LearnedSent, LocksOwnUser, NamedLockIsWatched
  <2>4. CommitsOnce' /\ CommitsDiffer'
    <3>1. \A j \in Instances : InCommit(j)' => InCommit(j) /\ cur'[j] = cur[j]
      BY <2>1 DEF InCommit
    <3> QED
      BY <2>1, <3>1 DEF WatchInv, CommitsOnce, CommitsDiffer
  <2>5. GoneUnlocked'
    <3>1. \A j \in Instances : \A r \in gone[j] : r[1] \in Tasks /\ UserOfTask(r[1]) \in Users
      BY OutcomeTasks
    <3> QED
      BY <2>1, <2>2, <3>1, ConstantAssumption DEF WatchInv, GoneUnlocked, UserOfTask
  <2> QED
    BY <2>3, <2>4, <2>5 DEF WatchInv
<1>2. CASE Commit(i)
  <2>1. /\ InCommit(i) /\ pc' = [pc EXCEPT ![i] = "pop"]
        /\ UNCHANGED <<task, fin, gone, cur>> /\ pending' = pending \cup {cur[i]}
        /\ lock' = [lock EXCEPT ![UserOfTask(cur[i])] = cur[i]]
    BY <1>2 DEF Commit, WriteDispatch, InCommit
  <2>2. cur[i] \in Tasks /\ UserOfTask(cur[i]) \in Users
    BY <2>1, ConstantAssumption DEF CurKnown, InCommit, Tasks, UserOfTask
  <2>3. PendingSent' /\ LearnedSent'
    BY <2>1 DEF WatchInv, PendingSent, LearnedSent, CommitsOnce
  <2>4. \A j \in Instances \ {i} : InCommit(j) => cur[j] # cur[i]
    BY <2>1 DEF WatchInv, CommitsDiffer
  <2>5. CommitsOnce' /\ CommitsDiffer'
    BY <2>1, <2>4 DEF WatchInv, CommitsOnce, CommitsDiffer, InCommit
  <2>6. GoneUnlocked'
    <3>1. \A j \in Instances : \A r \in gone[j] : r[1] # cur[i]
      BY <2>1 DEF WatchInv, CommitsOnce
    <3>2. \A j \in Instances : \A r \in gone[j] : UserOfTask(r[1]) \in Users
      BY OutcomeTasks
    <3> QED
      BY <2>1, <3>1, <3>2 DEF WatchInv, GoneUnlocked, UserOfTask
  <2>7. LocksOwnUser' /\ NamedLockIsWatched'
    BY <2>1, <2>2 DEF WatchInv, LocksOwnUser, NamedLockIsWatched, UserOfTask
  <2> QED
    BY <2>3, <2>5, <2>6, <2>7 DEF WatchInv
<1> QED
  BY <1>1, <1>2

\* Workers and expiry name no task.
LEMMA WatchOutside ==
  ASSUME TypeInv, WatchInv,
         \/ \E m \in Msgs : PushTask(m) \/ ExpireDispatchLock(m) \/ ExpireTracker(m)
         \/ \E t \in Tasks : Worker(t)
         \/ \E u \in Users : ExpireLock(u)
  PROVE  WatchInv'
<1> USE DEF TypeInv, TypeOK
<1>1. ASSUME NEW m \in Msgs, PushTask(m) \/ ExpireDispatchLock(m) \/ ExpireTracker(m)
      PROVE  WatchInv'
  <2>1. UNCHANGED <<lock, task, pending, instVars>>
    BY <1>1 DEF PushTask, Push, CheckLock, Signal, PushDies, ExpireDispatchLock, ExpireTracker,
                queueVars, keyVars, otherVars
  <2>2. Idle
    BY <2>1 DEF Idle, InCommit, instVars, cleanVars, batchVars
  <2> QED
    BY <2>2, WatchIdle
<1>2. ASSUME NEW t \in Tasks, Worker(t) PROVE WatchInv'
  <2>1. /\ UNCHANGED <<lock, pending, pc, fin, gone, cur>>
        /\ \A s \in Tasks : task[s] # "none" => task'[s] # "none"
    BY <1>2 DEF Worker, Start, Finish, ResultExpires, keyVars, instVars, cleanVars, batchVars
  <2>2. PendingSent' /\ GoneUnlocked' /\ LocksOwnUser' /\ NamedLockIsWatched'
    BY <2>1 DEF WatchInv, PendingSent, GoneUnlocked, LocksOwnUser, NamedLockIsWatched,
                UserOfTask
  <2>3. LearnedSent'
    BY <2>1 DEF WatchInv, LearnedSent, Outcomes
  <2>4. CommitsOnce' /\ CommitsDiffer'
    BY <2>1 DEF WatchInv, CommitsOnce, CommitsDiffer, InCommit, CurKnown
  <2> QED
    BY <2>2, <2>3, <2>4 DEF WatchInv
<1>3. ASSUME NEW u \in Users, ExpireLock(u) PROVE WatchInv'
  <2>1. UNCHANGED <<task, pending, pc, fin, gone, cur>> /\ lock' = [lock EXCEPT ![u] = Free]
    BY <1>3 DEF ExpireLock, otherVars, instVars, cleanVars, batchVars
  <2>2. PendingSent' /\ LearnedSent' /\ CommitsOnce' /\ CommitsDiffer'
    BY <2>1 DEF WatchInv, PendingSent, LearnedSent, CommitsOnce, CommitsDiffer, InCommit
  <2>3. LocksOwnUser' /\ NamedLockIsWatched'
    BY <2>1, ConstantAssumption DEF WatchInv, LocksOwnUser, NamedLockIsWatched
  <2>4. GoneUnlocked'
    <3>1. \A j \in Instances : \A r \in gone[j] : r[1] \in Tasks /\ UserOfTask(r[1]) \in Users
      BY OutcomeTasks
    <3> QED
      BY <2>1, <3>1, ConstantAssumption DEF WatchInv, GoneUnlocked, UserOfTask
  <2> QED
    BY <2>2, <2>3, <2>4 DEF WatchInv
<1> QED
  BY <1>1, <1>2, <1>3

\* Every step keeps the invariant.
LEMMA WatchStep ==
  ASSUME TypeInv, WatchInv, "reply" \notin Faults, [Next]_vars PROVE WatchInv'
<1>1. CASE UNCHANGED vars
  <2>1. Idle
    BY <1>1 DEF Idle, InCommit, vars, keyVars, otherVars, instVars, cleanVars, batchVars
  <2> QED
    BY <2>1, WatchIdle
<1>2. CASE Next
  BY <1>2, IdleInstance, WatchIdle, WatchCleanup, WatchAcquire, WatchSend, WatchDispatchEnds,
     WatchOutside
     DEF Next, Iterate, Fail
<1> QED
  BY <1>1, <1>2

\* A user whose lock names a task is never forgotten by cleanup: the task is in
\* pending_tasks until its lock is gone, whatever expires or stops.  Only the retry of a
\* commit that took effect, the reply being lost, may name a task that cleanup has dealt
\* with in the meantime.
THEOREM LocksAreWatched == ASSUME "reply" \notin Faults PROVE Spec => []NamedLockIsWatched
<1>1. TypeInv /\ WatchInv /\ [Next]_vars => (TypeInv /\ WatchInv)'
  BY "reply" \notin Faults, TypeStep, WatchStep
<1>2. WatchInv => NamedLockIsWatched
  BY DEF WatchInv
<1> QED
  BY <1>1, <1>2, TypeInit, WatchInit, PTL DEF Spec

=============================================================================
