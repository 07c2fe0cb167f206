------------------------ MODULE SchedulerWakeupProofs ------------------------
(***************************************************************************)
(* Theorems about what the instances of TaskScheduler owe a waiting user:   *)
(* while nothing fails, a user with a message is never overlooked.          *)
(***************************************************************************)
EXTENDS SchedulerOrderProofs

\* Every call and every process goes on.  Keys and results may still expire, instances may
\* let their registrations lapse, and queued tasks may be taken for lost.
NothingFails == Faults \cap {"crash", "abort", "send", "commit", "reply", "push"} = {}

\* Both keys that the lock script sets belong to an instance that is in dispatch.
DispatchingHeld ==
  \A u \in Users : lock[u] = Dispatching => \E i \in Instances : InDispatch(i, u)

DlockHeld ==
  \A m \in dlock : \E i \in Instances : InDispatch(i, UserOf[m]) /\ cur[i][1] = m

\* Candidates are left only while a batch is processed.
HeadsDone ==
  \A i \in Instances : heads[i] # {} =>
    pc[i] \in {"drop", "dispatch", "send", "commit", "recommit", "pop", "requeue"}

\* The reasons for which a user will be looked at.
Pushed(u)  == \E m \in Msgs : UserOf[m] = u /\ caller[m] \in {"check", "signal"}
Looked(u)  == \E i \in Instances : WillLookAt(i, u)
Watched(u) == \E t \in pending : UserOfTask(t) = u
Cleaned(u) == \E i \in Instances : \E r \in gone[i] : UserOfTask(r[1]) = u
Awaited(u) == u \in ready \/ Pushed(u) \/ Looked(u) \/ Watched(u) \/ Cleaned(u)

AllAwaited == \A u \in Users : queue[u] # <<>> => Awaited(u)

WakeInv == DispatchingHeld /\ DlockHeld /\ HeadsDone /\ AllAwaited

\* Nobody has a message at first.
LEMMA WakeInit == Init => WakeInv
BY ConstantAssumption
   DEF Init, WakeInv, DispatchingHeld, DlockHeld, HeadsDone, AllAwaited

\* A lock that a pusher or the lock script finds taken has somebody behind it.
LEMMA LockedAwaited ==
  ASSUME TypeInv, WatchInv, DispatchingHeld, NEW u \in Users, lock[u] # Free
  PROVE  (\E i \in Instances : InDispatch(i, u)) \/ Watched(u)
<1>1. CASE lock[u] = Dispatching
  BY <1>1 DEF DispatchingHeld
<1>2. CASE lock[u] \in Tasks
  BY <1>2 DEF WatchInv, NamedLockIsWatched, LocksOwnUser, Watched
<1> QED
  BY <1>1, <1>2 DEF TypeInv, TypeOK

-----------------------------------------------------------------------------
(* The two keys *)

\* The steps that neither take a lock nor commit.
LEMMA HeldOther ==
  ASSUME TypeInv, DispatchingHeld, DlockHeld, NothingFails, [Next]_vars,
         \A i \in Instances : ~Acquire(i) /\ ~Commit(i)
  PROVE  DispatchingHeld' /\ DlockHeld'
<1> USE DEF TypeInv, TypeOK, queueVars, keyVars, otherVars, instVars, cleanVars, batchVars
<1> DEFINE Same == /\ \A u \in Users : lock'[u] \in {lock[u], Free}
                   /\ dlock' \subseteq dlock
                   /\ \A i \in Instances, u \in Users : InDispatch(i, u) =>
                        InDispatch(i, u)' /\ cur'[i][1] = cur[i][1]
<1> USE DEF Goto, InDispatch, UserOfTask
<1>1. ASSUME UNCHANGED vars PROVE Same
  BY <1>1 DEF vars
<1>2. ASSUME \E m \in Msgs : PushTask(m) \/ ExpireDispatchLock(m) \/ ExpireTracker(m) PROVE Same
  BY <1>2 DEF PushTask, Push, CheckLock, Signal, PushDies, ExpireDispatchLock, ExpireTracker
<1>3. ASSUME \E t \in Tasks : Worker(t) PROVE Same
  BY <1>3 DEF Worker, Start, Finish, ResultExpires
<1>4. ASSUME \E u \in Users : ExpireLock(u) PROVE Same
  BY <1>4 DEF ExpireLock
<1>5. ASSUME NEW i \in Instances,
             \/ Heartbeat(i) \/ Collect(i) \/ ForgetFinished(i) \/ SignalCleaned(i)
             \/ FullScan(i) \/ Restart(i)
      PROVE  Same
  BY <1>5 DEF Heartbeat, Collect, ForgetFinished, SignalCleaned, FullScan, Restart
<1>6. ASSUME NEW i \in Instances, SafeDelete(i) PROVE Same
  BY <1>6 DEF SafeDelete
<1>7. ASSUME NEW i \in Instances,
             \/ TakeReady(i) \/ RemoveReady(i) \/ ReadHeads(i) \/ DropEmpty(i) \/ Refuse(i)
             \/ Pop(i) \/ Requeue(i)
      PROVE  Same
  BY <1>7 DEF TakeReady, RemoveReady, ReadHeads, DropEmpty, Refuse, Pop, Requeue
<1>8. ASSUME NEW i \in Instances, Send(i) PROVE Same
  <2>1. pc'[i] = "commit" /\ cur'[i][1] = cur[i][1] /\ UNCHANGED <<lock, dlock>>
        /\ \A j \in Instances \ {i} : pc'[j] = pc[j] /\ cur'[j] = cur[j]
    BY <1>8 DEF Send
  <2> QED
    BY <2>1
<1>9. ASSUME NEW i \in Instances PROVE ~Fail(i)
  BY DEF Fail, DeleteFails, SendFails, CommitFails, Abort, Stop, Fault, NothingFails
<1>10. Same
  BY <1>1, <1>2, <1>3, <1>4, <1>5, <1>6, <1>7, <1>8, <1>9 DEF Next, Iterate
<1> HIDE DEF InDispatch
<1>11. DispatchingHeld'
  BY <1>10, ConstantAssumption DEF DispatchingHeld
<1>12. DlockHeld'
  BY <1>10, ConstantAssumption DEF DlockHeld
<1> QED
  BY <1>11, <1>12

\* The lock script takes both keys for the dispatch it starts.
LEMMA HeldAcquire ==
  ASSUME TypeInv, DispatchingHeld, DlockHeld, NEW i \in Instances, Acquire(i)
  PROVE  DispatchingHeld' /\ DlockHeld'
<1>1. PICK m \in heads[i] : /\ lock' = [lock EXCEPT ![UserOf[m]] = Dispatching]
                            /\ dlock' = dlock \cup {m}
                            /\ cur' = [cur EXCEPT ![i] = <<m, 0>>]
  BY DEF Acquire
<1>2. /\ pc[i] = "dispatch" /\ pc'[i] = "send" /\ cur'[i] = <<m, 0>>
      /\ \A j \in Instances \ {i} : pc'[j] = pc[j] /\ cur'[j] = cur[j]
  BY <1>1 DEF Acquire, Goto, TypeInv, TypeOK
<1>3. \A j \in Instances, u \in Users :
        InDispatch(j, u) => InDispatch(j, u)' /\ cur'[j][1] = cur[j][1]
  BY <1>2 DEF InDispatch, UserOfTask
<1>4. UserOf[m] \in Users /\ InDispatch(i, UserOf[m])' /\ cur'[i][1] = m
  BY <1>1, <1>2, ConstantAssumption DEF InDispatch, UserOfTask, TypeInv, TypeOK
<1>5. \A u \in Users : lock'[u] = lock[u] \/ u = UserOf[m]
  BY <1>1 DEF TypeInv, TypeOK
<1>6. DispatchingHeld'
  BY <1>3, <1>4, <1>5 DEF DispatchingHeld
<1>7. DlockHeld'
  BY <1>1, <1>3, <1>4, ConstantAssumption DEF DlockHeld, TypeInv, TypeOK
<1> QED
  BY <1>6, <1>7

\* The commit gives both back, one of them named after the task.
LEMMA HeldCommit ==
  ASSUME TypeInv, DispatchingHeld, DlockHeld, NEW i \in Instances, Commit(i)
  PROVE  DispatchingHeld' /\ DlockHeld'
<1>1. /\ lock' = [lock EXCEPT ![UserOfTask(cur[i])] = cur[i]]
      /\ dlock' = dlock \ {cur[i][1]} /\ cur' = cur
      /\ \A j \in Instances \ {i} : pc'[j] = pc[j]
      /\ cur[i] \in Tasks
  BY DEF Commit, WriteDispatch, Goto, batchVars, TypeInv, TypeOK, CurKnown
<1>2. \A u \in Users : lock'[u] = Dispatching => lock[u] = Dispatching /\ u # UserOfTask(cur[i])
  BY <1>1, ConstantAssumption DEF TypeInv, TypeOK
<1>3. \A j \in Instances, u \in Users :
        InDispatch(j, u) /\ ~(j = i /\ u = UserOfTask(cur[i])) => InDispatch(j, u)'
  BY <1>1 DEF InDispatch
<1>4. DispatchingHeld'
  BY <1>2, <1>3 DEF DispatchingHeld
<1>5. DlockHeld'
  <2> SUFFICES ASSUME NEW m \in dlock, m # cur[i][1]
               PROVE  \E j \in Instances : InDispatch(j, UserOf[m])' /\ cur'[j][1] = m
    BY <1>1 DEF DlockHeld
  <2>1. PICK j \in Instances : InDispatch(j, UserOf[m]) /\ cur[j][1] = m
    BY DEF DlockHeld
  <2> QED
    BY <1>1, <2>1 DEF InDispatch
<1> QED
  BY <1>4, <1>5

-----------------------------------------------------------------------------
(* Candidates *)

\* A batch has been dealt with when the next one begins.
LEMMA HeadsStep ==
  ASSUME TypeInv, HeadsDone, NothingFails, [Next]_vars PROVE HeadsDone'
<1> USE DEF TypeInv, TypeOK, queueVars, keyVars, otherVars, instVars, cleanVars, batchVars, Goto
<1>1. ASSUME UNCHANGED vars PROVE HeadsDone'
  BY <1>1 DEF vars, HeadsDone
<1>2. ASSUME \E m \in Msgs : PushTask(m) \/ ExpireDispatchLock(m) \/ ExpireTracker(m)
      PROVE  HeadsDone'
  BY <1>2 DEF PushTask, Push, CheckLock, Signal, PushDies, ExpireDispatchLock, ExpireTracker,
              HeadsDone
<1>3. ASSUME \E t \in Tasks : Worker(t) PROVE HeadsDone'
  BY <1>3 DEF Worker, Start, Finish, ResultExpires, HeadsDone
<1>4. ASSUME \E u \in Users : ExpireLock(u) PROVE HeadsDone'
  BY <1>4 DEF ExpireLock, HeadsDone
<1>5. ASSUME NEW i \in Instances,
             \/ Heartbeat(i) \/ Collect(i) \/ SafeDelete(i) \/ ForgetFinished(i)
             \/ SignalCleaned(i) \/ FullScan(i) \/ Restart(i) \/ TakeReady(i) \/ RemoveReady(i)
      PROVE  HeadsDone'
  BY <1>5 DEF Heartbeat, Collect, SafeDelete, ForgetFinished, SignalCleaned, FullScan, Restart,
              TakeReady, RemoveReady, HeadsDone
<1>6. ASSUME NEW i \in Instances, ReadHeads(i) \/ Send(i) \/ Commit(i) \/ Pop(i)
      PROVE  HeadsDone'
  BY <1>6 DEF ReadHeads, Send, Commit, Pop, HeadsDone
<1>7. ASSUME NEW i \in Instances, DropEmpty(i) \/ Refuse(i) \/ Acquire(i) \/ Requeue(i)
      PROVE  HeadsDone'
  <2>1. /\ \/ heads'[i] = {} \/ pc'[i] \in {"dispatch", "send"}
        /\ \A j \in Instances \ {i} : heads'[j] = heads[j] /\ pc'[j] = pc[j]
    <3>1. CASE DropEmpty(i)
      BY <3>1 DEF DropEmpty, NextHead
    <3>2. CASE Refuse(i)
      BY <3>2 DEF Refuse, NextHead
    <3>3. CASE Acquire(i)
      BY <3>3 DEF Acquire
    <3>4. CASE Requeue(i)
      BY <3>4 DEF Requeue, NextHead
    <3> QED
      BY <1>7, <3>1, <3>2, <3>3, <3>4
  <2> QED
    BY <2>1 DEF HeadsDone
<1>8. ASSUME NEW i \in Instances PROVE ~Fail(i)
  BY DEF Fail, DeleteFails, SendFails, CommitFails, Abort, Stop, Fault, NothingFails
<1> QED
  BY <1>1, <1>2, <1>3, <1>4, <1>5, <1>6, <1>7, <1>8 DEF Next, Iterate

-----------------------------------------------------------------------------
(* Reasons to be looked at *)

\* The steps that take no reason away: pushers, workers, expiry, and an instance outside
\* its batch.
LEMMA AwaitedStays ==
  ASSUME TypeInv, NEW u \in Users, Awaited(u),
         \/ UNCHANGED vars
         \/ \E m \in Msgs : Push(m) \/ Signal(m) \/ ExpireDispatchLock(m) \/ ExpireTracker(m)
         \/ \E t \in Tasks : Worker(t)
         \/ \E v \in Users : ExpireLock(v)
         \/ \E i \in Instances : \/ Heartbeat(i) \/ Collect(i) \/ SafeDelete(i)
                                 \/ TakeReady(i) \/ FullScan(i) \/ Restart(i)
  PROVE  Awaited(u)'
<1> USE DEF TypeInv, TypeOK, queueVars, keyVars, otherVars, instVars, cleanVars, batchVars, Goto
<1> DEFINE Same == /\ ready \subseteq ready' /\ pending' = pending
                   /\ Pushed(u) => Pushed(u)' \/ u \in ready'
                   /\ \A i \in Instances : /\ WillLookAt(i, u) => WillLookAt(i, u)'
                                           /\ gone[i] \subseteq gone'[i]
<1>1. ASSUME UNCHANGED vars PROVE Same
  BY <1>1 DEF vars, Pushed, WillLookAt
<1>2. ASSUME NEW m \in Msgs,
             Push(m) \/ Signal(m) \/ ExpireDispatchLock(m) \/ ExpireTracker(m)
      PROVE  Same
  BY <1>2 DEF Push, Signal, ExpireDispatchLock, ExpireTracker, Pushed, WillLookAt
<1>3. ASSUME NEW t \in Tasks, Worker(t) PROVE Same
  BY <1>3 DEF Worker, Start, Finish, ResultExpires, Pushed, WillLookAt
<1>4. ASSUME NEW v \in Users, ExpireLock(v) PROVE Same
  BY <1>4 DEF ExpireLock, Pushed, WillLookAt
<1>5. ASSUME NEW i \in Instances, Heartbeat(i) \/ FullScan(i) \/ Restart(i) PROVE Same
  BY <1>5 DEF Heartbeat, FullScan, Restart, Pushed, WillLookAt
<1>6. ASSUME NEW i \in Instances, Collect(i) \/ SafeDelete(i) PROVE Same
  <2>1. /\ UNCHANGED <<ready, pending, caller, batch, heads, cur>> /\ pc[i] \in {"loop", "delete"}
        /\ \A j \in Instances \ {i} : pc'[j] = pc[j]
        /\ \A j \in Instances : gone[j] \subseteq gone'[j]
    <3>1. CASE Collect(i)
      BY <3>1 DEF Collect
    <3>2. CASE SafeDelete(i)
      <4>1. PICK r \in fin[i] : gone' = [gone EXCEPT ![i] = gone[i] \cup {r}]
        BY <3>2 DEF SafeDelete
      <4>2. \A j \in Instances : gone[j] \subseteq gone'[j]
        BY <4>1
      <4> QED
        BY <3>2, <4>2 DEF SafeDelete
    <3> QED
      BY <1>6, <3>1, <3>2
  <2> QED
    BY <2>1 DEF Pushed, WillLookAt
<1>7. ASSUME NEW i \in Instances, TakeReady(i) PROVE Same
  BY <1>7 DEF TakeReady, Pushed, WillLookAt
<1>8. Same
  BY <1>1, <1>2, <1>3, <1>4, <1>5, <1>6, <1>7
<1> QED
  BY <1>8 DEF Awaited, Looked, Watched, Cleaned

\* A pusher that finds the lock taken leaves the user to whoever holds it.
LEMMA AwaitedCheck ==
  ASSUME TypeInv, WatchInv, DispatchingHeld, NEW m \in Msgs, CheckLock(m),
         NEW u \in Users, Awaited(u)
  PROVE  Awaited(u)'
<1>1. /\ UNCHANGED <<ready, pending, pc, batch, heads, cur, gone>>
      /\ caller' = [caller EXCEPT ![m] = IF lock[UserOf[m]] = Free THEN "signal" ELSE "done"]
  BY DEF CheckLock, queueVars, keyVars, instVars, cleanVars, batchVars
<1>2. (Looked(u) => Looked(u)') /\ (Watched(u) => Watched(u)') /\ (Cleaned(u) => Cleaned(u)')
  BY <1>1 DEF Looked, WillLookAt, Watched, Cleaned
<1>3. CASE Pushed(u)
  <2>1. PICK k \in Msgs : UserOf[k] = u /\ caller[k] \in {"check", "signal"}
    BY <1>3 DEF Pushed
  <2>2. CASE k # m
    <3>1. caller'[k] = caller[k]
      BY <1>1, <2>2 DEF TypeInv, TypeOK
    <3> QED
      BY <2>1, <3>1 DEF Awaited, Pushed
  <2>3. CASE k = m /\ lock[u] = Free
    <3>1. caller'[m] = "signal"
      BY <1>1, <2>1, <2>3 DEF TypeInv, TypeOK
    <3> QED
      BY <2>1, <2>3, <3>1 DEF Awaited, Pushed
  <2>4. CASE lock[u] # Free
    <3>1. Looked(u) \/ Watched(u)
      BY <2>4, LockedAwaited DEF Looked, InDispatch, WillLookAt
    <3> QED
      BY <1>2, <3>1 DEF Awaited
  <2> QED
    BY <2>2, <2>3, <2>4
<1> QED
  BY <1>1, <1>2, <1>3 DEF Awaited

\* Cleanup signals the users whose tasks it forgets.
LEMMA AwaitedCleanup ==
  ASSUME TypeInv, NEW i \in Instances, ForgetFinished(i) \/ SignalCleaned(i),
         NEW u \in Users, Awaited(u)
  PROVE  Awaited(u)'
<1> USE DEF TypeInv, TypeOK, queueVars, keyVars, otherVars, instVars, cleanVars, batchVars, Goto
<1>1. CASE ForgetFinished(i)
  <2>1. /\ UNCHANGED <<ready, caller, heads, cur, gone>>
        /\ pending' = pending \ {r[1] : r \in gone[i]}
        /\ \A j \in Instances : WillLookAt(j, u) => WillLookAt(j, u)'
    BY <1>1 DEF ForgetFinished, WillLookAt
  <2>2. ASSUME NEW t \in pending, UserOfTask(t) = u PROVE Watched(u)' \/ Cleaned(u)'
    <3>1. CASE t \in pending'
      BY <2>2, <3>1 DEF Watched, UserOfTask
    <3>2. CASE t \notin pending'
      <4>1. PICK r \in gone[i] : r[1] = t
        BY <2>1, <2>2, <3>2
      <4> QED
        BY <2>1, <2>2, <4>1 DEF Cleaned, UserOfTask
    <3> QED
      BY <3>1, <3>2
  <2> QED
    BY <2>1, <2>2 DEF Awaited, Pushed, Looked, Watched, Cleaned
<1>2. CASE SignalCleaned(i)
  <2>1. /\ UNCHANGED <<caller, heads, cur, pending>>
        /\ ready' = ready \cup {UserOfTask(r[1]) : r \in gone[i]}
        /\ gone' = [gone EXCEPT ![i] = {}]
        /\ \A j \in Instances : WillLookAt(j, u) => WillLookAt(j, u)'
    BY <1>2 DEF SignalCleaned, WillLookAt
  <2>2. Cleaned(u) => Cleaned(u)' \/ u \in ready'
    BY <2>1 DEF Cleaned
  <2> QED
    BY <2>1, <2>2 DEF Awaited, Pushed, Looked, Watched
<1> QED
  BY <1>1, <1>2

\* An instance hands each user of its batch on, from READY to its list of candidates, to
\* the dispatch and back to READY.
LEMMA AwaitedBatch ==
  ASSUME TypeInv, OrderInv, WatchInv, WakeInv, NEW i \in Instances,
         \/ RemoveReady(i) \/ ReadHeads(i) \/ DropEmpty(i) \/ Refuse(i) \/ Acquire(i)
         \/ Send(i) \/ Commit(i) \/ Pop(i) \/ Requeue(i),
         NEW u \in Users, queue'[u] # <<>>, queue[u] # <<>> => Awaited(u)
  PROVE  Awaited(u)'
<1> USE DEF TypeInv, TypeOK, queueVars, keyVars, otherVars, instVars, cleanVars, batchVars, Goto
<1>1. /\ UNCHANGED <<caller, gone>> /\ pending \subseteq pending'
      /\ \A j \in Instances \ {i} : WillLookAt(j, u) => WillLookAt(j, u)'
  <2>1. CASE RemoveReady(i) \/ ReadHeads(i) \/ DropEmpty(i)
    BY <2>1 DEF RemoveReady, ReadHeads, DropEmpty, WillLookAt
  <2>2. CASE Refuse(i) \/ Acquire(i)
    BY <2>2 DEF Refuse, Acquire, WillLookAt
  <2>3. CASE Send(i)
    BY <2>3 DEF Send, WillLookAt
  <2>4. CASE Commit(i) \/ Pop(i) \/ Requeue(i)
    BY <2>4 DEF Commit, WriteDispatch, Pop, Requeue, WillLookAt
  <2> QED
    BY <2>1, <2>2, <2>3, <2>4
<1>2. queue[u] # <<>>
  <2>1. CASE Pop(i)
    BY <2>1, PopEffect
  <2>2. CASE ~Pop(i)
    BY <2>2 DEF RemoveReady, ReadHeads, DropEmpty, Refuse, Acquire, Send, Commit, Requeue
  <2> QED
    BY <2>1, <2>2
<1>3. (Pushed(u) => Pushed(u)') /\ (Watched(u) => Watched(u)') /\ (Cleaned(u) => Cleaned(u)')
  BY <1>1 DEF Pushed, Watched, Cleaned
<1>4. (WillLookAt(i, u) => WillLookAt(i, u)' \/ u \in ready' \/ Looked(u)' \/ Watched(u)')
        => (Looked(u) => Looked(u)' \/ u \in ready' \/ Watched(u)')
  BY <1>1 DEF Looked
<1>5. /\ u \in ready => u \in ready' \/ WillLookAt(i, u)'
      /\ WillLookAt(i, u) => WillLookAt(i, u)' \/ u \in ready' \/ Looked(u)' \/ Watched(u)'
  <2>1. CASE RemoveReady(i)
    BY <2>1 DEF RemoveReady, WillLookAt
  <2>2. CASE ReadHeads(i)
    <3>1. heads[i] = {} /\ pc[i] = "heads" /\ ready' = ready
      BY <2>2 DEF ReadHeads, WakeInv, HeadsDone
    <3>2. u \in batch[i] => WillLookAt(i, u)'
      BY <1>2, <2>2, ReadHeadsEffect DEF OrderInv, WillLookAt
    <3> QED
      BY <3>1, <3>2 DEF WillLookAt
  <2>3. CASE DropEmpty(i)
    BY <2>3 DEF DropEmpty, WillLookAt
  <2>4. CASE Refuse(i)
    <3>1. PICK m \in heads[i] : /\ m \in dlock \/ lock[UserOf[m]] # Free
                                /\ heads' = [heads EXCEPT ![i] = heads[i] \ {m}]
      BY <2>4 DEF Refuse
    <3>2. UNCHANGED <<ready, pending, cur>> /\ pc[i] = "dispatch"
      BY <2>4 DEF Refuse
    <3>3. CASE UserOf[m] # u
      BY <3>1, <3>2, <3>3 DEF WillLookAt
    <3>4. CASE UserOf[m] = u
      <4>1. (\E j \in Instances : InDispatch(j, u)) \/ Watched(u)
        BY <3>1, <3>4, LockedAwaited DEF WakeInv, DlockHeld
      <4>2. ASSUME NEW j \in Instances, InDispatch(j, u) PROVE Looked(u)'
        BY <1>1, <3>2, <4>2 DEF InDispatch, WillLookAt, Looked
      <4>3. Watched(u) => Watched(u)'
        BY <1>3
      <4> QED
        BY <3>2, <4>1, <4>2, <4>3
    <3> QED
      BY <3>3, <3>4
  <2>5. CASE Acquire(i)
    BY <2>5 DEF Acquire, WillLookAt, UserOfTask
  <2>6. CASE Send(i)
    BY <2>6 DEF Send, WillLookAt, UserOfTask
  <2>7. CASE Commit(i) \/ Pop(i)
    BY <2>7 DEF Commit, Pop, WillLookAt
  <2>8. CASE Requeue(i)
    BY <1>2, <2>8 DEF Requeue, WillLookAt
  <2> QED
    BY <2>1, <2>2, <2>3, <2>4, <2>5, <2>6, <2>7, <2>8
<1> QED
  BY <1>2, <1>3, <1>4, <1>5 DEF Awaited, Looked

\* Every step leaves somebody in charge of each waiting user.
LEMMA AwaitedStep ==
  ASSUME TypeInv, OrderInv, WatchInv, WakeInv, NothingFails, [Next]_vars
  PROVE  AllAwaited'
<1> SUFFICES ASSUME NEW u \in Users, queue'[u] # <<>> PROVE Awaited(u)'
  BY DEF AllAwaited
<1>1. ASSUME NEW m \in Msgs, Push(m) PROVE Awaited(u)'
  <2>1. CASE UserOf[m] = u
    <3>1. caller'[m] = "check"
      BY <1>1 DEF Push, TypeInv, TypeOK
    <3> QED
      BY <2>1, <3>1 DEF Awaited, Pushed
  <2>2. CASE UserOf[m] # u
    <3>1. queue'[u] = queue[u]
      BY <1>1, <2>2, PushEffect
    <3> QED
      BY <1>1, <3>1, AwaitedStays DEF WakeInv, AllAwaited
  <2> QED
    BY <2>1, <2>2
<1>2. CASE \E i \in Instances : \/ RemoveReady(i) \/ ReadHeads(i) \/ DropEmpty(i) \/ Refuse(i)
                                \/ Acquire(i) \/ Send(i) \/ Commit(i) \/ Pop(i) \/ Requeue(i)
  BY <1>2, AwaitedBatch DEF WakeInv, AllAwaited
<1>3. CASE /\ \A m \in Msgs : ~Push(m)
           /\ \A i \in Instances :
                ~(\/ RemoveReady(i) \/ ReadHeads(i) \/ DropEmpty(i) \/ Refuse(i)
                  \/ Acquire(i) \/ Send(i) \/ Commit(i) \/ Pop(i) \/ Requeue(i))
  <2>1. \A i \in Instances : ~Fail(i)
    BY DEF Fail, DeleteFails, SendFails, CommitFails, Abort, Stop, Fault, NothingFails
  <2>2. \A m \in Msgs : ~PushDies(m)
    BY DEF PushDies, Fault, NothingFails
  <2>3. queue' = queue
    BY <1>3, <2>1, StepKinds DEF Settled, Moving, ReadHeads, Acquire, queueVars
  <2>4. Awaited(u)
    BY <2>3 DEF WakeInv, AllAwaited
  <2>5. \/ \E m \in Msgs : CheckLock(m) \/ Signal(m) \/ ExpireDispatchLock(m) \/ ExpireTracker(m)
        \/ \E i \in Instances : \/ Heartbeat(i) \/ Collect(i) \/ SafeDelete(i)
                                \/ ForgetFinished(i) \/ SignalCleaned(i) \/ TakeReady(i)
                                \/ FullScan(i) \/ Restart(i)
        \/ \E t \in Tasks : Worker(t)
        \/ \E v \in Users : ExpireLock(v)
        \/ UNCHANGED vars
    BY <1>3, <2>1, <2>2 DEF Next, Iterate, PushTask
  <2>6. ASSUME NEW m \in Msgs, CheckLock(m) PROVE Awaited(u)'
    BY <2>4, <2>6, AwaitedCheck DEF WakeInv
  <2>7. ASSUME NEW i \in Instances, ForgetFinished(i) \/ SignalCleaned(i) PROVE Awaited(u)'
    BY <2>4, <2>7, AwaitedCleanup
  <2> QED
    BY <2>4, <2>5, <2>6, <2>7, AwaitedStays
<1> QED
  BY <1>1, <1>2, <1>3

\* Every step keeps the parts of the invariant.
LEMMA WakeStep ==
  ASSUME TypeInv, OrderInv, WatchInv, WakeInv, NothingFails, [Next]_vars PROVE WakeInv'
<1>1. DispatchingHeld' /\ DlockHeld'
  BY HeldOther, HeldAcquire, HeldCommit DEF WakeInv
<1> QED
  BY <1>1, HeadsStep, AwaitedStep DEF WakeInv

\* No missed wake-up, without the full scan, for any number of instances whose shards may
\* overlap: as long as every call and every process goes on, a user with a message is in
\* READY, or the one who keeps him out of it will put him there.
THEOREM NobodyOverlooked == ASSUME NothingFails PROVE Spec => []NoMissedWakeup
<1>1. "reply" \notin Faults
  BY NothingFails DEF NothingFails
<1>2. TypeInv /\ OrderInv /\ WatchInv /\ WakeInv /\ [Next]_vars
        => (TypeInv /\ OrderInv /\ WatchInv /\ WakeInv)'
  BY <1>1, NothingFails, TypeStep, OrderStep, WatchStep, WakeStep
<1>3. WakeInv => NoMissedWakeup
  BY DEF WakeInv, AllAwaited, Awaited, Pushed, Looked, Watched, Cleaned, NoMissedWakeup
<1> QED
  BY <1>2, <1>3, TypeInit, OrderInit, WatchInit, WakeInit, PTL DEF Spec

-----------------------------------------------------------------------------
(* What get_task_status reports.  It goes back only when a commit writes DISPATCHED for a
   task whose end cleanup has written already; that takes a commit repeated by one instance
   after it took effect, and a cleanup of another between the two. *)

NoCommitOvertaken == OneInstance \/ "reply" \notin Faults

\* A tracker without a task id is that of push_task, or there is none; one with it is about
\* a task sent.
TrackerTells ==
  \A m \in Msgs :
    /\ tracker[m][2] = 0 => tracker[m][1] \in {"QUEUED", "NOT_FOUND"}
    /\ tracker[m][2] # 0 => /\ tracker[m][1] \in {"DISPATCHED", "FINISHED", "EXPIRED"}
                            /\ task[<<m, tracker[m][2]>>] # "none"

\* A task whose commit is being repeated has not been reported as over.
CommitsTell ==
  \A i \in Instances :
    InCommit(i) /\ tracker[cur[i][1]][2] = cur[i][2] => tracker[cur[i][1]][1] = "DISPATCHED"

TellInv == PendingSent /\ LearnedSent /\ TrackerTells /\ CommitsTell

\* Nothing is known or sent at first.
LEMMA TellInit == Init => TellInv
BY DEF Init, TellInv, PendingSent, LearnedSent, TrackerTells, CommitsTell, InCommit

\* Only workers and send_task change tasks.
LEMMA TaskActors ==
  ASSUME TypeInv, [Next]_vars, task' # task
  PROVE  (\E t \in Tasks : Worker(t)) \/ (\E i \in Instances : Send(i))
<1> USE DEF TypeInv, TypeOK, queueVars, keyVars, otherVars, instVars, cleanVars, batchVars
<1>1. ASSUME UNCHANGED vars PROVE FALSE
  BY <1>1 DEF vars
<1>2. ASSUME NEW m \in Msgs, PushTask(m) \/ ExpireDispatchLock(m) \/ ExpireTracker(m) PROVE FALSE
  BY <1>2 DEF PushTask, Push, CheckLock, Signal, PushDies, ExpireDispatchLock, ExpireTracker
<1>3. ASSUME NEW u \in Users, ExpireLock(u) PROVE FALSE
  BY <1>3 DEF ExpireLock
<1>4. ASSUME NEW i \in Instances,
             \/ Heartbeat(i) \/ Collect(i) \/ SafeDelete(i) \/ ForgetFinished(i)
             \/ SignalCleaned(i) \/ FullScan(i) \/ Restart(i) \/ TakeReady(i) \/ RemoveReady(i)
             \/ ReadHeads(i) \/ DropEmpty(i) \/ Refuse(i) \/ Acquire(i) \/ Commit(i)
             \/ Pop(i) \/ Requeue(i) \/ Fail(i)
      PROVE  FALSE
  BY <1>4 DEF Heartbeat, Collect, SafeDelete, ForgetFinished, SignalCleaned, FullScan, Restart,
              TakeReady, RemoveReady, ReadHeads, DropEmpty, Refuse, Acquire, Commit, Pop,
              Requeue, Fail, DeleteFails, SendFails, CommitFails, Abort, Stop
<1> QED
  BY <1>1, <1>2, <1>3, <1>4 DEF Next, Iterate

\* How the state of a task changes.
LEMMA TaskSteps ==
  ASSUME TypeInv, [Next]_vars, NEW t \in Tasks, task'[t] # task[t]
  PROVE  /\ tracker' = tracker
         /\ \/ task[t] = "none" /\ task'[t] = "queued"
            \/ task[t] = "queued" /\ task'[t] = "running"
            \/ task[t] = "running" /\ task'[t] = "finished"
            \/ task[t] = "finished" /\ task'[t] = "forgotten"
<1>1. CASE \E s \in Tasks : Worker(s)
  BY <1>1 DEF Worker, Start, Finish, ResultExpires, keyVars, TypeInv, TypeOK
<1>2. ASSUME NEW i \in Instances, Send(i)
      PROVE  tracker' = tracker /\ task[t] = "none" /\ task'[t] = "queued"
  <2>1. tracker' = tracker
    BY <1>2 DEF Send, keyVars
  <2> QED
    BY <1>2, <2>1, SendEffect
<1> QED
  BY <1>1, <1>2, TaskActors

\* How a tracker changes.
LEMMA TrackerSteps ==
  ASSUME TypeInv, [Next]_vars, NEW m \in Msgs, tracker'[m] # tracker[m]
  PROVE  /\ task' = task
         /\ \/ ~Known(m) /\ tracker'[m] = <<"QUEUED", 0>>
            \/ ExpireTracker(m)
            \/ \E i \in Instances : /\ InCommit(i) /\ cur[i][1] = m
                                    /\ tracker'[m] = <<"DISPATCHED", cur[i][2]>>
                                    /\ UNCHANGED caller
            \/ \E i \in Instances : /\ pc[i] = "forget" /\ UNCHANGED caller
                                    /\ \E r \in gone[i] : r[1][1] = m
                                                          /\ tracker'[m] = <<r[2], r[1][2]>>
<1> USE DEF TypeInv, TypeOK, queueVars, keyVars, otherVars, instVars, cleanVars, batchVars
<1>1. ASSUME NEW k \in Msgs, Push(k)
      PROVE  task' = task /\ ~Known(m) /\ tracker'[m] = <<"QUEUED", 0>>
  BY <1>1 DEF Push, Known
<1>2. ASSUME NEW i \in Instances, Commit(i) \/ CommitFails(i)
      PROVE  /\ task' = task /\ caller' = caller /\ InCommit(i) /\ cur[i][1] = m
             /\ tracker'[m] = <<"DISPATCHED", cur[i][2]>>
  BY <1>2 DEF Commit, CommitFails, WriteDispatch, InCommit
<1>3. ASSUME NEW i \in Instances, ForgetFinished(i)
      PROVE  /\ task' = task /\ caller' = caller /\ pc[i] = "forget"
             /\ \E r \in gone[i] : r[1][1] = m /\ tracker'[m] = <<r[2], r[1][2]>>
  <2>1. PICK last \in [{r[1][1] : r \in gone[i]} -> gone[i]] :
          /\ \A k \in DOMAIN last : last[k][1][1] = k
          /\ tracker' = [k \in Msgs |-> IF k \in DOMAIN last THEN <<last[k][2], last[k][1][2]>>
                                                             ELSE tracker[k]]
    BY <1>3 DEF ForgetFinished
  <2>2. m \in DOMAIN last /\ tracker'[m] = <<last[m][2], last[m][1][2]>>
    BY <2>1
  <2>3. last[m] \in gone[i] /\ last[m][1][1] = m
    BY <2>1, <2>2
  <2>4. task' = task /\ caller' = caller /\ pc[i] = "forget"
    BY <1>3 DEF ForgetFinished
  <2> QED
    BY <2>2, <2>3, <2>4
<1>4. ASSUME UNCHANGED vars PROVE FALSE
  BY <1>4 DEF vars
<1>5. ASSUME NEW k \in Msgs, CheckLock(k) \/ Signal(k) \/ PushDies(k) \/ ExpireDispatchLock(k)
      PROVE  FALSE
  BY <1>5 DEF CheckLock, Signal, PushDies, ExpireDispatchLock
<1>6. ASSUME \/ \E t \in Tasks : Worker(t)
             \/ \E u \in Users : ExpireLock(u)
      PROVE  FALSE
  BY <1>6 DEF Worker, Start, Finish, ResultExpires, ExpireLock
<1>7. ASSUME NEW i \in Instances,
             \/ Heartbeat(i) \/ Collect(i) \/ SafeDelete(i)
             \/ SignalCleaned(i) \/ FullScan(i) \/ Restart(i) \/ TakeReady(i) \/ RemoveReady(i)
             \/ ReadHeads(i) \/ DropEmpty(i) \/ Refuse(i) \/ Acquire(i) \/ Send(i)
             \/ Pop(i) \/ Requeue(i) \/ DeleteFails(i) \/ SendFails(i) \/ Abort(i) \/ Stop(i)
      PROVE  FALSE
  BY <1>7 DEF Heartbeat, Collect, SafeDelete, SignalCleaned, FullScan, Restart,
              TakeReady, RemoveReady, ReadHeads, DropEmpty, Refuse, Acquire, Send, Pop,
              Requeue, DeleteFails, SendFails, Abort, Stop
<1>8. ASSUME NEW k \in Msgs, ExpireTracker(k) PROVE task' = task /\ ExpireTracker(m)
  BY <1>8 DEF ExpireTracker
<1> QED
  BY <1>1, <1>2, <1>3, <1>4, <1>5, <1>6, <1>7, <1>8 DEF Next, Iterate, Fail, PushTask

\* What cleanup and pending_tasks learn of.
LEMMA LearnSteps ==
  ASSUME TypeInv, [Next]_vars
  PROVE  /\ \A t \in pending' : t \in pending \/ \E i \in Instances : InCommit(i) /\ t = cur[i]
         /\ \A j \in Instances : \A r \in fin'[j] \cup gone'[j] :
              r \in fin[j] \cup gone[j] \/ r[1] \in pending
<1> USE DEF TypeInv, TypeOK, queueVars, keyVars, otherVars, instVars, cleanVars, batchVars
<1> DEFINE Learns == \A j \in Instances : \A r \in fin'[j] \cup gone'[j] :
                       r \in fin[j] \cup gone[j] \/ r[1] \in pending
<1>1. ASSUME UNCHANGED vars PROVE pending' = pending /\ Learns
  BY <1>1 DEF vars
<1>2. ASSUME NEW m \in Msgs, PushTask(m) \/ ExpireDispatchLock(m) \/ ExpireTracker(m)
      PROVE  pending' = pending /\ Learns
  BY <1>2 DEF PushTask, Push, CheckLock, Signal, PushDies, ExpireDispatchLock, ExpireTracker
<1>3. ASSUME \/ \E t \in Tasks : Worker(t)
             \/ \E u \in Users : ExpireLock(u)
      PROVE  pending' = pending /\ Learns
  BY <1>3 DEF Worker, Start, Finish, ResultExpires, ExpireLock
<1>4. ASSUME NEW i \in Instances,
             \/ Heartbeat(i) \/ FullScan(i) \/ Restart(i) \/ TakeReady(i) \/ RemoveReady(i)
             \/ ReadHeads(i) \/ DropEmpty(i) \/ Refuse(i) \/ Acquire(i) \/ Send(i) \/ SendFails(i)
             \/ Pop(i) \/ Requeue(i)
      PROVE  pending' = pending /\ Learns
  BY <1>4 DEF Heartbeat, FullScan, Restart, TakeReady, RemoveReady, ReadHeads, DropEmpty, Refuse,
              Acquire, Send, SendFails, Pop, Requeue
<1>5. ASSUME NEW i \in Instances, Collect(i) PROVE pending' = pending /\ Learns
  BY <1>5 DEF Collect
<1>6. ASSUME NEW i \in Instances, SafeDelete(i) PROVE pending' = pending /\ Learns
  <2>1. PICK r \in fin[i] : /\ fin' = [fin EXCEPT ![i] = fin[i] \ {r}]
                            /\ gone' = [gone EXCEPT ![i] = gone[i] \cup {r}]
    BY <1>6 DEF SafeDelete
  <2>2. pending' = pending
    BY <1>6 DEF SafeDelete
  <2> QED
    BY <2>1, <2>2
<1>7. ASSUME NEW i \in Instances, DeleteFails(i) \/ SignalCleaned(i) \/ Abort(i) \/ Stop(i)
      PROVE  pending' = pending /\ Learns
  <2>1. CASE DeleteFails(i)
    BY <2>1 DEF DeleteFails
  <2>2. CASE SignalCleaned(i)
    BY <2>2 DEF SignalCleaned
  <2>3. CASE Abort(i) \/ Stop(i)
    <3>1. /\ fin' = [fin EXCEPT ![i] = {}] /\ gone' = [gone EXCEPT ![i] = {}]
          /\ pending' = pending
      BY <2>3 DEF Abort, Stop, Drop
    <3> QED
      BY <3>1
  <2> QED
    BY <1>7, <2>1, <2>2, <2>3
<1>8. ASSUME NEW i \in Instances, ForgetFinished(i) PROVE pending' \subseteq pending /\ Learns
  BY <1>8 DEF ForgetFinished
<1>9. ASSUME NEW i \in Instances, Commit(i) \/ CommitFails(i)
      PROVE  InCommit(i) /\ pending' \subseteq pending \cup {cur[i]} /\ Learns
  BY <1>9 DEF Commit, CommitFails, WriteDispatch, InCommit
<1> QED
  BY <1>1, <1>2, <1>3, <1>4, <1>5, <1>6, <1>7, <1>8, <1>9 DEF Next, Iterate, Fail

\* Who is in a commit, and for which task.
LEMMA CommitSteps ==
  ASSUME TypeInv, [Next]_vars, NEW i \in Instances, InCommit(i)'
  PROVE  (InCommit(i) /\ cur'[i] = cur[i]) \/ Send(i)
<1> USE DEF TypeInv, TypeOK, queueVars, keyVars, otherVars, instVars, cleanVars, batchVars, Goto,
            InCommit
<1>1. CASE UNCHANGED vars
  BY <1>1 DEF vars
<1>2. CASE \E m \in Msgs : PushTask(m) \/ ExpireDispatchLock(m) \/ ExpireTracker(m)
  BY <1>2 DEF PushTask, Push, CheckLock, Signal, PushDies, ExpireDispatchLock, ExpireTracker
<1>3. CASE \/ \E t \in Tasks : Worker(t)
           \/ \E u \in Users : ExpireLock(u)
  BY <1>3 DEF Worker, Start, Finish, ResultExpires, ExpireLock
<1>4. ASSUME NEW j \in Instances,
             \/ Heartbeat(j) \/ Collect(j) \/ SafeDelete(j) \/ DeleteFails(j)
             \/ ForgetFinished(j) \/ SignalCleaned(j) \/ FullScan(j) \/ Restart(j)
      PROVE  InCommit(i) /\ cur'[i] = cur[i]
  BY <1>4 DEF Heartbeat, Collect, SafeDelete, DeleteFails, ForgetFinished, SignalCleaned,
              FullScan, Restart
<1>5. ASSUME NEW j \in Instances,
             \/ TakeReady(j) \/ RemoveReady(j) \/ ReadHeads(j) \/ DropEmpty(j) \/ Refuse(j)
             \/ Acquire(j)
      PROVE  InCommit(i) /\ cur'[i] = cur[i]
  BY <1>5 DEF TakeReady, RemoveReady, ReadHeads, DropEmpty, Refuse, Acquire, NextHead
<1>6. ASSUME NEW j \in Instances, Commit(j) \/ CommitFails(j)
      PROVE  InCommit(i) /\ cur'[i] = cur[i]
  BY <1>6 DEF Commit, CommitFails
<1>7. ASSUME NEW j \in Instances, Pop(j) \/ Requeue(j) \/ SendFails(j)
      PROVE  InCommit(i) /\ cur'[i] = cur[i]
  BY <1>7 DEF Pop, Requeue, SendFails, NextHead
<1>8. ASSUME NEW j \in Instances, Abort(j) \/ Stop(j)
      PROVE  InCommit(i) /\ cur'[i] = cur[i]
  BY <1>8 DEF Abort, Stop, Drop
<1>9. ASSUME NEW j \in Instances, Send(j), j # i PROVE InCommit(i) /\ cur'[i] = cur[i]
  BY <1>9, SendEffect
<1> QED
  BY <1>1, <1>2, <1>3, <1>4, <1>5, <1>6, <1>7, <1>8, <1>9 DEF Next, Iterate, Fail

\* Cleanup is not about to forget a task whose commit may still be repeated.
CommitsApart == OneInstance \/ ("reply" \notin Faults /\ WatchInv)

\* Every step keeps what the trackers tell.
LEMMA TellStep ==
  ASSUME TypeInv, OrderInv, FlightSent, CommitsApart, TellInv, [Next]_vars
  PROVE  TellInv'
<1>1. \A t \in Tasks : task[t] # "none" => task'[t] # "none"
  BY TaskSteps
<1>2. PendingSent'
  <2>1. pending \subseteq Tasks /\ \A i \in Instances : InCommit(i) => cur[i] \in Tasks
    BY DEF TypeInv, TypeOK, CurKnown, InCommit
  <2>2. \A i \in Instances : InCommit(i) => task[cur[i]] # "none"
    BY DEF FlightSent, InFlight, InCommit
  <2> QED
    BY <1>1, <2>1, <2>2, LearnSteps DEF TellInv, PendingSent
<1>3. LearnedSent'
  <2>1. pending \subseteq Tasks /\ \A j \in Instances : \A r \in fin[j] \cup gone[j] : r[1] \in Tasks
    BY OutcomeTasks DEF TypeInv, TypeOK
  <2>2. \A j \in Instances : \A r \in fin'[j] \cup gone'[j] :
          r \in fin[j] \cup gone[j] \/ r[1] \in pending
    BY LearnSteps
  <2>3. \A j \in Instances : \A r \in fin'[j] \cup gone'[j] : task'[r[1]] # "none"
    BY <1>1, <2>1, <2>2 DEF TellInv, PendingSent, LearnedSent
  <2> QED
    BY <2>3 DEF LearnedSent
<1>4. TrackerTells'
  <2> SUFFICES ASSUME NEW m \in Msgs
               PROVE  /\ tracker'[m][2] = 0
                           => tracker'[m][1] \in {"QUEUED", "NOT_FOUND"}
                      /\ tracker'[m][2] # 0
                           => /\ tracker'[m][1] \in {"DISPATCHED", "FINISHED", "EXPIRED"}
                              /\ task'[<<m, tracker'[m][2]>>] # "none"
    BY DEF TrackerTells
  <2>1. CASE tracker'[m] = tracker[m]
    <3>1. tracker[m][2] # 0 => <<m, tracker[m][2]>> \in Tasks
      BY DEF TypeInv, TypeOK, Tasks
    <3> QED
      BY <1>1, <2>1, <3>1 DEF TellInv, TrackerTells
  <2>2. CASE tracker'[m] # tracker[m]
    <3>1. CASE tracker'[m] = <<"QUEUED", 0>>
      BY <3>1
    <3>2. ASSUME NEW i \in Instances, InCommit(i), cur[i][1] = m,
                 tracker'[m] = <<"DISPATCHED", cur[i][2]>>
          PROVE  /\ tracker'[m][1] = "DISPATCHED" /\ tracker'[m][2] # 0
                 /\ task'[<<m, tracker'[m][2]>>] # "none"
      <4>1. cur[i] \in Tasks /\ task[cur[i]] # "none"
        BY <3>2 DEF TypeInv, CurKnown, InCommit, FlightSent, InFlight
      <4>2. cur[i] = <<m, cur[i][2]>> /\ cur[i][2] # 0
        BY <3>2, <4>1 DEF Tasks
      <4> QED
        BY <1>1, <3>2, <4>1, <4>2
    <3>3. ASSUME NEW i \in Instances, NEW r \in gone[i], r[1][1] = m,
                 tracker'[m] = <<r[2], r[1][2]>>
          PROVE  /\ tracker'[m][1] \in {"FINISHED", "EXPIRED"} /\ tracker'[m][2] # 0
                 /\ task'[<<m, tracker'[m][2]>>] # "none"
      <4>1. r \in Outcomes
        BY DEF TypeInv, TypeOK
      <4>2. r[2] \in {"FINISHED", "EXPIRED"} /\ r[1] \in Tasks /\ task[r[1]] # "none"
        BY <4>1 DEF Outcomes, TellInv, LearnedSent
      <4>3. r[1] = <<m, r[1][2]>> /\ r[1][2] # 0
        BY <3>3, <4>2 DEF Tasks
      <4> QED
        BY <1>1, <3>3, <4>2, <4>3
    <3>4. CASE ExpireTracker(m)
      <4>1. tracker'[m] = <<"NOT_FOUND", 0>>
        BY <3>4 DEF ExpireTracker, TypeInv, TypeOK
      <4> QED
        BY <4>1
    <3> QED
      BY <2>2, <3>1, <3>2, <3>3, <3>4, TrackerSteps
  <2> QED
    BY <2>1, <2>2
<1>5. CommitsTell'
  <2> SUFFICES ASSUME NEW i \in Instances, InCommit(i)',
                      tracker'[cur'[i][1]][2] = cur'[i][2]
               PROVE  tracker'[cur'[i][1]][1] = "DISPATCHED"
    BY DEF CommitsTell
  <2>1. CASE Send(i)
    <3>1. PICK k \in 1 .. MaxSends :
            LET t == <<cur[i][1], k>>
            IN  t \in Tasks /\ t[1] \in Msgs /\ task[t] = "none" /\ task'[t] = "queued" /\ cur'[i] = t
      BY <2>1, SendEffect
    <3>2. tracker' = tracker
      BY <2>1 DEF Send, keyVars
    <3> QED
      BY <3>1, <3>2 DEF TellInv, TrackerTells
  <2>2. CASE InCommit(i) /\ cur'[i] = cur[i]
    <3> DEFINE m == cur[i][1]
    <3>1. cur[i] \in Tasks /\ m \in Msgs /\ cur[i] = <<m, cur[i][2]>> /\ cur[i][2] # 0
      BY <2>2 DEF TypeInv, CurKnown, InCommit, Tasks
    <3>2. CASE tracker'[m] = tracker[m]
      BY <2>2, <3>2 DEF TellInv, CommitsTell
    <3>3. ASSUME NEW j \in Instances, pc[j] = "forget", NEW r \in gone[j], r[1][1] = m,
                 tracker'[m] = <<r[2], r[1][2]>>
          PROVE  FALSE
      <4>1. r[1] \in Tasks
        BY OutcomeTasks DEF TypeInv
      <4>2. r[1] = cur[i]
        BY <2>2, <3>1, <3>3, <4>1 DEF Tasks
      <4>3. CASE OneInstance
        BY <2>2, <3>3, <4>3 DEF OneInstance, InCommit
      <4>4. CASE WatchInv
        BY <2>2, <4>2, <4>4 DEF WatchInv, CommitsOnce
      <4> QED
        BY <4>3, <4>4 DEF CommitsApart
    <3>4. CASE tracker'[m] # tracker[m]
      <4>1. ExpireTracker(m) => tracker'[m][2] = 0
        BY <3>1 DEF ExpireTracker, TypeInv, TypeOK
      <4>2. \/ tracker'[m] = <<"QUEUED", 0>> \/ tracker'[m][1] = "DISPATCHED"
            \/ ExpireTracker(m)
        BY <3>1, <3>3, <3>4, TrackerSteps
      <4> QED
        BY <2>2, <3>1, <4>1, <4>2
    <3> QED
      BY <2>2, <3>2, <3>4
  <2> QED
    BY <2>1, <2>2, CommitSteps
<1> QED
  BY <1>2, <1>3, <1>4, <1>5 DEF TellInv

\* What StatusNeverGoesBack asks of a step.
StatusForward ==
  \A m \in Msgs : \/ Rank(TaskStatus(m)) <= Rank(TaskStatus(m)')
                  \/ tracker[m][2] # 0 /\ tracker'[m][2] \notin {0, tracker[m][2]}
                  \/ /\ tracker[m][1] = "DISPATCHED"
                     /\ task'[<<m, tracker[m][2]>>] = "forgotten"
                  \/ ExpireTracker(m)

\* The rank of what is reported, by tracker and task.
LEMMA Ranks ==
  ASSUME TypeInv, TellInv, NEW m \in Msgs
  PROVE  /\ Rank(TaskStatus(m)) \in 0 .. 4
         /\ tracker[m][1] \in {"FINISHED", "EXPIRED"} => Rank(TaskStatus(m)) = 4
         /\ tracker[m][2] = 0 =>
              Rank(TaskStatus(m)) = IF tracker[m][1] = "QUEUED" THEN 1 ELSE 0
         /\ tracker[m][1] = "DISPATCHED" =>
              Rank(TaskStatus(m)) = CASE task[<<m, tracker[m][2]>>] = "running"  -> 3
                                      [] task[<<m, tracker[m][2]>>] = "finished" -> 4
                                      [] OTHER -> 2
<1>1. tracker[m][1] \in Statuses
  BY DEF TypeInv, TypeOK
<1>2. tracker[m][2] = 0 => tracker[m][1] \in {"QUEUED", "NOT_FOUND"}
  BY DEF TellInv, TrackerTells
<1> QED
  BY <1>1, <1>2 DEF Rank, TaskStatus, Statuses

\* No step sets a status back.
LEMMA ForwardStep ==
  ASSUME TypeInv, OrderInv, FlightSent, CommitsApart, TellInv, TypeInv', TellInv', [Next]_vars
  PROVE  StatusForward
<1> SUFFICES ASSUME NEW m \in Msgs,
                    tracker[m][2] = 0 \/ tracker'[m][2] \in {0, tracker[m][2]},
                    ~(tracker[m][1] = "DISPATCHED"
                      /\ task'[<<m, tracker[m][2]>>] = "forgotten"),
                    ~ExpireTracker(m)
             PROVE  Rank(TaskStatus(m)) <= Rank(TaskStatus(m)')
  BY DEF StatusForward
<1>1. /\ Rank(TaskStatus(m)') \in 0 .. 4
      /\ tracker'[m][1] \in {"FINISHED", "EXPIRED"} => Rank(TaskStatus(m)') = 4
      /\ tracker'[m][2] = 0 =>
           Rank(TaskStatus(m)') = IF tracker'[m][1] = "QUEUED" THEN 1 ELSE 0
      /\ tracker'[m][1] = "DISPATCHED" =>
           Rank(TaskStatus(m)') = CASE task'[<<m, tracker'[m][2]>>] = "running"  -> 3
                                    [] task'[<<m, tracker'[m][2]>>] = "finished" -> 4
                                    [] OTHER -> 2
  <2>1. /\ tracker'[m][1] \in Statuses
        /\ tracker'[m][2] = 0 => tracker'[m][1] \in {"QUEUED", "NOT_FOUND"}
    BY DEF TypeInv, TypeOK, TellInv, TrackerTells
  <2> QED
    BY <2>1 DEF Rank, TaskStatus, Statuses
<1>2. /\ tracker[m][2] # 0 => /\ tracker[m][1] \in {"DISPATCHED", "FINISHED", "EXPIRED"}
                              /\ <<m, tracker[m][2]>> \in Tasks
                              /\ task[<<m, tracker[m][2]>>] # "none"
  BY DEF TypeInv, TypeOK, TellInv, TrackerTells, Tasks
<1>3. CASE tracker'[m] = tracker[m]
  <2>1. CASE tracker[m][2] = 0
    BY <1>1, <1>3, <2>1, Ranks
  <2>2. CASE tracker[m][2] # 0 /\ tracker[m][1] # "DISPATCHED"
    BY <1>1, <1>2, <1>3, <2>2, Ranks
  <2>3. CASE tracker[m][2] # 0 /\ tracker[m][1] = "DISPATCHED"
    <3> DEFINE t == <<m, tracker[m][2]>>
    <3>1. t \in Tasks /\ task[t] # "none"
      BY <1>2, <2>3
    <3>2. \/ task'[t] = task[t]
          \/ task[t] = "queued" /\ task'[t] = "running"
          \/ task[t] = "running" /\ task'[t] = "finished"
          \/ task'[t] = "forgotten"
      BY <3>1, TaskSteps
    <3>3. task'[t] # "forgotten"
      BY <2>3
    <3> QED
      BY <1>1, <1>3, <2>3, <3>2, <3>3, Ranks
  <2> QED
    BY <2>1, <2>2, <2>3
<1>4. CASE tracker'[m] # tracker[m]
  <2>1. CASE ~Known(m) /\ tracker'[m] = <<"QUEUED", 0>>
    <3>1. tracker'[m][1] = "QUEUED" /\ tracker'[m][2] = 0
      BY <2>1
    <3>2. tracker[m][2] = 0
      BY <1>2, <2>1 DEF OrderInv, SentFromFirst, Tasks
    <3> QED
      BY <1>1, <2>1, <3>1, <3>2, Ranks
  <2>2. ASSUME NEW i \in Instances, InCommit(i), cur[i][1] = m,
               tracker'[m] = <<"DISPATCHED", cur[i][2]>>
        PROVE  Rank(TaskStatus(m)) <= Rank(TaskStatus(m)')
    <3>1. tracker'[m][1] = "DISPATCHED" /\ tracker'[m][2] = cur[i][2]
      BY <2>2
    <3>2. CASE tracker[m][2] = 0
      BY <1>1, <3>1, <3>2, Ranks
    <3>3. CASE tracker[m][2] # 0
      <4>1. tracker[m][2] = cur[i][2]
        BY <2>2, <3>1, <3>3 DEF TypeInv, CurKnown, InCommit, Tasks
      <4>2. tracker[m][1] = "DISPATCHED"
        BY <2>2, <4>1 DEF TellInv, CommitsTell
      <4>3. tracker'[m] = tracker[m]
        BY <2>2, <4>1, <4>2 DEF TypeInv, TypeOK
      <4> QED
        BY <1>4, <4>3
    <3> QED
      BY <3>2, <3>3
  <2>3. ASSUME NEW i \in Instances, NEW r \in gone[i], tracker'[m] = <<r[2], r[1][2]>>
        PROVE  Rank(TaskStatus(m)) <= Rank(TaskStatus(m)')
    <3>1. r[2] \in {"FINISHED", "EXPIRED"}
      BY DEF TypeInv, TypeOK, Outcomes
    <3> QED
      BY <1>1, <2>3, <3>1, Ranks
  <2> QED
    BY <1>4, <2>1, <2>2, <2>3, TrackerSteps
<1> QED
  BY <1>3, <1>4

\* With one instance, or if no commit is repeated after it took effect, the status that
\* get_task_status puts together from tracker and result never goes back, except for
\* another task of the message, a result that expired before cleanup read it, or a tracker
\* at the end of its day.
THEOREM StatusMonotone == ASSUME NoCommitOvertaken PROVE Spec => StatusNeverGoesBack
<1> DEFINE Inv == TypeInv /\ OrderInv /\ FlightSent /\ CommitsApart /\ TellInv
<1>1. Init => Inv
  <2>1. Init => CommitsApart
    BY NoCommitOvertaken, WatchInit DEF NoCommitOvertaken, CommitsApart
  <2>2. Init => FlightSent
    BY KeepInit DEF KeepInv
  <2> QED
    BY <2>1, <2>2, TypeInit, OrderInit, TellInit
<1>2. Inv /\ [Next]_vars => Inv'
  <2>1. TypeInv /\ CommitsApart /\ [Next]_vars => CommitsApart'
    BY WatchStep DEF CommitsApart, OneInstance
  <2> QED
    BY <2>1, TypeStep, OrderStep, FlightStep, TellStep
<1>3. Inv /\ Inv' /\ [Next]_vars => [StatusForward]_vars
  BY ForwardStep
<1> QED
  BY <1>1, <1>2, <1>3, PTL DEF Spec, StatusNeverGoesBack, StatusForward

=============================================================================
