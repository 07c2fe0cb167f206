---------------------- MODULE SchedulerRefinementProofs ----------------------
(***************************************************************************)
(* One scheduler instance implements SerialQueue: for any users, messages   *)
(* and bounds, every step of it is a step of the abstract queue or leaves   *)
(* that unchanged.                                                          *)
(***************************************************************************)
EXTENDS SchedulerRefinement, SchedulerWakeupProofs

\* The faults that the promise survives: the instance neither stops nor abandons an
\* iteration, no commit is repeated after it took effect, and neither a lock nor
\* TASK_TIMEOUT runs out under an unfinished task.
HarmlessFaults == Faults \subseteq {"send", "commit", "push", "lapse", "result", "day"}

-----------------------------------------------------------------------------
(* Each message is sent once. *)

\* A message that has been sent leaves its list with the dispatch that sent it.
SentInFlight ==
  \A m \in Msgs : Queued(m) /\ Sent(m) => \E i \in Instances : InFlight(i) /\ cur[i][1] = m

\* A dispatch under way goes on to its pop.
LEMMA FlightStays ==
  ASSUME TypeInv, HarmlessFaults, [Next]_vars, NEW i \in Instances, InFlight(i), ~Pop(i)
  PROVE  InFlight(i)' /\ cur'[i] = cur[i]
<1> USE DEF TypeInv, TypeOK, queueVars, keyVars, otherVars, instVars, cleanVars, batchVars, Goto,
            InFlight
<1>1. CASE UNCHANGED vars
  BY <1>1 DEF vars
<1>2. CASE \E m \in Msgs : PushTask(m) \/ ExpireDispatchLock(m) \/ ExpireTracker(m)
  BY <1>2 DEF PushTask, Push, CheckLock, Signal, PushDies, ExpireDispatchLock, ExpireTracker
<1>3. CASE \/ \E t \in Tasks : Worker(t)
           \/ \E u \in Users : ExpireLock(u)
  BY <1>3 DEF Worker, Start, Finish, ResultExpires, ExpireLock
<1>4. ASSUME NEW j \in Instances,
             \/ Heartbeat(j) \/ Collect(j) \/ SafeDelete(j)
             \/ ForgetFinished(j) \/ SignalCleaned(j) \/ FullScan(j) \/ Restart(j)
      PROVE  InFlight(i)' /\ cur'[i] = cur[i]
  BY <1>4 DEF Heartbeat, Collect, SafeDelete, ForgetFinished, SignalCleaned, FullScan, Restart
<1>5. ASSUME NEW j \in Instances,
             \/ TakeReady(j) \/ RemoveReady(j) \/ ReadHeads(j) \/ DropEmpty(j) \/ Refuse(j)
             \/ Acquire(j)
      PROVE  InFlight(i)' /\ cur'[i] = cur[i]
  BY <1>5 DEF TakeReady, RemoveReady, ReadHeads, DropEmpty, Refuse, Acquire, NextHead
<1>6. ASSUME NEW j \in Instances, Commit(j) \/ CommitFails(j)
      PROVE  InFlight(i)' /\ cur'[i] = cur[i]
  BY <1>6 DEF Commit, CommitFails
<1>7. ASSUME NEW j \in Instances, Requeue(j) \/ SendFails(j)
      PROVE  InFlight(i)' /\ cur'[i] = cur[i]
  BY <1>7 DEF Requeue, SendFails, NextHead
<1>8. ASSUME NEW j \in Instances, Send(j) PROVE InFlight(i)' /\ cur'[i] = cur[i]
  BY <1>8, SendEffect
<1>9. ASSUME NEW j \in Instances, Pop(j), j # i PROVE InFlight(i)' /\ cur'[i] = cur[i]
  BY <1>9, PopEffect
<1>10. \A j \in Instances : ~DeleteFails(j) /\ ~Abort(j) /\ ~Stop(j)
  BY DEF HarmlessFaults, DeleteFails, Abort, Stop, Fault
<1> QED
  BY <1>1, <1>2, <1>3, <1>4, <1>5, <1>6, <1>7, <1>8, <1>9, <1>10 DEF Next, Iterate, Fail

\* How a message gets into a list, and how it is sent.
LEMMA QueuedAndSent ==
  ASSUME TypeInv, OrderInv, [Next]_vars, NEW m \in Msgs
  PROVE  /\ Queued(m)' => Queued(m) \/ ~Sent(m)'
         /\ Sent(m)' => Sent(m) \/ \E i \in Instances : Send(i) /\ cur'[i][1] = m
<1>1. \A k \in 1 .. MaxSends : <<m, k>> \in Tasks
  BY DEF Tasks
<1>2. CASE Settled
  BY <1>1, <1>2 DEF Settled, Queued, Sent
<1>3. ASSUME NEW k \in Msgs, Push(k)
      PROVE  (Queued(m)' <=> Queued(m) \/ m = k) /\ task' = task /\ ~Sent(k)
  <2>1. Queued(m)' <=> Queued(m) \/ m = k
    BY <1>3, QueuedPush
  <2>2. task' = task /\ ~Known(k)
    BY <1>3, PushEffect
  <2> QED
    BY <2>1, <2>2 DEF OrderInv, SentFromFirst, Sent
<1>4. ASSUME NEW i \in Instances, ReadHeads(i) \/ Acquire(i) PROVE UNCHANGED <<queue, task>>
  BY <1>4 DEF ReadHeads, Acquire, queueVars, otherVars
<1>5. ASSUME NEW i \in Instances, Send(i)
      PROVE  queue' = queue /\ (Sent(m)' => Sent(m) \/ cur'[i][1] = m)
  <2>1. PICK k \in 1 .. MaxSends :
          LET t == <<cur[i][1], k>>
          IN  /\ t \in Tasks /\ \A s \in Tasks \ {t} : task'[s] = task[s]
              /\ cur'[i] = t /\ queue' = queue
    BY <1>5, SendEffect
  <2>2. cur'[i][1] # m => \A n \in 1 .. MaxSends : task'[<<m, n>>] = task[<<m, n>>]
    BY <1>1, <2>1
  <2> QED
    BY <2>1, <2>2 DEF Sent
<1>6. ASSUME NEW i \in Instances, Pop(i) PROVE (Queued(m)' => Queued(m)) /\ task' = task
  BY <1>6, QueuedPop, PopEffect DEF OrderInv
<1>7. CASE \E k \in Msgs : Push(k)
  BY <1>3, <1>7 DEF Sent
<1>8. CASE \E i \in Instances : ReadHeads(i) \/ Acquire(i)
  BY <1>4, <1>8 DEF Queued, Sent
<1>9. CASE \E i \in Instances : Send(i)
  BY <1>5, <1>9 DEF Queued
<1>10. CASE \E i \in Instances : Pop(i)
  BY <1>6, <1>10 DEF Sent
<1> QED
  BY <1>2, <1>7, <1>8, <1>9, <1>10, StepKinds DEF Moving

\* What is sent is in flight until it is popped.
LEMMA InFlightStep ==
  ASSUME TypeInv, OrderInv, KeepInv, SentInFlight, OneInstance, HarmlessFaults, [Next]_vars
  PROVE  SentInFlight'
<1> SUFFICES ASSUME NEW m \in Msgs, Queued(m)', Sent(m)'
             PROVE  \E i \in Instances : InFlight(i)' /\ cur'[i][1] = m
  BY DEF SentInFlight
<1>1. ASSUME NEW i \in Instances, Send(i), cur'[i][1] = m PROVE InFlight(i)'
  BY <1>1, SendEffect DEF InFlight
<1>2. CASE Sent(m) /\ Queued(m)
  <2>1. PICK i \in Instances : InFlight(i) /\ cur[i][1] = m
    BY <1>2 DEF SentInFlight
  <2>2. CASE ~Pop(i)
    BY <2>1, <2>2, FlightStays
  <2>3. CASE Pop(i)
    <3>1. cur[i] \in Tasks /\ UserOf[m] = UserOfTask(cur[i])
      BY <2>1 DEF TypeInv, CurKnown, InFlight, UserOfTask
    <3>2. ~Behind(m)
      BY <2>1 DEF OrderInv, Fronts, Candidate, Dispatches, InFlight
    <3>3. PICK h \in Msgs : /\ \A x \in Msgs : Queued(x)' <=> Queued(x) /\ x # h
                            /\ \A x \in Msgs : Queued(x) /\ ~Behind(x)
                                 /\ UserOf[x] = UserOfTask(cur[i]) => x = h
      BY <1>2, <2>3, <3>1, QueuedPop DEF OrderInv
    <3> QED
      BY <1>2, <3>1, <3>2, <3>3
  <2> QED
    BY <2>2, <2>3
<1> QED
  BY <1>1, <1>2, QueuedAndSent

-----------------------------------------------------------------------------
(* The steps of the abstract queue *)

RefinementInv == TypeInv /\ ExclusionInv /\ OrderInv /\ KeepInv /\ SentInFlight

\* Lists of which the first element may be hidden.
LEMMA TailAppend ==
  ASSUME NEW S, NEW q \in Seq(S), q # <<>>, NEW x \in S
  PROVE  /\ Append(q, x) # <<>> /\ Head(Append(q, x)) = Head(q)
         /\ Tail(Append(q, x)) = Append(Tail(q), x)
OBVIOUS

\* A list of one element begins with it.
LEMMA SingleAppend ==
  ASSUME NEW x
  PROVE  Append(<<>>, x) # <<>> /\ Head(Append(<<>>, x)) = x
OBVIOUS

\* Only sent messages are running or done.
LEMMA RunningOrDone == TypeInv => Running \cup Done = {m \in Msgs : Sent(m)}
<1> SUFFICES ASSUME TypeInv PROVE Running \cup Done = {m \in Msgs : Sent(m)}
  OBVIOUS
<1>1. \A m \in Msgs, k \in 1 .. MaxSends :
        task[<<m, k>>] # "none" <=> IsLive(<<m, k>>) \/ task[<<m, k>>] \in {"finished", "forgotten"}
  <2>1. \A m \in Msgs, k \in 1 .. MaxSends : <<m, k>> \in Tasks
    BY DEF Tasks
  <2> QED
    BY <2>1 DEF TypeInv, TypeOK, IsLive, Live
<1> QED
  BY <1>1 DEF Running, Done, Sent

\* What waits is the list, or the list without its first message.
LEMMA WaitingIs ==
  ASSUME NEW u \in Users
  PROVE  Waiting[u] = IF queue[u] # <<>> /\ Sent(Head(queue[u])) THEN Tail(queue[u]) ELSE queue[u]
BY DEF Waiting

\* At first both queues are empty.
LEMMA MapInit == Init => Abstract!Init
<1> SUFFICES ASSUME Init PROVE Abstract!Init
  OBVIOUS
<1>1. Waiting = [u \in Users |-> <<>>]
  BY DEF Init, Waiting
<1>2. Running = {} /\ Done = {}
  BY DEF Init, Running, Done, IsLive, Live, Tasks
<1> QED
  BY <1>1, <1>2 DEF Abstract!Init

\* The pipeline of push_task submits a message.
LEMMA MapPush == ASSUME RefinementInv, NEW m \in Msgs, Push(m) PROVE Abstract!Submit(m)
<1> DEFINE u == UserOf[m]
<1> USE DEF RefinementInv
<1>1. /\ u \in Users /\ ~Known(m) /\ queue' = [queue EXCEPT ![u] = Append(queue[u], m)]
      /\ task' = task
  BY PushEffect
<1>2. queue \in [Users -> Seq(Msgs)] /\ ~Sent(m)
  BY <1>1 DEF TypeInv, TypeOK, OrderInv, SentFromFirst, Sent
<1>3. Running' = Running /\ Done' = Done /\ \A x : Sent(x)' <=> Sent(x)
  BY <1>1 DEF Running, Done, IsLive, Sent
<1>4. m \notin Running \cup Done
  BY <1>2, RunningOrDone
<1>5. \A n \in DOMAIN Waiting[u] : Waiting[u][n] # m
  <2>1. \A n \in 1 .. Len(queue[u]) : queue[u][n] # m
    BY <1>1 DEF OrderInv, QueueKnown
  <2>2. queue[u] \in Seq(Msgs)
    BY <1>1, <1>2
  <2>3. CASE Waiting[u] = queue[u]
    BY <2>1, <2>2, <2>3
  <2>4. CASE Waiting[u] = Tail(queue[u]) /\ queue[u] # <<>>
    <3>1. /\ Len(queue[u]) \in Nat /\ Len(Tail(queue[u])) = Len(queue[u]) - 1
          /\ \A n \in 1 .. Len(Tail(queue[u])) : Tail(queue[u])[n] = queue[u][n + 1]
          /\ DOMAIN Tail(queue[u]) = 1 .. Len(Tail(queue[u]))
      BY <2>2, <2>4, TailAt
    <3> QED
      BY <2>1, <2>4, <3>1
  <2> QED
    BY <1>1, <2>3, <2>4, WaitingIs
<1>6. Waiting' = [Waiting EXCEPT ![u] = Append(Waiting[u], m)]
  <2>1. \A v \in Users \ {u} : Waiting'[v] = Waiting[v]
    BY <1>1, <1>2, <1>3 DEF Waiting
  <2>2. Waiting'[u] = Append(Waiting[u], m)
    <3>1. queue'[u] = Append(queue[u], m) /\ queue[u] \in Seq(Msgs)
      BY <1>1, <1>2
    <3>2. Waiting'[u] = IF queue'[u] # <<>> /\ Sent(Head(queue'[u]))
                        THEN Tail(queue'[u]) ELSE queue'[u]
      BY <1>1, <1>3 DEF Waiting
    <3>3. CASE queue[u] = <<>>
      <4>1. queue'[u] # <<>> /\ Head(queue'[u]) = m
        BY <3>1, <3>3, SingleAppend
      <4> QED
        BY <1>1, <1>2, <3>1, <3>2, <3>3, <4>1, WaitingIs
    <3>4. CASE queue[u] # <<>>
      <4>1. /\ queue'[u] # <<>> /\ Head(queue'[u]) = Head(queue[u])
            /\ Tail(queue'[u]) = Append(Tail(queue[u]), m)
        BY <3>1, <3>4, TailAppend
      <4> QED
        BY <1>1, <3>1, <3>2, <3>4, <4>1, WaitingIs
    <3> QED
      BY <3>3, <3>4
  <2> QED
    BY <1>1, <2>1, <2>2 DEF Waiting
<1> QED
  BY <1>3, <1>4, <1>5, <1>6 DEF Abstract!Submit

\* A queued message that is not behind another one is the head of its list.
LEMMA HeadIs ==
  ASSUME TypeInv, NEW m \in Msgs, Queued(m), ~Behind(m)
  PROVE  queue[UserOf[m]] # <<>> /\ Head(queue[UserOf[m]]) = m
<1>1. queue[UserOf[m]] \in Seq(Msgs)
  BY ConstantAssumption DEF TypeInv, TypeOK
<1>2. PICK n \in 1 .. Len(queue[UserOf[m]]) : queue[UserOf[m]][n] = m
  BY <1>1 DEF Queued
<1>3. n = 1
  BY <1>1, <1>2 DEF Behind
<1> QED
  BY <1>1, <1>2, <1>3

\* send_task begins the first waiting message of a user who has none running.
LEMMA MapSend ==
  ASSUME RefinementInv, OneInstance, NEW i \in Instances, Send(i)
  PROVE  \E u \in Users : Abstract!Begin(u)
<1> USE DEF RefinementInv
<1>1. PICK m \in Msgs, k \in 1 .. MaxSends :
        /\ m = cur[i][1] /\ <<m, k>> \in Tasks /\ task[<<m, k>>] = "none"
        /\ task'[<<m, k>>] = "queued" /\ \A s \in Tasks \ {<<m, k>>} : task'[s] = task[s]
        /\ pc[i] = "send" /\ queue' = queue
  BY SendEffect
<1> DEFINE u == UserOf[m]
<1>2. u \in Users
  BY ConstantAssumption
<1>3. Queued(m) /\ ~Behind(m)
  BY <1>1 DEF KeepInv, CandidatesQueued, OrderInv, Fronts, Candidate, Dispatches
<1>4. queue[u] # <<>> /\ Head(queue[u]) = m
  BY <1>3, HeadIs
<1>5. ~Sent(m)
  BY <1>1, <1>3 DEF SentInFlight, InFlight, OneInstance
<1>6. \A x \in Msgs, n \in 1 .. MaxSends : <<x, n>> \in Tasks
  BY DEF Tasks
<1>7. \A x \in Msgs : Sent(x)' <=> Sent(x) \/ x = m
  BY <1>1, <1>6 DEF Sent
<1>8. Waiting[u] = queue[u]
  BY <1>2, <1>4, <1>5, WaitingIs
<1>9. Waiting' = [Waiting EXCEPT ![u] = Tail(Waiting[u])]
  <2>1. Waiting'[u] = Tail(queue[u])
    BY <1>1, <1>2, <1>4, <1>7 DEF Waiting
  <2>2. ASSUME NEW v \in Users \ {u} PROVE Waiting'[v] = Waiting[v]
    <3>1. queue[v] # <<>> => Head(queue[v]) \in Msgs /\ UserOf[Head(queue[v])] = v
      <4> SUFFICES ASSUME queue[v] # <<>>
                   PROVE  Head(queue[v]) \in Msgs /\ UserOf[Head(queue[v])] = v
        OBVIOUS
      <4>1. queue[v] \in Seq(Msgs)
        BY DEF TypeInv, TypeOK
      <4>2. Head(queue[v]) = queue[v][1] /\ 1 \in 1 .. Len(queue[v]) /\ queue[v][1] \in Msgs
        BY <4>1, TailAt
      <4> QED
        BY <4>2 DEF OrderInv, QueueKnown
    <3>2. queue[v] # <<>> => \A n \in 1 .. MaxSends :
                               task'[<<Head(queue[v]), n>>] = task[<<Head(queue[v]), n>>]
      <4> SUFFICES ASSUME queue[v] # <<>>, NEW n \in 1 .. MaxSends
                   PROVE  task'[<<Head(queue[v]), n>>] = task[<<Head(queue[v]), n>>]
        OBVIOUS
      <4>1. PICK h \in Msgs : h = Head(queue[v]) /\ h # m
        BY <3>1
      <4>2. <<h, n>> \in Tasks \ {<<m, k>>}
        BY <1>6, <4>1
      <4> QED
        BY <1>1, <4>1, <4>2
    <3> QED
      BY <1>1, <3>2 DEF Waiting, Sent
  <2> QED
    BY <1>2, <1>8, <2>1, <2>2 DEF Waiting
<1>10. Running' = Running \cup {m}
  <2>1. \A x \in Msgs, n \in 1 .. MaxSends :
          IsLive(<<x, n>>)' <=> IsLive(<<x, n>>) \/ <<x, n>> = <<m, k>>
    BY <1>1, <1>6 DEF IsLive, Live
  <2> QED
    BY <2>1 DEF Running
<1>11. Done' = Done
  <2>1. \A x \in Msgs, n \in 1 .. MaxSends :
          task'[<<x, n>>] \in {"finished", "forgotten"} <=> task[<<x, n>>] \in {"finished", "forgotten"}
    BY <1>1, <1>6
  <2> QED
    BY <2>1 DEF Done
<1>12. \A x \in Running : UserOf[x] # u
  <2> SUFFICES ASSUME NEW x \in Msgs, NEW n \in 1 .. MaxSends, IsLive(<<x, n>>), UserOf[x] = u
               PROVE  FALSE
    BY DEF Running
  <2>1. InDispatch(i, UserOfTask(<<x, n>>)) /\ ~InCommit(i)
    BY <1>1 DEF InDispatch, UserOfTask, InCommit
  <2> QED
    BY <1>6, <2>1 DEF ExclusionInv, OwnTaskOnly
<1>13. Abstract!Begin(u)
  BY <1>4, <1>8, <1>9, <1>10, <1>11, <1>12 DEF Abstract!Begin
<1> QED
  BY <1>2, <1>13

\* The end of a task ends its message.
LEMMA MapFinish ==
  ASSUME RefinementInv, NEW t \in Tasks, Finish(t) PROVE Abstract!End(t[1])
<1> USE DEF RefinementInv
<1>1. task[t] = "running" /\ task' = [task EXCEPT ![t] = "finished"] /\ queue' = queue
  BY DEF Finish, queueVars
<1>2. PICK m \in Msgs, k \in 1 .. MaxSends : t = <<m, k>>
  BY DEF Tasks
<1>3. \A x \in Msgs, n \in 1 .. MaxSends : <<x, n>> \in Tasks
  BY DEF Tasks
<1>4. /\ task'[t] = "finished" /\ \A s \in Tasks \ {t} : task'[s] = task[s]
  BY <1>1 DEF TypeInv, TypeOK
<1>5. m \in Running
  BY <1>1, <1>2 DEF Running, IsLive, Live
<1>6. \A n \in 1 .. MaxSends : IsLive(<<m, n>>) => n = k
  <2>1. IsLive(t)
    BY <1>1 DEF IsLive, Live
  <2> QED
    BY <1>2, <1>3, <2>1 DEF ExclusionInv, OneTaskPerUser, UserOfTask
<1>7. Running' = Running \ {m}
  <2>1. \A x \in Msgs, n \in 1 .. MaxSends :
          IsLive(<<x, n>>)' <=> IsLive(<<x, n>>) /\ <<x, n>> # <<m, k>>
    BY <1>1, <1>2, <1>3, <1>4 DEF IsLive, Live
  <2> QED
    BY <1>6, <2>1 DEF Running
<1>8. Done' = Done \cup {m}
  <2>1. \A x \in Msgs, n \in 1 .. MaxSends :
          task'[<<x, n>>] \in {"finished", "forgotten"}
            <=> task[<<x, n>>] \in {"finished", "forgotten"} \/ <<x, n>> = <<m, k>>
    BY <1>2, <1>3, <1>4
  <2> QED
    BY <2>1 DEF Done
<1>9. Waiting' = Waiting
  <2>1. \A s \in Tasks : task'[s] # "none" <=> task[s] # "none"
    BY <1>1, <1>4
  <2>2. \A u \in Users : queue[u] # <<>> => Head(queue[u]) \in Msgs
    BY HeadInSet DEF TypeInv, TypeOK
  <2>3. \A u \in Users : queue[u] # <<>> => (Sent(Head(queue[u]))' <=> Sent(Head(queue[u])))
    BY <1>1, <1>3, <2>1, <2>2 DEF Sent
  <2> QED
    BY <1>1, <2>3 DEF Waiting
<1> QED
  BY <1>2, <1>5, <1>7, <1>8, <1>9 DEF Abstract!End

\* The pop takes away the message that no longer waits.
LEMMA MapPop ==
  ASSUME RefinementInv, NEW i \in Instances, Pop(i)
  PROVE  Waiting' = Waiting /\ task' = task
<1> USE DEF RefinementInv
<1>1. PICK m \in Msgs, k \in 1 .. MaxSends :
        cur[i] = <<m, k>> /\ pc[i] = "pop" /\ task' = task
  BY PopEffect DEF Tasks
<1> DEFINE u == UserOf[m]
<1>2. u \in Users /\ UserOfTask(cur[i]) = u
  BY <1>1, ConstantAssumption DEF UserOfTask
<1>3. queue[u] # <<>> /\ Head(queue[u]) = m
  <2>1. Candidate(i, m)
    BY <1>1 DEF Candidate, Dispatches
  <2> QED
    BY <2>1, HeadIs DEF KeepInv, CandidatesQueued, OrderInv, Fronts
<1>4. Sent(m)
  BY <1>1 DEF KeepInv, FlightSent, InFlight, Sent
<1>5. /\ \A v \in Users \ {u} : queue'[v] = queue[v]
      /\ queue'[u] = Tail(queue[u])
  BY <1>2, <1>3, PopEffect
<1>6. queue'[u] # <<>> => ~Sent(Head(queue'[u]))
  <2> SUFFICES ASSUME queue'[u] # <<>> PROVE ~Sent(Head(queue'[u]))
    OBVIOUS
  <2>1. queue[u] \in Seq(Msgs)
    BY <1>2 DEF TypeInv, TypeOK
  <2>2. Head(Tail(queue[u])) = queue[u][2] /\ 2 \in 2 .. Len(queue[u])
    BY <1>3, <1>5, <2>1
  <2> QED
    BY <1>2, <1>5, <2>2 DEF OrderInv, SentInOrder
<1>7. Waiting'[u] = Waiting[u]
  BY <1>1, <1>2, <1>3, <1>4, <1>5, <1>6 DEF Waiting, Sent
<1>8. \A v \in Users \ {u} : Waiting'[v] = Waiting[v]
  BY <1>1, <1>5 DEF Waiting, Sent
<1> QED
  BY <1>1, <1>2, <1>7, <1>8 DEF Waiting

\* A step is none of the abstract queue's when the lists stay and no task is sent or ends.
LEMMA MapStill ==
  ASSUME TypeInv, queue' = queue,
         \A t \in Tasks : \/ task'[t] = task[t]
                          \/ task[t] = "queued" /\ task'[t] = "running"
                          \/ task[t] = "finished" /\ task'[t] = "forgotten"
  PROVE  UNCHANGED Abstract!queueVars
<1>1. \A m \in Msgs, k \in 1 .. MaxSends : <<m, k>> \in Tasks
  BY DEF Tasks
<1>2. Running' = Running
  BY <1>1 DEF Running, IsLive, Live
<1>3. Done' = Done
  BY <1>1 DEF Done
<1>4. Waiting' = Waiting
  <2>1. \A u \in Users : queue[u] # <<>> => Head(queue[u]) \in Msgs
    BY HeadInSet DEF TypeInv, TypeOK
  <2>2. \A u \in Users : queue[u] # <<>> =>
          \A n \in 1 .. MaxSends : task'[<<Head(queue[u]), n>>] # "none"
                                     <=> task[<<Head(queue[u]), n>>] # "none"
    BY <1>1, <2>1
  <2> QED
    BY <2>2 DEF Waiting, Sent
<1> QED
  BY <1>2, <1>3, <1>4 DEF Abstract!queueVars

\* Every step of the scheduler is one of the abstract queue, or leaves it as it is.
LEMMA MapStep ==
  ASSUME RefinementInv, OneInstance, [Next]_vars
  PROVE  [Abstract!Next]_(Abstract!queueVars)
<1> USE DEF RefinementInv
<1>1. ASSUME NEW m \in Msgs, Push(m) PROVE Abstract!Next
  BY <1>1, MapPush DEF Abstract!Next
<1>2. ASSUME NEW i \in Instances, Send(i) PROVE Abstract!Next
  BY <1>2, MapSend DEF Abstract!Next
<1>3. ASSUME NEW i \in Instances, Pop(i) PROVE UNCHANGED Abstract!queueVars
  <2>1. Waiting' = Waiting /\ task' = task
    BY <1>3, MapPop
  <2>2. Running' = Running /\ Done' = Done
    BY <2>1 DEF Running, Done, IsLive
  <2> QED
    BY <2>1, <2>2 DEF Abstract!queueVars
<1>4. ASSUME NEW t \in Tasks, Worker(t)
      PROVE  Abstract!Next \/ UNCHANGED Abstract!queueVars
  <2>1. CASE Finish(t)
    <3>1. t[1] \in Msgs
      BY DEF Tasks
    <3> QED
      BY <2>1, <3>1, MapFinish DEF Abstract!Next
  <2>2. CASE Start(t) \/ ResultExpires(t)
    <3>1. queue' = queue
      BY <2>2 DEF Start, ResultExpires, queueVars
    <3>2. \A s \in Tasks : \/ task'[s] = task[s]
                           \/ task[s] = "queued" /\ task'[s] = "running"
                           \/ task[s] = "finished" /\ task'[s] = "forgotten"
      BY <2>2 DEF Start, ResultExpires, TypeInv, TypeOK
    <3> QED
      BY <3>1, <3>2, MapStill
  <2> QED
    BY <1>4, <2>1, <2>2 DEF Worker
<1>5. CASE /\ \A t \in Tasks : ~Worker(t)
           /\ \A i \in Instances : ~Send(i) /\ ~Pop(i)
           /\ \A m \in Msgs : ~Push(m)
  <2>1. task' = task
    BY <1>5, TaskActors
  <2>2. queue' = queue
    <3>1. CASE Settled
      BY <3>1 DEF Settled
    <3>2. CASE \E i \in Instances : ReadHeads(i) \/ Acquire(i)
      BY <3>2 DEF ReadHeads, Acquire, queueVars
    <3> QED
      BY <1>5, <3>1, <3>2, StepKinds DEF Moving
  <2> QED
    BY <2>1, <2>2, MapStill
<1> QED
  BY <1>1, <1>2, <1>3, <1>4, <1>5

\* At first nothing is sent.
LEMMA RefinementInit == Init => RefinementInv
<1>1. Init => SentInFlight
  BY DEF Init, SentInFlight, Sent, Tasks
<1> QED
  BY <1>1, TypeInit, ExclusionInit, OrderInit, KeepInit DEF RefinementInv

\* The invariants of the earlier modules, together.
LEMMA RefinementKept ==
  ASSUME RefinementInv, OneInstance, HarmlessFaults, [Next]_vars PROVE RefinementInv'
<1>1. ExclusiveFaults
  BY DEF HarmlessFaults, ExclusiveFaults
<1> QED
  BY <1>1, TypeStep, ExclusionStep, OrderStep, KeepStep, InFlightStep DEF RefinementInv

\* One scheduler that does not stop is a queue per user: what push_task accepts is
\* written in order, one message of a user at a time, and no message twice, although
\* send_task or a commit may fail, a pusher may stop and a result may be lost.
THEOREM Refines == ASSUME OneInstance, HarmlessFaults PROVE Spec => ImplementsSerialQueue
<1>1. Init => Abstract!Init
  BY MapInit
<1>2. RefinementInv /\ [Next]_vars => RefinementInv'
  BY OneInstance, HarmlessFaults, RefinementKept
<1>3. RefinementInv /\ [Next]_vars => [Abstract!Next]_(Abstract!queueVars)
  BY OneInstance, MapStep
<1> QED
  BY <1>1, <1>2, <1>3, RefinementInit, PTL DEF Spec, ImplementsSerialQueue, Abstract!Spec

=============================================================================
