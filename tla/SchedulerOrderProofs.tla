------------------------ MODULE SchedulerOrderProofs ------------------------
(***************************************************************************)
(* Theorems about the lists of TaskScheduler, for any numbers of users and  *)
(* messages: in which order messages are sent, when one can be lost, and    *)
(* that a user with a message is never overlooked.                          *)
(***************************************************************************)
EXTENDS TaskSchedulerProofs, FiniteSetTheorems

-----------------------------------------------------------------------------
(* Lists of different elements *)

Different(q) == \A n, k \in 1 .. Len(q) : q[n] = q[k] => n = k

\* Where the elements of a list are after RPUSH.
LEMMA AppendAt ==
  ASSUME NEW S, NEW q \in Seq(S), NEW x \in S
  PROVE  /\ Append(q, x) \in Seq(S) /\ Len(Append(q, x)) = Len(q) + 1
         /\ \A n \in 1 .. Len(q) : Append(q, x)[n] = q[n]
         /\ Append(q, x)[Len(q) + 1] = x
OBVIOUS

\* Where they are after LPOP.
LEMMA TailAt ==
  ASSUME NEW S, NEW q \in Seq(S), q # <<>>
  PROVE  /\ Tail(q) \in Seq(S) /\ Len(q) \in Nat \ {0} /\ Len(Tail(q)) = Len(q) - 1
         /\ Head(q) = q[1] /\ \A n \in 1 .. Len(Tail(q)) : Tail(q)[n] = q[n + 1]
OBVIOUS

-----------------------------------------------------------------------------
(* The order of the list, for any number of instances and any faults: what an
   instance has once seen at the head of a list is never behind another message. *)

Known(m) == caller[m] # "new"

\* Instance i is between its lock script and its LPOP, or between its send and its LPOP.
Dispatches(i) == pc[i] \in {"send", "commit", "recommit", "pop"}
InFlight(i)   == pc[i] \in {"commit", "recommit", "pop"}

\* Instance i is going to dispatch m, or is dispatching it.
Candidate(i, m) == m \in heads[i] \/ (Dispatches(i) /\ m = cur[i][1])

Behind(m) == \E n \in 2 .. Len(queue[UserOf[m]]) : queue[UserOf[m]][n] = m

\* A list holds messages of its user, each once, all of them pushed.
QueueKnown ==
  \A u \in Users :
    /\ Different(queue[u])
    /\ \A n \in 1 .. Len(queue[u]) : UserOf[queue[u][n]] = u /\ Known(queue[u][n])

Fronts == \A i \in Instances, m \in Msgs : Candidate(i, m) => Known(m) /\ ~Behind(m)

\* The first task of a message is the first one sent, after it was pushed.
SentFromFirst ==
  \A m \in Msgs, k \in 1 .. MaxSends :
    task[<<m, k>>] # "none" => Known(m) /\ task[<<m, 1>>] # "none"

OrderInv == QueueKnown /\ Fronts /\ SentFromFirst /\ SentInOrder

\* Before anything is pushed the lists are empty.
LEMMA OrderInit == Init => OrderInv
<1> SUFFICES ASSUME Init PROVE OrderInv
  OBVIOUS
<1>1. \A u \in Users : Len(queue[u]) = 0
  BY DEF Init
<1>2. QueueKnown /\ SentInOrder
  BY <1>1 DEF QueueKnown, SentInOrder, Different
<1>3. Fronts /\ SentFromFirst
  BY DEF Init, Fronts, Candidate, Dispatches, SentFromFirst, Tasks
<1> QED
  BY <1>2, <1>3 DEF OrderInv

\* A step that leaves the lists alone and neither pushes nor sends.
Settled ==
  /\ queue' = queue
  /\ \A m \in Msgs : Known(m)' <=> Known(m)
  /\ \A t \in Tasks : task'[t] # "none" <=> task[t] # "none"
  /\ \A i \in Instances : InFlight(i)' => InFlight(i) /\ cur'[i] = cur[i]

NoNewCandidate ==
  \A i \in Instances :
    /\ heads'[i] \subseteq heads[i]
    /\ Dispatches(i)' => Dispatches(i) /\ cur'[i] = cur[i]

\* The steps of push_task but the first, those of workers, and the expiry of keys.
LEMMA SettledOutside ==
  ASSUME TypeInv,
         \/ \E m \in Msgs : \/ CheckLock(m) \/ Signal(m) \/ PushDies(m)
                            \/ ExpireDispatchLock(m) \/ ExpireTracker(m)
         \/ \E t \in Tasks : Worker(t)
         \/ \E u \in Users : ExpireLock(u)
         \/ UNCHANGED vars
  PROVE  Settled /\ NoNewCandidate
<1> USE DEF TypeInv, TypeOK, Settled, NoNewCandidate, Known, InFlight, Dispatches, queueVars,
            keyVars, otherVars, instVars, cleanVars, batchVars
<1>1. CASE \E m \in Msgs : CheckLock(m) \/ Signal(m) \/ PushDies(m)
  BY <1>1 DEF CheckLock, Signal, PushDies
<1>2. CASE \E m \in Msgs : ExpireDispatchLock(m) \/ ExpireTracker(m)
  BY <1>2 DEF ExpireDispatchLock, ExpireTracker
<1>3. CASE \E t \in Tasks : Worker(t)
  BY <1>3 DEF Worker, Start, Finish, ResultExpires
<1>4. CASE \E u \in Users : ExpireLock(u)
  BY <1>4 DEF ExpireLock
<1>5. CASE UNCHANGED vars
  BY <1>5 DEF vars
<1> QED
  BY <1>1, <1>2, <1>3, <1>4, <1>5

\* The steps of an instance that neither read a head nor take a lock, send or pop.
LEMMA SettledInstance ==
  ASSUME TypeInv, NEW i \in Instances,
         \/ Heartbeat(i) \/ Collect(i) \/ SafeDelete(i) \/ DeleteFails(i)
         \/ ForgetFinished(i) \/ SignalCleaned(i) \/ TakeReady(i) \/ RemoveReady(i)
         \/ DropEmpty(i) \/ Refuse(i) \/ SendFails(i) \/ Commit(i) \/ CommitFails(i)
         \/ Requeue(i) \/ FullScan(i) \/ Abort(i) \/ Stop(i) \/ Restart(i)
  PROVE  Settled /\ NoNewCandidate
<1> USE DEF TypeInv, TypeOK, Settled, NoNewCandidate, Known, InFlight, Dispatches, Goto,
            queueVars, keyVars, otherVars, instVars, cleanVars, batchVars
<1>1. CASE Heartbeat(i) \/ FullScan(i) \/ Collect(i)
  BY <1>1 DEF Heartbeat, FullScan, Collect
<1>2. CASE SafeDelete(i) \/ DeleteFails(i)
  BY <1>2 DEF SafeDelete, DeleteFails
<1>3. CASE ForgetFinished(i) \/ SignalCleaned(i)
  BY <1>3 DEF ForgetFinished, SignalCleaned
<1>4. CASE TakeReady(i) \/ RemoveReady(i)
  BY <1>4 DEF TakeReady, RemoveReady
<1>5. CASE DropEmpty(i) \/ Requeue(i)
  BY <1>5 DEF DropEmpty, Requeue, NextHead
<1>6. CASE Refuse(i)
  BY <1>6 DEF Refuse, NextHead
<1>7. CASE SendFails(i)
  BY <1>7 DEF SendFails, NextHead
<1>8. CASE Commit(i) \/ CommitFails(i)
  BY <1>8 DEF Commit, CommitFails
<1>9. CASE Abort(i) \/ Stop(i)
  BY <1>9 DEF Abort, Stop, Drop
<1>10. CASE Restart(i)
  BY <1>10 DEF Restart
<1> QED
  BY <1>1, <1>2, <1>3, <1>4, <1>5, <1>6, <1>7, <1>8, <1>9, <1>10

\* The steps that are left.
Moving(i) == ReadHeads(i) \/ Acquire(i) \/ Send(i) \/ Pop(i)

\* A step settles: it pushes, sends and pops nothing; or it is a push or an instance
\* moving a message.
LEMMA StepKinds ==
  ASSUME TypeInv, [Next]_vars
  PROVE  \/ Settled /\ NoNewCandidate
         \/ \E m \in Msgs : Push(m)
         \/ \E i \in Instances : Moving(i)
<1>1. CASE UNCHANGED vars
  BY <1>1, SettledOutside
<1>2. CASE Next
  BY <1>2, SettledOutside, SettledInstance DEF Next, PushTask, Iterate, Fail, Moving
<1> QED
  BY <1>1, <1>2

\* Settled steps change nothing that the order speaks of.
LEMMA OrderSettled == ASSUME TypeInv, OrderInv, Settled, NoNewCandidate PROVE OrderInv'
<1> USE DEF OrderInv, Settled, NoNewCandidate
<1>1. QueueKnown'
  <2>1. \A u \in Users : \A n \in 1 .. Len(queue[u]) : queue[u][n] \in Msgs
    BY DEF TypeInv, TypeOK
  <2> QED
    BY <2>1 DEF QueueKnown, Known
<1>2. Fronts'
  <2>1. \A i \in Instances, m \in Msgs : Candidate(i, m)' => Candidate(i, m)
    BY DEF Candidate
  <2> QED
    BY <2>1 DEF Fronts, Behind
<1>3. SentFromFirst'
  <2>1. \A m \in Msgs, k \in 1 .. MaxSends : <<m, k>> \in Tasks /\ <<m, 1>> \in Tasks
    BY ConstantAssumption DEF Tasks
  <2> QED
    BY <2>1 DEF SentFromFirst
<1>4. SentInOrder'
  <2>1. \A u \in Users : \A n \in 2 .. Len(queue[u]) : queue[u][n] \in Msgs
    BY DEF TypeInv, TypeOK
  <2>2. \A m \in Msgs, k \in 1 .. MaxSends : <<m, k>> \in Tasks
    BY DEF Tasks
  <2> QED
    BY <2>1, <2>2 DEF SentInOrder, Sent
<1> QED
  BY <1>1, <1>2, <1>3, <1>4

\* push_task puts a new message at the end of its user's list.
LEMMA PushEffect ==
  ASSUME TypeInv, NEW m \in Msgs, Push(m)
  PROVE  LET u == UserOf[m]
         IN  /\ u \in Users /\ ~Known(m) /\ queue' = [queue EXCEPT ![u] = Append(queue[u], m)]
             /\ Len(queue'[u]) = Len(queue[u]) + 1 /\ queue'[u][Len(queue[u]) + 1] = m
             /\ \A n \in 1 .. Len(queue[u]) : queue'[u][n] = queue[u][n]
             /\ \A v \in Users \ {u} : queue'[v] = queue[v]
             /\ \A k \in Msgs : Known(k)' <=> Known(k) \/ k = m
             /\ UNCHANGED <<task, pc, heads, cur>>
<1> DEFINE u == UserOf[m]
<1>1. u \in Users /\ queue[u] \in Seq(Msgs) /\ queue \in [Users -> Seq(Msgs)]
  BY ConstantAssumption DEF TypeInv, TypeOK
<1>2. queue' = [queue EXCEPT ![u] = Append(queue[u], m)]
  BY DEF Push
<1>3. ~Known(m) /\ \A k \in Msgs : Known(k)' <=> Known(k) \/ k = m
  BY DEF Push, Known, TypeInv, TypeOK
<1>4. UNCHANGED <<task, pc, heads, cur>>
  BY DEF Push, instVars, batchVars
<1>5. queue'[u] = Append(queue[u], m) /\ \A v \in Users \ {u} : queue'[v] = queue[v]
  BY <1>1, <1>2
<1> HIDE DEF u
<1>6. /\ Len(queue'[u]) = Len(queue[u]) + 1 /\ queue'[u][Len(queue[u]) + 1] = m
      /\ \A n \in 1 .. Len(queue[u]) : queue'[u][n] = queue[u][n]
  BY <1>1, <1>5, AppendAt
<1> QED
  BY <1>1, <1>2, <1>3, <1>4, <1>5, <1>6 DEF u

\* The new message is known to nobody, and behind what is known.
LEMMA OrderPush == ASSUME TypeInv, OrderInv, NEW m \in Msgs, Push(m) PROVE OrderInv'
<1> DEFINE u == UserOf[m]
<1> USE DEF OrderInv
<1>1. /\ u \in Users /\ ~Known(m) /\ Len(queue[u]) \in Nat
      /\ Len(queue'[u]) = Len(queue[u]) + 1 /\ queue'[u][Len(queue[u]) + 1] = m
      /\ \A n \in 1 .. Len(queue[u]) : queue'[u][n] = queue[u][n]
      /\ \A v \in Users \ {u} : queue'[v] = queue[v]
      /\ \A k \in Msgs : Known(k)' <=> Known(k) \/ k = m
      /\ UNCHANGED <<task, pc, heads, cur>>
  BY PushEffect DEF TypeInv, TypeOK
<1>2. \A v \in Users : \A n \in 1 .. Len(queue'[v]) :
        \/ n \in 1 .. Len(queue[v]) /\ queue'[v][n] = queue[v][n] /\ queue[v][n] \in Msgs
        \/ v = u /\ n = Len(queue[u]) + 1 /\ queue'[v][n] = m
  <2>1. \A v \in Users : \A n \in 1 .. Len(queue[v]) : queue[v][n] \in Msgs
    BY DEF TypeInv, TypeOK
  <2>2. \A n \in 1 .. Len(queue'[u]) : n \in 1 .. Len(queue[u]) \/ n = Len(queue[u]) + 1
    BY <1>1
  <2> QED
    BY <1>1, <2>1, <2>2
<1> HIDE DEF u
<1>3. QueueKnown'
  <2> SUFFICES ASSUME NEW v \in Users
               PROVE  /\ Different(queue'[v])
                      /\ \A n \in 1 .. Len(queue'[v]) :
                           UserOf[queue'[v][n]] = v /\ caller'[queue'[v][n]] # "new"
    BY DEF QueueKnown, Different, Known
  <2>1. \A n \in 1 .. Len(queue[v]) : queue[v][n] # m
    BY <1>1 DEF QueueKnown
  <2>2. Different(queue'[v])
    <3> SUFFICES ASSUME NEW n \in 1 .. Len(queue'[v]), NEW k \in 1 .. Len(queue'[v]),
                        queue'[v][n] = queue'[v][k]
                 PROVE  n = k
      BY DEF Different
    <3>1. CASE n \in 1 .. Len(queue[v]) /\ queue'[v][n] = queue[v][n]
      BY <1>2, <2>1, <3>1 DEF QueueKnown, Different
    <3>2. CASE v = u /\ n = Len(queue[u]) + 1 /\ queue'[v][n] = m
      BY <1>2, <2>1, <3>2
    <3> QED
      BY <1>2, <3>1, <3>2
  <2>3. \A n \in 1 .. Len(queue'[v]) : UserOf[queue'[v][n]] = v /\ caller'[queue'[v][n]] # "new"
    BY <1>1, <1>2 DEF QueueKnown, u, Known
  <2> QED
    BY <2>2, <2>3
<1>4. Fronts'
  <2>1. \A i \in Instances, k \in Msgs : Candidate(i, k)' => Candidate(i, k)
    BY <1>1 DEF Candidate, Dispatches
  <2>2. \A k \in Msgs : Behind(k)' => Behind(k) \/ k = m
    BY <1>1, <1>2, ConstantAssumption DEF Behind
  <2> QED
    BY <1>1, <2>1, <2>2 DEF Fronts
<1>5. SentFromFirst'
  BY <1>1 DEF SentFromFirst
<1>6. SentInOrder'
  <2>1. \A k \in Msgs : Sent(k) => Known(k)
    BY DEF SentFromFirst, Sent
  <2>2. ~Sent(m) /\ \A k \in Msgs : Sent(k)' <=> Sent(k)
    BY <1>1, <2>1 DEF Sent
  <2>3. \A v \in Users : \A n \in 2 .. Len(queue'[v]) : ~Sent(queue'[v][n])
    <3> SUFFICES ASSUME NEW v \in Users, NEW n \in 2 .. Len(queue'[v])
                 PROVE  ~Sent(queue'[v][n])
      OBVIOUS
    <3>1. n \in 1 .. Len(queue'[v])
      BY <1>1, <1>2
    <3>2. CASE n \in 1 .. Len(queue[v]) /\ queue'[v][n] = queue[v][n]
      BY <3>2 DEF SentInOrder
    <3>3. CASE queue'[v][n] = m
      BY <2>2, <3>3
    <3> QED
      BY <1>2, <3>1, <3>2, <3>3
  <2> QED
    BY <1>1, <2>3 DEF SentInOrder, Sent
<1> QED
  BY <1>3, <1>4, <1>5, <1>6

\* LINDEX 0 yields the heads of the lists, each of its own user.
LEMMA ReadHeadsEffect ==
  ASSUME TypeInv, QueueKnown, NEW i \in Instances, ReadHeads(i)
  PROVE  /\ \A m \in heads'[i] : /\ m \in Msgs /\ UserOf[m] \in batch[i]
                                 /\ queue[UserOf[m]] # <<>> /\ Head(queue[UserOf[m]]) = m
                                 /\ Known(m) /\ ~Behind(m)
         /\ \A u \in batch[i] : queue[u] # <<>> => \E m \in heads'[i] : UserOf[m] = u
<1>1. heads'[i] = {Head(queue[u]) : u \in {v \in batch[i] : queue[v] # <<>>}}
  BY DEF ReadHeads, TypeInv, TypeOK
<1>2. ASSUME NEW u \in batch[i], queue[u] # <<>>
      PROVE  LET m == Head(queue[u])
             IN  /\ m \in Msgs /\ UserOf[m] = u /\ Known(m) /\ ~Behind(m)
  <2>1. u \in Users /\ queue[u] \in Seq(Msgs)
    BY DEF TypeInv, TypeOK
  <2>2. Len(queue[u]) \in Nat \ {0} /\ Head(queue[u]) = queue[u][1]
    BY <1>2, <2>1, TailAt
  <2>3. 1 \in 1 .. Len(queue[u]) /\ \A n \in 2 .. Len(queue[u]) : n \in 1 .. Len(queue[u]) /\ n # 1
    BY <2>2
  <2>4. Head(queue[u]) \in Msgs /\ UserOf[Head(queue[u])] = u /\ Known(Head(queue[u]))
    BY <2>1, <2>2, <2>3 DEF QueueKnown
  <2>5. ~Behind(Head(queue[u]))
    BY <2>1, <2>2, <2>3, <2>4 DEF Behind, QueueKnown, Different
  <2> QED
    BY <2>4, <2>5
<1> QED
  BY <1>1, <1>2

\* Reading the heads and taking a lock leave the lists alone.
LEMMA OrderTake ==
  ASSUME TypeInv, OrderInv, NEW i \in Instances, ReadHeads(i) \/ Acquire(i)
  PROVE  OrderInv'
<1> USE DEF OrderInv
<1>1. UNCHANGED <<queue, caller, task>>
  BY DEF ReadHeads, Acquire, queueVars, otherVars
<1>2. QueueKnown' /\ SentFromFirst' /\ SentInOrder'
  BY <1>1 DEF QueueKnown, Known, SentFromFirst, SentInOrder, Sent
<1>3. \A m \in Msgs : Known(m)' = Known(m) /\ Behind(m)' = Behind(m)
  BY <1>1 DEF Known, Behind
<1>4. ASSUME NEW j \in Instances, NEW m \in Msgs, Candidate(j, m)'
      PROVE  Known(m) /\ ~Behind(m)
  <2>1. CASE ReadHeads(i)
    <3>1. m \in heads'[j] \/ Candidate(j, m)
      BY <1>4, <2>1 DEF ReadHeads, Candidate, Dispatches, Goto, TypeInv, TypeOK
    <3>2. j # i => heads'[j] = heads[j]
      BY <2>1 DEF ReadHeads, TypeInv, TypeOK
    <3> QED
      BY <2>1, <3>1, <3>2, ReadHeadsEffect DEF Fronts, Candidate
  <2>2. CASE Acquire(i)
    <3>1. PICK k \in heads[i] : /\ heads' = [heads EXCEPT ![i] = @ \ {k}]
                                /\ cur' = [cur EXCEPT ![i] = <<k, 0>>]
      BY <2>2 DEF Acquire
    <3>2. Candidate(j, m)
      BY <1>4, <2>2, <3>1 DEF Acquire, Candidate, Dispatches, Goto, TypeInv, TypeOK
    <3> QED
      BY <3>2 DEF Fronts
  <2> QED
    BY <2>1, <2>2
<1>5. Fronts'
  BY <1>3, <1>4 DEF Fronts
<1> QED
  BY <1>2, <1>5

\* send_task creates the next task of a candidate.
LEMMA SendEffect ==
  ASSUME TypeInv, NEW i \in Instances, Send(i)
  PROVE  \E k \in 1 .. MaxSends :
           LET t == <<cur[i][1], k>>
           IN  /\ t \in Tasks /\ t[1] \in Msgs /\ task[t] = "none"
               /\ \A n \in 1 .. (k - 1) : task[<<t[1], n>>] # "none"
               /\ task'[t] = "queued" /\ \A s \in Tasks \ {t} : task'[s] = task[s]
               /\ pc[i] = "send" /\ pc'[i] = "commit" /\ cur'[i] = t
               /\ \A j \in Instances \ {i} : pc'[j] = pc[j] /\ cur'[j] = cur[j]
               /\ UNCHANGED <<queue, caller, heads>>
<1> USE DEF TypeInv, TypeOK
<1>1. PICK k \in 1 .. MaxSends :
        /\ task[<<cur[i][1], k>>] = "none"
        /\ \A n \in 1 .. (k - 1) : task[<<cur[i][1], n>>] # "none"
        /\ task' = [task EXCEPT ![<<cur[i][1], k>>] = "queued"]
        /\ cur' = [cur EXCEPT ![i] = <<cur[i][1], k>>]
  BY DEF Send
<1>2. pc[i] = "send" /\ pc' = [pc EXCEPT ![i] = "commit"] /\ UNCHANGED <<queue, caller, heads>>
  BY DEF Send, Goto, queueVars
<1>3. cur[i][1] \in Msgs
  BY <1>2 DEF CurKnown
<1> DEFINE t == <<cur[i][1], k>>
<1>4. t \in Tasks /\ t[1] = cur[i][1]
  BY <1>3 DEF Tasks
<1>5. task'[t] = "queued" /\ \A s \in Tasks \ {t} : task'[s] = task[s]
  BY <1>1, <1>4
<1> QED
  BY <1>1, <1>2, <1>3, <1>4, <1>5

\* Only a candidate is sent, which is not behind another message.
LEMMA OrderSend == ASSUME TypeInv, OrderInv, NEW i \in Instances, Send(i) PROVE OrderInv'
<1> USE DEF OrderInv
<1>1. PICK k \in 1 .. MaxSends :
        LET t == <<cur[i][1], k>>
        IN  /\ t \in Tasks /\ t[1] \in Msgs /\ task[t] = "none"
            /\ \A n \in 1 .. (k - 1) : task[<<t[1], n>>] # "none"
            /\ task'[t] = "queued" /\ \A s \in Tasks \ {t} : task'[s] = task[s]
            /\ pc[i] = "send" /\ pc'[i] = "commit" /\ cur'[i] = t
            /\ \A j \in Instances \ {i} : pc'[j] = pc[j] /\ cur'[j] = cur[j]
            /\ UNCHANGED <<queue, caller, heads>>
  BY SendEffect
<1> DEFINE m == cur[i][1]
<1>2. m \in Msgs /\ Candidate(i, m)
  BY <1>1 DEF Candidate, Dispatches
<1>3. Known(m) /\ ~Behind(m)
  BY <1>2 DEF Fronts
<1>4. QueueKnown'
  BY <1>1 DEF QueueKnown, Known
<1>5. Fronts'
  <2>1. \A j \in Instances, x \in Msgs : Candidate(j, x)' => Candidate(j, x)
    BY <1>1 DEF Candidate, Dispatches
  <2> QED
    BY <1>1, <2>1 DEF Fronts, Known, Behind
<1>6. SentFromFirst'
  <2> SUFFICES ASSUME NEW x \in Msgs, NEW n \in 1 .. MaxSends, task'[<<x, n>>] # "none"
               PROVE  Known(x) /\ task'[<<x, 1>>] # "none"
    BY <1>1 DEF SentFromFirst, Known
  <2>1. <<x, n>> \in Tasks /\ <<x, 1>> \in Tasks
    BY ConstantAssumption DEF Tasks
  <2>2. CASE x = m /\ n = k
    <3>1. k = 1 \/ 1 \in 1 .. (k - 1)
      OBVIOUS
    <3>2. k = 1 \/ task[<<m, 1>>] # "none"
      BY <1>1, <3>1
    <3> QED
      BY <1>1, <1>3, <2>1, <2>2, <3>2
  <2>3. CASE ~(x = m /\ n = k)
    <3>1. task[<<x, n>>] # "none"
      BY <1>1, <2>1, <2>3
    <3>2. Known(x) /\ task[<<x, 1>>] # "none"
      BY <3>1 DEF SentFromFirst
    <3> QED
      BY <1>1, <2>1, <3>2
  <2> QED
    BY <2>2, <2>3
<1>7. SentInOrder'
  <2> SUFFICES ASSUME NEW u \in Users, NEW n \in 2 .. Len(queue[u]),
                      NEW j \in 1 .. MaxSends, task'[<<queue[u][n], j>>] # "none"
               PROVE  FALSE
    BY <1>1 DEF SentInOrder, Sent
  <2>1. queue[u][n] \in Msgs /\ UserOf[queue[u][n]] = u
    BY DEF QueueKnown, TypeInv, TypeOK
  <2>2. task[<<queue[u][n], j>>] = "none"
    BY DEF SentInOrder, Sent
  <2>3. <<queue[u][n], j>> \in Tasks
    BY <2>1 DEF Tasks
  <2>4. queue[u][n] = m
    BY <1>1, <2>2, <2>3
  <2> QED
    BY <1>3, <2>1, <2>4 DEF Behind
<1> QED
  BY <1>4, <1>5, <1>6, <1>7

\* LPOP takes the first message away, or finds none.
LEMMA PopEffect ==
  ASSUME TypeInv, NEW i \in Instances, Pop(i)
  PROVE  LET u == UserOfTask(cur[i])
         IN  /\ u \in Users /\ cur[i] \in Tasks /\ pc[i] = "pop" /\ pc'[i] = "requeue"
             /\ \A j \in Instances \ {i} : pc'[j] = pc[j]
             /\ UNCHANGED <<caller, task, heads, cur>>
             /\ \A v \in Users \ {u} : queue'[v] = queue[v]
             /\ \/ queue[u] = <<>> /\ queue' = queue
                \/ /\ queue[u] # <<>> /\ Len(queue[u]) \in Nat \ {0}
                   /\ queue'[u] = Tail(queue[u])
                   /\ Len(queue'[u]) = Len(queue[u]) - 1
                   /\ \A n \in 1 .. Len(queue'[u]) : queue'[u][n] = queue[u][n + 1]
<1> DEFINE u == UserOfTask(cur[i])
<1>1. /\ pc[i] = "pop" /\ pc' = [pc EXCEPT ![i] = "requeue"]
      /\ UNCHANGED <<caller, task, heads, cur>>
      /\ queue' = [queue EXCEPT ![u] = IF queue[u] = <<>> THEN queue[u] ELSE Tail(queue[u])]
  BY DEF Pop, Goto, otherVars, batchVars
<1>2. cur[i] \in Tasks /\ u \in Users /\ queue \in [Users -> Seq(Msgs)]
  BY <1>1, ConstantAssumption DEF TypeInv, TypeOK, CurKnown, Tasks, UserOfTask
<1>3. pc'[i] = "requeue" /\ \A j \in Instances \ {i} : pc'[j] = pc[j]
  BY <1>1 DEF TypeInv, TypeOK
<1> HIDE DEF u
<1>4. \A v \in Users \ {u} : queue'[v] = queue[v]
  BY <1>1, <1>2
<1>5. CASE queue[u] = <<>>
  <2>1. queue' = queue
    BY <1>1, <1>2, <1>5
  <2> QED
    BY <1>1, <1>2, <1>3, <1>4, <1>5, <2>1 DEF u
<1>6. CASE queue[u] # <<>>
  <2>1. queue'[u] = Tail(queue[u]) /\ queue[u] \in Seq(Msgs)
    BY <1>1, <1>2, <1>6
  <2> QED
    BY <1>1, <1>2, <1>3, <1>4, <1>6, <2>1, TailAt DEF u
<1> QED
  BY <1>5, <1>6

\* What is left of a list keeps its order.
LEMMA OrderPop == ASSUME TypeInv, OrderInv, NEW i \in Instances, Pop(i) PROVE OrderInv'
<1> USE DEF OrderInv
<1> DEFINE u == UserOfTask(cur[i])
<1>1. /\ u \in Users /\ pc[i] = "pop" /\ pc'[i] = "requeue"
      /\ \A j \in Instances \ {i} : pc'[j] = pc[j]
      /\ UNCHANGED <<caller, task, heads, cur>>
      /\ \A v \in Users \ {u} : queue'[v] = queue[v]
      /\ \/ queue[u] = <<>> /\ queue' = queue
         \/ /\ queue[u] # <<>> /\ Len(queue[u]) \in Nat \ {0}
            /\ queue'[u] = Tail(queue[u])
            /\ Len(queue'[u]) = Len(queue[u]) - 1
            /\ \A n \in 1 .. Len(queue'[u]) : queue'[u][n] = queue[u][n + 1]
  BY PopEffect
<1> HIDE DEF u
<1>2. ASSUME NEW v \in Users
      PROVE  \/ queue'[v] = queue[v]
             \/ /\ Len(queue[v]) \in Nat \ {0} /\ Len(queue'[v]) = Len(queue[v]) - 1
                /\ \A n \in 1 .. Len(queue'[v]) : queue'[v][n] = queue[v][n + 1]
  BY <1>1
<1>3. QueueKnown'
  <2> SUFFICES ASSUME NEW v \in Users
               PROVE  /\ Different(queue'[v])
                      /\ \A n \in 1 .. Len(queue'[v]) :
                           UserOf[queue'[v][n]] = v /\ Known(queue'[v][n])
    BY <1>1 DEF QueueKnown, Different, Known
  <2>1. CASE queue'[v] = queue[v]
    BY <2>1 DEF QueueKnown
  <2>2. CASE /\ Len(queue[v]) \in Nat \ {0} /\ Len(queue'[v]) = Len(queue[v]) - 1
             /\ \A n \in 1 .. Len(queue'[v]) : queue'[v][n] = queue[v][n + 1]
    <3>1. \A n \in 1 .. Len(queue'[v]) : n \in Nat /\ n + 1 \in 1 .. Len(queue[v])
      BY <2>2
    <3>2. \A n, k \in 1 .. Len(queue'[v]) : n + 1 = k + 1 => n = k
      BY <3>1
    <3> QED
      BY <2>2, <3>1, <3>2 DEF QueueKnown, Different
  <2> QED
    BY <1>2, <2>1, <2>2
<1>4. \A v \in Users : \A n \in 2 .. Len(queue'[v]) :
        \E k \in 2 .. Len(queue[v]) : queue'[v][n] = queue[v][k]
  <2> SUFFICES ASSUME NEW v \in Users, NEW n \in 2 .. Len(queue'[v])
               PROVE  \E k \in 2 .. Len(queue[v]) : queue'[v][n] = queue[v][k]
    OBVIOUS
  <2>1. CASE queue'[v] = queue[v]
    BY <2>1
  <2>2. CASE /\ Len(queue[v]) \in Nat \ {0} /\ Len(queue'[v]) = Len(queue[v]) - 1
             /\ \A k \in 1 .. Len(queue'[v]) : queue'[v][k] = queue[v][k + 1]
    <3>1. n \in 1 .. Len(queue'[v]) /\ n + 1 \in 2 .. Len(queue[v])
      BY <2>2
    <3> QED
      BY <2>2, <3>1
  <2> QED
    BY <1>2, <2>1, <2>2
<1>5. Fronts'
  <2>1. \A j \in Instances, m \in Msgs : Candidate(j, m)' => Candidate(j, m)
    BY <1>1 DEF Candidate, Dispatches
  <2>2. \A m \in Msgs : Behind(m)' => Behind(m)
    BY <1>4, ConstantAssumption DEF Behind
  <2> QED
    BY <1>1, <2>1, <2>2 DEF Fronts, Known
<1>6. SentFromFirst'
  BY <1>1 DEF SentFromFirst, Known
<1>7. SentInOrder'
  <2>1. \A v \in Users : \A n \in 2 .. Len(queue'[v]) : ~Sent(queue'[v][n])
    BY <1>4 DEF SentInOrder
  <2> QED
    BY <1>1, <2>1 DEF SentInOrder, Sent
<1> QED
  BY <1>3, <1>5, <1>6, <1>7

\* Every step keeps the order.
LEMMA OrderStep == TypeInv /\ OrderInv /\ [Next]_vars => OrderInv'
BY StepKinds, OrderSettled, OrderPush, OrderTake, OrderSend, OrderPop DEF Moving

\* Whatever fails and however the instances' shards overlap, the messages of a user are
\* first sent in the order of his list: RPUSH adds behind everything, and what an
\* instance takes for the head by LINDEX stays ahead of what was not the head.
THEOREM FirstSendsInOrder == Spec => []SentInOrder
<1>1. TypeInv /\ OrderInv /\ [Next]_vars => (TypeInv /\ OrderInv)'
  BY TypeStep, OrderStep
<1>2. OrderInv => SentInOrder
  BY DEF OrderInv
<1> QED
  BY <1>1, <1>2, TypeInit, OrderInit, PTL DEF Spec

-----------------------------------------------------------------------------
(* One instance loses nothing: what it pops is the message it has sent. *)

OneInstance == \A i, j \in Instances : i = j

\* A candidate is in its list until it is popped, and the user of the one in dispatch is
\* not among those that are still to be dispatched.
CandidatesQueued ==
  \A i \in Instances :
    /\ \A m \in Msgs : Candidate(i, m) => Queued(m)
    /\ Dispatches(i) => \A m \in heads[i] : UserOf[m] # UserOfTask(cur[i])

\* What is in flight has been sent.
FlightSent == \A i \in Instances : InFlight(i) => task[cur[i]] # "none"

KeepInv == CandidatesQueued /\ FlightSent /\ NoMessageLost

\* Nothing has been pushed at first.
LEMMA KeepInit == Init => KeepInv
BY DEF Init, KeepInv, CandidatesQueued, Candidate, Dispatches, FlightSent, InFlight,
       NoMessageLost

\* In flight is what has been sent, whatever step is taken.
LEMMA FlightStep ==
  ASSUME TypeInv, FlightSent, [Next]_vars PROVE FlightSent'
<1>1. CASE Settled
  <2>1. \A i \in Instances : InFlight(i) => cur[i] \in Tasks
    BY DEF TypeInv, CurKnown, InFlight
  <2> QED
    BY <1>1, <2>1 DEF Settled, FlightSent
<1>2. CASE \E m \in Msgs : Push(m)
  BY <1>2 DEF Push, FlightSent, InFlight, instVars, batchVars
<1>3. ASSUME NEW i \in Instances, ReadHeads(i) \/ Acquire(i) PROVE FlightSent'
  <2>1. task' = task /\ \A j \in Instances : InFlight(j)' => InFlight(j) /\ cur'[j] = cur[j]
    BY <1>3 DEF ReadHeads, Acquire, InFlight, Goto, otherVars, TypeInv, TypeOK
  <2> QED
    BY <2>1 DEF FlightSent
<1>4. ASSUME NEW i \in Instances, Send(i) PROVE FlightSent'
  <2>1. \E t \in Tasks : /\ task'[t] = "queued" /\ \A s \in Tasks \ {t} : task'[s] = task[s]
                         /\ cur'[i] = t
                         /\ \A j \in Instances \ {i} : pc'[j] = pc[j] /\ cur'[j] = cur[j]
    BY <1>4, SendEffect
  <2>2. \A j \in Instances : InFlight(j) => cur[j] \in Tasks
    BY DEF TypeInv, CurKnown, InFlight
  <2> QED
    BY <2>1, <2>2 DEF FlightSent, InFlight
<1>5. ASSUME NEW i \in Instances, Pop(i) PROVE FlightSent'
  BY <1>5, PopEffect DEF FlightSent, InFlight
<1> QED
  BY <1>1, <1>2, <1>3, <1>4, <1>5, StepKinds DEF Moving

\* A settled step keeps what is queued and adds no candidate.
LEMMA KeepSettled ==
  ASSUME TypeInv, OrderInv, KeepInv, Settled, NoNewCandidate
  PROVE  CandidatesQueued' /\ NoMessageLost'
<1> USE DEF KeepInv, Settled, NoNewCandidate
<1>1. \A m \in Msgs : /\ Queued(m)' <=> Queued(m)
                      /\ Sent(m)' <=> Sent(m)
  BY DEF Queued, Sent, Tasks
<1>2. CandidatesQueued'
  BY <1>1 DEF CandidatesQueued, Candidate, UserOfTask
<1>3. NoMessageLost'
  BY <1>1 DEF NoMessageLost, Known
<1> QED
  BY <1>2, <1>3

\* RPUSH puts one message into a list.
LEMMA QueuedPush ==
  ASSUME TypeInv, NEW m \in Msgs, Push(m)
  PROVE  \A k \in Msgs : Queued(k)' <=> Queued(k) \/ k = m
<1> DEFINE u == UserOf[m]
<1>1. /\ u \in Users /\ Len(queue[u]) \in Nat
      /\ Len(queue'[u]) = Len(queue[u]) + 1 /\ queue'[u][Len(queue[u]) + 1] = m
      /\ \A n \in 1 .. Len(queue[u]) : queue'[u][n] = queue[u][n]
      /\ \A v \in Users \ {u} : queue'[v] = queue[v]
      /\ \A k \in Msgs : Known(k)' <=> Known(k) \/ k = m
      /\ UNCHANGED <<task, pc, heads, cur>>
      /\ \A v \in Users : queue[v] \in Seq(Msgs) /\ queue'[v] \in Seq(Msgs)
  <2>1. /\ u \in Users
        /\ Len(queue'[u]) = Len(queue[u]) + 1 /\ queue'[u][Len(queue[u]) + 1] = m
        /\ \A n \in 1 .. Len(queue[u]) : queue'[u][n] = queue[u][n]
        /\ \A v \in Users \ {u} : queue'[v] = queue[v]
        /\ \A k \in Msgs : Known(k)' <=> Known(k) \/ k = m
        /\ UNCHANGED <<task, pc, heads, cur>>
    BY PushEffect
  <2>2. TypeInv'
    BY TypePush DEF PushTask
  <2>3. \A v \in Users : queue[v] \in Seq(Msgs)
    BY DEF TypeInv, TypeOK
  <2>4. \A v \in Users : queue'[v] \in Seq(Msgs)
    BY <2>2 DEF TypeInv, TypeOK
  <2>5. Len(queue[u]) \in Nat
    BY <2>1, <2>3
  <2> QED
    BY <2>1, <2>3, <2>4, <2>5
<1> HIDE DEF u
<1> SUFFICES ASSUME NEW k \in Msgs PROVE Queued(k)' <=> Queued(k) \/ k = m
  OBVIOUS
<1>2. CASE UserOf[k] # u
  BY <1>1, <1>2, ConstantAssumption DEF Queued, u
<1>3. CASE UserOf[k] = u
  <2>1. /\ DOMAIN queue[u] = 1 .. Len(queue[u])
        /\ DOMAIN queue'[u] = 1 .. (Len(queue[u]) + 1)
    BY <1>1
  <2>2. \A n \in 1 .. (Len(queue[u]) + 1) : n \in 1 .. Len(queue[u]) \/ n = Len(queue[u]) + 1
    BY <1>1
  <2>3. /\ Len(queue[u]) + 1 \in 1 .. (Len(queue[u]) + 1)
        /\ \A n \in 1 .. Len(queue[u]) : n \in 1 .. (Len(queue[u]) + 1)
    BY <1>1
  <2> QED
    BY <1>1, <1>3, <2>1, <2>2, <2>3 DEF Queued
<1> QED
  BY <1>2, <1>3

\* A pushed message is queued, and others stay so.
LEMMA KeepPush ==
  ASSUME TypeInv, OrderInv, KeepInv, NEW m \in Msgs, Push(m)
  PROVE  CandidatesQueued' /\ NoMessageLost'
<1>1. /\ \A k \in Msgs : Known(k)' <=> Known(k) \/ k = m
      /\ UNCHANGED <<task, pc, heads, cur>>
  BY PushEffect
<1>2. \A k \in Msgs : Queued(k)' <=> Queued(k) \/ k = m
  BY QueuedPush
<1>3. CandidatesQueued'
  BY <1>1, <1>2 DEF KeepInv, CandidatesQueued, Candidate, Dispatches, UserOfTask
<1>4. NoMessageLost'
  BY <1>1, <1>2 DEF KeepInv, NoMessageLost, Known, Sent
<1> QED
  BY <1>3, <1>4

\* The first message of a list is queued, and no two candidates share a user.
LEMMA KeepTake ==
  ASSUME TypeInv, OrderInv, KeepInv, NEW i \in Instances, ReadHeads(i) \/ Acquire(i)
  PROVE  CandidatesQueued' /\ NoMessageLost'
<1>1. UNCHANGED <<queue, caller, task>>
  BY DEF ReadHeads, Acquire, queueVars, otherVars
<1>2. \A m \in Msgs : Queued(m)' = Queued(m) /\ Sent(m)' = Sent(m)
  BY <1>1 DEF Queued, Sent
<1>3. NoMessageLost'
  BY <1>1, <1>2 DEF KeepInv, NoMessageLost
<1>4. CASE ReadHeads(i)
  <2>1. /\ \A j \in Instances : Dispatches(j)' => j # i /\ Dispatches(j) /\ cur'[j] = cur[j]
        /\ \A j \in Instances \ {i} : heads'[j] = heads[j]
    BY <1>4 DEF ReadHeads, Dispatches, Goto, TypeInv, TypeOK
  <2>2. \A m \in heads'[i] : Queued(m)
    <3> SUFFICES ASSUME NEW m \in heads'[i] PROVE Queued(m)
      OBVIOUS
    <3>1. m \in Msgs /\ queue[UserOf[m]] # <<>> /\ Head(queue[UserOf[m]]) = m
      BY <1>4, ReadHeadsEffect DEF OrderInv
    <3>2. queue[UserOf[m]] \in Seq(Msgs)
      BY <3>1, ConstantAssumption DEF TypeInv, TypeOK
    <3>3. 1 \in DOMAIN queue[UserOf[m]] /\ queue[UserOf[m]][1] = m
      BY <3>1, <3>2, TailAt
    <3> QED
      BY <3>3 DEF Queued
  <2>3. CandidatesQueued'
    BY <1>2, <2>1, <2>2 DEF KeepInv, CandidatesQueued, Candidate, UserOfTask
  <2> QED
    BY <1>3, <2>3
<1>5. CASE Acquire(i)
  <2>1. PICK k \in heads[i] : /\ heads' = [heads EXCEPT ![i] = @ \ {k}]
                              /\ cur' = [cur EXCEPT ![i] = <<k, 0>>]
    BY <1>5 DEF Acquire
  <2>2. /\ k \in Msgs /\ Candidate(i, k) /\ ~Dispatches(i) /\ cur'[i] = <<k, 0>>
        /\ heads'[i] = heads[i] \ {k} /\ heads[i] \subseteq Msgs
        /\ \A j \in Instances \ {i} : pc'[j] = pc[j] /\ heads'[j] = heads[j] /\ cur'[j] = cur[j]
    BY <1>5, <2>1 DEF Acquire, Candidate, Dispatches, Goto, TypeInv, TypeOK
  <2>3. \A j \in Instances, m \in Msgs : Candidate(j, m)' => Candidate(j, m)
    BY <2>2 DEF Candidate, Dispatches
  <2>4. ASSUME NEW m \in heads[i] \ {k} PROVE UserOf[m] # UserOf[k]
    <3>1. \A x \in heads[i] : Queued(x) /\ ~Behind(x) /\ x \in Msgs
      BY <2>2 DEF KeepInv, CandidatesQueued, OrderInv, Fronts, Candidate
    <3>2. \A x \in heads[i] : queue[UserOf[x]] \in Seq(Msgs) /\ queue[UserOf[x]][1] = x
      <4> SUFFICES ASSUME NEW x \in heads[i]
                   PROVE  queue[UserOf[x]] \in Seq(Msgs) /\ queue[UserOf[x]][1] = x
        OBVIOUS
      <4>1. queue[UserOf[x]] \in Seq(Msgs)
        BY <3>1, ConstantAssumption DEF TypeInv, TypeOK
      <4>2. PICK n \in DOMAIN queue[UserOf[x]] : queue[UserOf[x]][n] = x
        BY <3>1 DEF Queued
      <4>3. n = 1 \/ n \in 2 .. Len(queue[UserOf[x]])
        BY <4>1
      <4> QED
        BY <3>1, <4>1, <4>2, <4>3 DEF Behind
    <3> QED
      BY <2>1, <3>2
  <2>5. \A j \in Instances : Dispatches(j)' =>
          \A m \in heads'[j] : UserOf[m] # UserOfTask(cur'[j])
    BY <2>2, <2>4 DEF KeepInv, CandidatesQueued, Dispatches, UserOfTask
  <2>6. CandidatesQueued'
    BY <1>2, <2>3, <2>5 DEF KeepInv, CandidatesQueued, UserOfTask
  <2> QED
    BY <1>3, <2>6
<1> QED
  BY <1>4, <1>5

\* What has been sent is still queued.
LEMMA KeepSend ==
  ASSUME TypeInv, OrderInv, KeepInv, NEW i \in Instances, Send(i)
  PROVE  CandidatesQueued' /\ NoMessageLost'
<1>1. PICK k \in 1 .. MaxSends :
        LET t == <<cur[i][1], k>>
        IN  /\ t \in Tasks /\ task[t] = "none"
            /\ task'[t] = "queued" /\ \A s \in Tasks \ {t} : task'[s] = task[s]
            /\ pc[i] = "send" /\ pc'[i] = "commit" /\ cur'[i] = t
            /\ \A j \in Instances \ {i} : pc'[j] = pc[j] /\ cur'[j] = cur[j]
            /\ UNCHANGED <<queue, caller, heads>>
  BY SendEffect
<1>2. \A m \in Msgs : (Queued(m)' <=> Queued(m)) /\ (Sent(m) => Sent(m)')
  <2>1. \A m \in Msgs, n \in 1 .. MaxSends : <<m, n>> \in Tasks
    BY DEF Tasks
  <2> QED
    BY <1>1, <2>1 DEF Queued, Sent
<1>3. \A j \in Instances : /\ Dispatches(j)' <=> Dispatches(j)
                           /\ Dispatches(j) => cur'[j][1] = cur[j][1]
  BY <1>1 DEF Dispatches
<1>4. CandidatesQueued'
  BY <1>1, <1>2, <1>3 DEF KeepInv, CandidatesQueued, Candidate, UserOfTask
<1>5. NoMessageLost'
  BY <1>1, <1>2 DEF KeepInv, NoMessageLost
<1> QED
  BY <1>4, <1>5

\* The only instance pops what it has sent.
LEMMA KeepPop ==
  ASSUME TypeInv, OrderInv, KeepInv, OneInstance, NEW i \in Instances, Pop(i)
  PROVE  CandidatesQueued' /\ NoMessageLost'
<1> DEFINE u == UserOfTask(cur[i])
<1>1. /\ u \in Users /\ cur[i] \in Tasks /\ pc[i] = "pop" /\ pc'[i] = "requeue"
      /\ UNCHANGED <<caller, task, heads, cur>>
      /\ \A v \in Users \ {u} : queue'[v] = queue[v]
      /\ \/ queue[u] = <<>> /\ queue' = queue
         \/ /\ queue[u] # <<>> /\ Len(queue[u]) \in Nat \ {0}
            /\ queue'[u] = Tail(queue[u])
            /\ Len(queue'[u]) = Len(queue[u]) - 1
            /\ \A n \in 1 .. Len(queue'[u]) : queue'[u][n] = queue[u][n + 1]
  BY PopEffect
<1>2. cur[i][1] \in Msgs /\ \E k \in 1 .. MaxSends : cur[i] = <<cur[i][1], k>>
  BY <1>1 DEF Tasks
<1>3. Queued(cur[i][1]) /\ ~Behind(cur[i][1]) /\ Sent(cur[i][1])
  <2>1. Candidate(i, cur[i][1]) /\ InFlight(i)
    BY <1>1 DEF Candidate, Dispatches, InFlight
  <2> QED
    BY <1>2, <2>1 DEF KeepInv, CandidatesQueued, OrderInv, Fronts, FlightSent, Sent
<1>4. ASSUME NEW m \in Msgs, Queued(m), m # cur[i][1] PROVE Queued(m)'
  <2>1. CASE UserOf[m] # u
    BY <1>1, <1>4, <2>1, ConstantAssumption DEF Queued
  <2>2. CASE UserOf[m] = u
    <3>1. queue[u] \in Seq(Msgs) /\ UserOf[cur[i][1]] = u
      BY <1>1 DEF TypeInv, TypeOK, UserOfTask
    <3> HIDE DEF u
    <3>2. PICK n \in 1 .. Len(queue[u]) : queue[u][n] = m
      BY <1>4, <2>2, <3>1 DEF Queued
    <3>3. queue[u][1] = cur[i][1]
      <4>1. PICK k \in 1 .. Len(queue[u]) : queue[u][k] = cur[i][1]
        BY <1>3, <3>1 DEF Queued
      <4>2. k = 1 \/ k \in 2 .. Len(queue[u])
        BY <3>1
      <4> QED
        BY <1>3, <3>1, <4>1, <4>2 DEF Behind
    <3>4. n # 1 /\ Len(queue[u]) \in Nat /\ queue[u] # <<>>
      BY <1>4, <3>1, <3>2, <3>3
    <3>5. n - 1 \in 1 .. Len(queue'[u]) /\ (n - 1) + 1 = n
      BY <1>1, <3>2, <3>4
    <3>6. queue'[u][n - 1] = m
      BY <1>1, <3>2, <3>4, <3>5
    <3>7. DOMAIN queue'[u] = 1 .. Len(queue'[u])
      BY <1>1, <3>1, <3>4, TailAt
    <3> QED
      BY <2>2, <3>5, <3>6, <3>7 DEF Queued
  <2> QED
    BY <2>1, <2>2
<1>5. CandidatesQueued'
  <2> SUFFICES ASSUME NEW j \in Instances, NEW m \in Msgs, m \in heads[j]
               PROVE  ~Dispatches(j)' /\ Queued(m)'
    BY <1>1 DEF CandidatesQueued, Candidate, Dispatches, OneInstance
  <2>1. j = i /\ Dispatches(i) /\ Candidate(i, m) /\ ~Dispatches(i)'
    BY <1>1 DEF OneInstance, Dispatches, Candidate
  <2>2. Queued(m) /\ UserOf[m] # u
    BY <2>1 DEF KeepInv, CandidatesQueued
  <2>3. m # cur[i][1]
    BY <2>2 DEF UserOfTask
  <2> QED
    BY <1>4, <2>1, <2>2, <2>3
<1>6. NoMessageLost'
  BY <1>1, <1>3, <1>4 DEF KeepInv, NoMessageLost, Sent
<1> QED
  BY <1>5, <1>6

\* Every step keeps the messages.
LEMMA KeepStep ==
  ASSUME TypeInv, OrderInv, KeepInv, OneInstance, [Next]_vars PROVE KeepInv'
<1>1. CandidatesQueued' /\ NoMessageLost'
  BY StepKinds, KeepSettled, KeepPush, KeepTake, KeepSend, KeepPop DEF Moving
<1> QED
  BY <1>1, FlightStep DEF KeepInv

\* A single scheduler loses no message, wherever it crashes and whatever fails: a
\* message stays in its list until its task has been sent, and the LPOP after the commit
\* takes that message and no other.
THEOREM NothingLost == ASSUME OneInstance PROVE Spec => []NoMessageLost
<1>1. TypeInv /\ OrderInv /\ KeepInv /\ [Next]_vars => (TypeInv /\ OrderInv /\ KeepInv)'
  BY OneInstance, TypeStep, OrderStep, KeepStep
<1>2. KeepInv => NoMessageLost
  BY DEF KeepInv
<1> QED
  BY <1>1, <1>2, TypeInit, OrderInit, KeepInit, PTL DEF Spec

-----------------------------------------------------------------------------
(* How many messages can be lost, for any number of instances and any faults.  A pop takes
   a message that was never sent only if the popping instance has sent a duplicate, or if
   another pop has already taken the message it sent; each pays for one loss. *)

\* LPOP takes the first message out of a list.
LEMMA QueuedPop ==
  ASSUME TypeInv, QueueKnown, NEW i \in Instances, Pop(i)
  PROVE  \/ \A m \in Msgs : /\ Queued(m)' <=> Queued(m)
                            /\ UserOf[m] = UserOfTask(cur[i]) => ~Queued(m)
         \/ \E h \in Msgs : /\ Known(h)
                            /\ \A m \in Msgs : Queued(m)' <=> Queued(m) /\ m # h
                            /\ \A m \in Msgs : Queued(m) /\ ~Behind(m)
                                 /\ UserOf[m] = UserOfTask(cur[i]) => m = h
<1> DEFINE u == UserOfTask(cur[i])
<1>1. /\ u \in Users
      /\ \A v \in Users \ {u} : queue'[v] = queue[v]
      /\ \/ queue[u] = <<>> /\ queue' = queue
         \/ /\ queue[u] # <<>> /\ Len(queue[u]) \in Nat \ {0}
            /\ queue'[u] = Tail(queue[u])
            /\ Len(queue'[u]) = Len(queue[u]) - 1
            /\ \A n \in 1 .. Len(queue'[u]) : queue'[u][n] = queue[u][n + 1]
  BY PopEffect
<1>2. CASE queue[u] = <<>> /\ queue' = queue
  BY <1>2 DEF Queued
<1>3. CASE /\ queue[u] # <<>> /\ Len(queue[u]) \in Nat \ {0}
           /\ queue'[u] = Tail(queue[u])
           /\ Len(queue'[u]) = Len(queue[u]) - 1
           /\ \A n \in 1 .. Len(queue'[u]) : queue'[u][n] = queue[u][n + 1]
  <2> DEFINE h == queue[u][1]
  <2>1. queue[u] \in Seq(Msgs) /\ DOMAIN queue[u] = 1 .. Len(queue[u])
        /\ 1 \in 1 .. Len(queue[u])
    BY <1>1, <1>3 DEF TypeInv, TypeOK
  <2>2. DOMAIN queue'[u] = 1 .. Len(queue'[u])
    BY <1>3, <2>1, TailAt
  <2>3. h \in Msgs /\ Known(h) /\ UserOf[h] = u
    BY <1>1, <2>1 DEF QueueKnown
  <2> HIDE DEF u
  <2>4. ASSUME NEW m \in Msgs, UserOf[m] = u PROVE Queued(m)' <=> Queued(m) /\ m # h
    <3>1. ASSUME Queued(m)' PROVE Queued(m) /\ m # h
      <4>1. PICK n \in 1 .. Len(queue'[u]) : queue'[u][n] = m
        BY <2>2, <2>4, <3>1 DEF Queued
      <4>2. queue[u][n + 1] = m /\ n + 1 \in 1 .. Len(queue[u]) /\ n + 1 # 1
        BY <1>3, <4>1
      <4>3. m # h
        BY <1>1, <2>1, <4>2 DEF QueueKnown, Different
      <4> QED
        BY <2>1, <2>4, <4>2, <4>3 DEF Queued
    <3>2. ASSUME Queued(m), m # h PROVE Queued(m)'
      <4>1. PICK n \in 1 .. Len(queue[u]) : queue[u][n] = m
        BY <2>1, <2>4, <3>2 DEF Queued
      <4>2. n - 1 \in 1 .. Len(queue'[u]) /\ (n - 1) + 1 = n
        BY <1>3, <3>2, <4>1
      <4>3. queue'[u][n - 1] = m
        BY <1>3, <4>1, <4>2
      <4> QED
        BY <2>2, <2>4, <4>2, <4>3 DEF Queued
    <3> QED
      BY <3>1, <3>2
  <2>5. ASSUME NEW m \in Msgs, UserOf[m] # u PROVE Queued(m)' <=> Queued(m) /\ m # h
    BY <1>1, <2>3, <2>5, ConstantAssumption DEF Queued
  <2>6. ASSUME NEW m \in Msgs, Queued(m), ~Behind(m), UserOf[m] = u PROVE m = h
    <3>1. PICK n \in 1 .. Len(queue[u]) : queue[u][n] = m
      BY <2>1, <2>6 DEF Queued
    <3>2. n = 1 \/ n \in 2 .. Len(queue[u])
      BY <1>3
    <3> QED
      BY <2>6, <3>1, <3>2 DEF Behind
  <2> QED
    BY <2>3, <2>4, <2>5, <2>6 DEF u
<1> QED
  BY <1>1, <1>2, <1>3

\* No two instances have the same task in flight.
FlightsDiffer ==
  \A i, j \in Instances : InFlight(i) /\ InFlight(j) /\ cur[i] = cur[j] => i = j

KnownMsgs  == {m \in Msgs : Known(m)}
SentTasks  == {t \in Tasks : task[t] # "none"}
Lost       == {m \in Msgs : Known(m) /\ ~Sent(m) /\ ~Queued(m)}
Duplicates == {t \in Tasks : t[2] > 1 /\ task[t] # "none"}

\* The instances whose next pop may take a message that was never sent.
Astray == {i \in Instances : InFlight(i) /\ (~Queued(cur[i][1]) \/ cur[i][2] > 1)}

Countable == IsFiniteSet(KnownMsgs) /\ IsFiniteSet(SentTasks)
Balance   == Cardinality(Lost) + Cardinality(Astray) <= Cardinality(Duplicates)

LossInv == FlightSent /\ FlightsDiffer /\ Countable /\ Balance

\* Finite sets that grow or shrink by an element.
LEMMA Smaller ==
  ASSUME NEW S, IsFiniteSet(S), NEW T, T \subseteq S
  PROVE  /\ IsFiniteSet(T) /\ Cardinality(T) \in Nat /\ Cardinality(S) \in Nat
         /\ Cardinality(T) <= Cardinality(S)
BY FS_Subset, FS_CardinalityType

\* The size of a finite set after one element may have come.
LEMMA OneMore ==
  ASSUME NEW S, IsFiniteSet(S), NEW x, NEW T, T \subseteq S \cup {x}
  PROVE  /\ IsFiniteSet(T) /\ Cardinality(T) \in Nat /\ Cardinality(S) \in Nat
         /\ Cardinality(T) <= Cardinality(S) + 1
<1>1. /\ IsFiniteSet(S \cup {x}) /\ Cardinality(S) \in Nat
      /\ Cardinality(S \cup {x}) <= Cardinality(S) + 1
  <2>1. Cardinality(S) \in Nat
    BY FS_CardinalityType
  <2>2. /\ IsFiniteSet(S \cup {x})
        /\ Cardinality(S \cup {x}) = IF x \in S THEN Cardinality(S) ELSE Cardinality(S) + 1
    BY FS_AddElement
  <2> QED
    BY <2>1, <2>2
<1> QED
  BY <1>1, Smaller

\* The size of a finite set after one element has gone.
LEMMA OneLess ==
  ASSUME NEW S, IsFiniteSet(S), NEW x \in S, NEW T, T \subseteq S \ {x}
  PROVE  /\ IsFiniteSet(T) /\ Cardinality(T) \in Nat /\ Cardinality(S) \in Nat
         /\ Cardinality(T) + 1 <= Cardinality(S)
<1>1. /\ IsFiniteSet(S \ {x}) /\ Cardinality(S \ {x}) = Cardinality(S) - 1
      /\ Cardinality(S) \in Nat
  BY FS_RemoveElement, FS_CardinalityType
<1> QED
  BY <1>1, Smaller

\* What is counted is finite.
LEMMA Counted ==
  ASSUME Countable
  PROVE  IsFiniteSet(Lost) /\ IsFiniteSet(Astray) /\ IsFiniteSet(Duplicates)
<1>1. Lost \subseteq KnownMsgs /\ Astray \subseteq Instances /\ Duplicates \subseteq SentTasks
  BY DEF Lost, KnownMsgs, Astray, Duplicates, SentTasks
<1> QED
  BY <1>1, Smaller, ConstantAssumption DEF Countable

\* Nothing is known or sent at first.
LEMMA LossInit == Init => LossInv
<1> SUFFICES ASSUME Init PROVE LossInv
  OBVIOUS
<1>1. /\ KnownMsgs = {} /\ SentTasks = {} /\ Lost = {} /\ Astray = {} /\ Duplicates = {}
      /\ \A i \in Instances : ~InFlight(i)
  BY DEF Init, Known, InFlight, KnownMsgs, SentTasks, Lost, Astray, Duplicates
<1> QED
  BY <1>1, FS_EmptySet DEF LossInv, FlightSent, FlightsDiffer, Countable, Balance

\* The steps that neither send nor pop: what is sent and in flight stays, and no message
\* leaves its list.
LEMMA NeitherSentNorPopped ==
  ASSUME TypeInv, [Next]_vars, \A i \in Instances : ~Send(i) /\ ~Pop(i)
  PROVE  /\ \A t \in Tasks : task'[t] # "none" <=> task[t] # "none"
         /\ \A i \in Instances : InFlight(i)' => InFlight(i) /\ cur'[i] = cur[i]
         /\ \A m \in Msgs : (Queued(m) => Queued(m)')
                            /\ (Known(m)' /\ ~Queued(m)' => Known(m))
         /\ \E x : \A m \in Msgs : Known(m)' => Known(m) \/ m = x
<1>1. CASE Settled
  BY <1>1 DEF Settled, Queued
<1>2. ASSUME NEW m \in Msgs, Push(m)
      PROVE  /\ UNCHANGED <<task, pc, cur>>
             /\ \A k \in Msgs : Queued(k)' <=> Queued(k) \/ k = m
             /\ \A k \in Msgs : Known(k)' <=> Known(k) \/ k = m
  BY <1>2, PushEffect, QueuedPush
<1>3. ASSUME NEW i \in Instances, ReadHeads(i) \/ Acquire(i)
      PROVE  /\ UNCHANGED <<queue, caller, task>>
             /\ \A j \in Instances : InFlight(j)' => InFlight(j) /\ cur'[j] = cur[j]
  BY <1>3 DEF ReadHeads, Acquire, InFlight, Goto, queueVars, otherVars, TypeInv, TypeOK
<1>4. CASE \E m \in Msgs : Push(m)
  BY <1>2, <1>4 DEF InFlight
<1>5. CASE \E i \in Instances : ReadHeads(i) \/ Acquire(i)
  BY <1>3, <1>5 DEF Queued, Known
<1> QED
  BY <1>1, <1>4, <1>5, StepKinds DEF Moving

\* Such steps add nothing to either side.
LEMMA LossQuiet ==
  ASSUME TypeInv, OrderInv, LossInv, [Next]_vars, \A i \in Instances : ~Send(i) /\ ~Pop(i)
  PROVE  FlightsDiffer' /\ Countable' /\ Balance'
<1>1. /\ \A t \in Tasks : task'[t] # "none" <=> task[t] # "none"
      /\ \A i \in Instances : InFlight(i)' => InFlight(i) /\ cur'[i] = cur[i]
      /\ \A m \in Msgs : (Queued(m) => Queued(m)') /\ (Known(m)' /\ ~Queued(m)' => Known(m))
      /\ \E x : \A m \in Msgs : Known(m)' => Known(m) \/ m = x
  BY NeitherSentNorPopped
<1>2. \A m \in Msgs : Sent(m)' <=> Sent(m)
  <2>1. \A m \in Msgs, k \in 1 .. MaxSends : <<m, k>> \in Tasks
    BY DEF Tasks
  <2> QED
    BY <1>1, <2>1 DEF Sent
<1>3. \A i \in Instances : InFlight(i) => cur[i][1] \in Msgs
  BY DEF InFlight, TypeInv, CurKnown, Tasks
<1>4. FlightsDiffer'
  BY <1>1 DEF LossInv, FlightsDiffer
<1>5. SentTasks' = SentTasks /\ Duplicates' = Duplicates
  BY <1>1 DEF SentTasks, Duplicates
<1>6. Lost' \subseteq Lost
  BY <1>1, <1>2 DEF Lost
<1>7. Astray' \subseteq Astray
  BY <1>1, <1>3 DEF Astray
<1>8. Countable'
  <2>1. PICK x : \A m \in Msgs : Known(m)' => Known(m) \/ m = x
    BY <1>1
  <2>2. KnownMsgs' \subseteq KnownMsgs \cup {x}
    BY <2>1 DEF KnownMsgs
  <2> QED
    BY <1>5, <2>2, OneMore DEF LossInv, Countable
<1>9. Balance'
  <2>1. /\ Cardinality(Lost') <= Cardinality(Lost)
        /\ Cardinality(Astray') <= Cardinality(Astray)
        /\ Cardinality(Lost') \in Nat /\ Cardinality(Lost) \in Nat
        /\ Cardinality(Astray') \in Nat /\ Cardinality(Astray) \in Nat
    BY <1>6, <1>7, Counted, Smaller DEF LossInv
  <2>2. Cardinality(Duplicates) \in Nat
    BY Counted, FS_CardinalityType DEF LossInv
  <2> QED
    BY <1>5, <2>1, <2>2 DEF LossInv, Balance
<1> QED
  BY <1>4, <1>8, <1>9

\* The first task of a message may send its instance astray only when the message was
\* lost before; every other task is a duplicate.
LEMMA LossSend ==
  ASSUME TypeInv, OrderInv, LossInv, NEW i \in Instances, Send(i)
  PROVE  FlightsDiffer' /\ Countable' /\ Balance'
<1>1. PICK m \in Msgs, k \in 1 .. MaxSends :
        /\ m = cur[i][1] /\ <<m, k>> \in Tasks /\ task[<<m, k>>] = "none"
        /\ task'[<<m, k>>] = "queued" /\ \A s \in Tasks \ {<<m, k>>} : task'[s] = task[s]
        /\ pc[i] = "send" /\ pc'[i] = "commit" /\ cur'[i] = <<m, k>>
        /\ \A j \in Instances \ {i} : pc'[j] = pc[j] /\ cur'[j] = cur[j]
        /\ UNCHANGED <<queue, caller, heads>>
  BY SendEffect
<1> DEFINE t == <<m, k>>
<1>2. /\ t \in Tasks /\ task[t] = "none" /\ m = cur[i][1]
      /\ task'[t] = "queued" /\ \A s \in Tasks \ {t} : task'[s] = task[s]
      /\ pc[i] = "send" /\ pc'[i] = "commit" /\ cur'[i] = t /\ t[1] = m /\ t[2] = k
      /\ \A j \in Instances \ {i} : pc'[j] = pc[j] /\ cur'[j] = cur[j]
      /\ UNCHANGED <<queue, caller, heads>>
  BY <1>1
<1>3. Known(m)
  BY <1>2 DEF OrderInv, Fronts, Candidate, Dispatches
<1> HIDE DEF t
<1>4. /\ \A x \in Msgs : (Queued(x)' <=> Queued(x)) /\ (Known(x)' <=> Known(x))
      /\ \A x \in Msgs : Sent(x) => Sent(x)'
      /\ Sent(m)'
  <2>1. \A x \in Msgs, n \in 1 .. MaxSends : <<x, n>> \in Tasks
    BY DEF Tasks
  <2>2. \A x \in Msgs : (Queued(x)' <=> Queued(x)) /\ (Known(x)' <=> Known(x))
    BY <1>2 DEF Queued, Known
  <2>3. \A x \in Msgs : Sent(x) => Sent(x)'
    BY <1>2, <2>1 DEF Sent
  <2>4. task'[<<m, k>>] # "none"
    BY <1>2 DEF t
  <2> QED
    BY <2>2, <2>3, <2>4 DEF Sent
<1>5. FlightsDiffer'
  <2>1. \A j \in Instances \ {i} : InFlight(j) => cur[j] # t
    BY <1>2 DEF LossInv, FlightSent
  <2> QED
    BY <1>2, <2>1 DEF LossInv, FlightsDiffer, InFlight
<1>6. Countable'
  <2>1. KnownMsgs' = KnownMsgs
    BY <1>4 DEF KnownMsgs
  <2>2. SentTasks' \subseteq SentTasks \cup {t}
    BY <1>2 DEF SentTasks
  <2> QED
    BY <2>1, <2>2, OneMore DEF LossInv, Countable
<1>7. /\ IsFiniteSet(Lost) /\ IsFiniteSet(Astray) /\ IsFiniteSet(Duplicates)
      /\ Cardinality(Lost) + Cardinality(Astray) <= Cardinality(Duplicates)
      /\ IsFiniteSet(Duplicates')
  <2>1. Duplicates' \subseteq SentTasks' /\ IsFiniteSet(SentTasks')
    BY <1>6 DEF Countable, Duplicates, SentTasks
  <2>2. IsFiniteSet(Duplicates')
    BY <2>1, Smaller
  <2> QED
    BY <2>2, Counted DEF LossInv, Balance
<1>8. Lost' \subseteq Lost
  BY <1>4 DEF Lost
<1>9. Astray' \subseteq Astray \cup {i}
  <2>1. \A j \in Instances : InFlight(j) => cur[j][1] \in Msgs
    BY DEF InFlight, TypeInv, CurKnown, Tasks
  <2> QED
    BY <1>2, <1>4, <2>1 DEF Astray, InFlight
<1>10. CASE k > 1
  <2>1. Duplicates \subseteq Duplicates' \ {t} /\ t \in Duplicates'
    BY <1>2, <1>10 DEF Duplicates
  <2>2. Cardinality(Duplicates) + 1 <= Cardinality(Duplicates')
        /\ Cardinality(Duplicates) \in Nat /\ Cardinality(Duplicates') \in Nat
    BY <1>7, <2>1, OneLess
  <2>3. /\ Cardinality(Lost') <= Cardinality(Lost) /\ Cardinality(Lost) \in Nat
        /\ Cardinality(Lost') \in Nat
    BY <1>7, <1>8, Smaller
  <2>4. /\ Cardinality(Astray') <= Cardinality(Astray) + 1 /\ Cardinality(Astray) \in Nat
        /\ Cardinality(Astray') \in Nat
    BY <1>7, <1>9, OneMore
  <2>5. Balance'
    BY <1>7, <2>2, <2>3, <2>4 DEF Balance
  <2> QED
    BY <1>5, <1>6, <2>5
<1>11. CASE k = 1
  <2>1. Duplicates' = Duplicates
    BY <1>2, <1>11 DEF Duplicates
  <2>2. ~Sent(m)
    BY <1>2, <1>11 DEF OrderInv, SentFromFirst, Sent, t
  <2>3. Cardinality(Duplicates) \in Nat
    BY <1>7, FS_CardinalityType
  <2>4. CASE Queued(m)
    <3>1. Astray' \subseteq Astray
      BY <1>2, <1>4, <1>9, <1>11, <2>4 DEF Astray
    <3>2. /\ Cardinality(Lost') <= Cardinality(Lost) /\ Cardinality(Lost) \in Nat
          /\ Cardinality(Lost') \in Nat
      BY <1>7, <1>8, Smaller
    <3>3. /\ Cardinality(Astray') <= Cardinality(Astray) /\ Cardinality(Astray) \in Nat
          /\ Cardinality(Astray') \in Nat
      BY <1>7, <3>1, Smaller
    <3>4. Balance'
      BY <1>7, <2>1, <2>3, <3>2, <3>3 DEF Balance
    <3> QED
      BY <1>5, <1>6, <3>4
  <2>5. CASE ~Queued(m)
    <3>1. m \in Lost /\ Lost' \subseteq Lost \ {m}
      <4>1. m \in Lost
        BY <1>2, <1>3, <2>2, <2>5 DEF Lost
      <4>2. m \notin Lost'
        BY <1>4 DEF Lost
      <4> QED
        BY <1>8, <4>1, <4>2
    <3>2. /\ Cardinality(Lost') + 1 <= Cardinality(Lost) /\ Cardinality(Lost) \in Nat
          /\ Cardinality(Lost') \in Nat
      BY <1>7, <3>1, OneLess
    <3>3. /\ Cardinality(Astray') <= Cardinality(Astray) + 1 /\ Cardinality(Astray) \in Nat
          /\ Cardinality(Astray') \in Nat
      BY <1>7, <1>9, OneMore
    <3>4. Balance'
      BY <1>7, <2>1, <2>3, <3>2, <3>3 DEF Balance
    <3> QED
      BY <1>5, <1>6, <3>4
  <2> QED
    BY <2>4, <2>5
<1> QED
  BY <1>10, <1>11

\* A pop that takes an unsent message is one of an instance gone astray, which it is no
\* longer; one that takes a sent message may send one other instance astray, the one that
\* has the first task of that message in flight, but then it was astray itself.
LEMMA LossPop ==
  ASSUME TypeInv, OrderInv, LossInv, NEW i \in Instances, Pop(i)
  PROVE  FlightsDiffer' /\ Countable' /\ Balance'
<1>1. /\ cur[i] \in Tasks /\ pc[i] = "pop" /\ pc'[i] = "requeue"
      /\ \A j \in Instances \ {i} : pc'[j] = pc[j]
      /\ UNCHANGED <<caller, task, heads, cur>>
  BY PopEffect
<1>2. InFlight(i) /\ ~InFlight(i)' /\ \A j \in Instances \ {i} : InFlight(j)' <=> InFlight(j)
  BY <1>1 DEF InFlight
<1>3. \A m \in Msgs : (Known(m)' <=> Known(m)) /\ (Sent(m)' <=> Sent(m))
  BY <1>1 DEF Known, Sent
<1>4. FlightsDiffer'
  BY <1>1, <1>2 DEF LossInv, FlightsDiffer
<1>5. KnownMsgs' = KnownMsgs /\ SentTasks' = SentTasks /\ Duplicates' = Duplicates
  BY <1>1, <1>3 DEF KnownMsgs, SentTasks, Duplicates
<1>6. Countable'
  BY <1>5 DEF LossInv, Countable
<1>7. \A j \in Instances : InFlight(j) => /\ cur[j] \in Tasks /\ cur[j][1] \in Msgs
                                          /\ cur[j] = <<cur[j][1], cur[j][2]>>
                                          /\ cur[j][2] \in 1 .. MaxSends
                                          /\ Sent(cur[j][1])
  BY DEF InFlight, TypeInv, CurKnown, LossInv, FlightSent, Tasks, Sent
<1>8. /\ IsFiniteSet(Lost) /\ IsFiniteSet(Astray) /\ IsFiniteSet(Duplicates)
      /\ Cardinality(Lost) + Cardinality(Astray) <= Cardinality(Duplicates)
      /\ Cardinality(Duplicates) \in Nat
  BY Counted, FS_CardinalityType DEF LossInv, Balance
<1>9. ASSUME \A m \in Msgs : Queued(m)' <=> Queued(m) PROVE Balance'
  <2>1. Lost' \subseteq Lost /\ Astray' \subseteq Astray
    BY <1>1, <1>2, <1>3, <1>7, <1>9 DEF Lost, Astray
  <2>2. /\ Cardinality(Lost') <= Cardinality(Lost) /\ Cardinality(Astray') <= Cardinality(Astray)
        /\ Cardinality(Lost') \in Nat /\ Cardinality(Lost) \in Nat
        /\ Cardinality(Astray') \in Nat /\ Cardinality(Astray) \in Nat
    BY <1>8, <2>1, Smaller
  <2> QED
    BY <1>5, <1>8, <2>2 DEF Balance
<1>10. ASSUME NEW h \in Msgs, Known(h), \A m \in Msgs : Queued(m)' <=> Queued(m) /\ m # h,
              \A m \in Msgs : Queued(m) /\ ~Behind(m) /\ UserOf[m] = UserOfTask(cur[i]) => m = h
       PROVE  Balance'
  <2>1. i \in Astray \/ cur[i] = <<h, 1>>
    <3> SUFFICES ASSUME i \notin Astray PROVE cur[i] = <<h, 1>>
      OBVIOUS
    <3>1. Queued(cur[i][1]) /\ ~(cur[i][2] > 1)
      BY <1>2 DEF Astray
    <3>2. cur[i][2] = 1
      BY <1>2, <1>7, <3>1
    <3>3. ~Behind(cur[i][1])
      BY <1>1, <1>2, <1>7 DEF OrderInv, Fronts, Candidate, Dispatches
    <3> QED
      BY <1>2, <1>7, <1>10, <3>1, <3>2, <3>3 DEF UserOfTask
  <2>2. \A j \in Astray' : j # i /\ (j \in Astray \/ cur[j] = <<h, 1>>)
    <3> SUFFICES ASSUME NEW j \in Instances, j # i, InFlight(j), j \notin Astray,
                        ~Queued(cur[j][1])' \/ cur[j][2] > 1
                 PROVE  cur[j] = <<h, 1>>
      BY <1>1, <1>2 DEF Astray
    <3>1. Queued(cur[j][1]) /\ ~(cur[j][2] > 1)
      BY DEF Astray
    <3>2. cur[j][1] = h /\ cur[j][2] = 1
      BY <1>1, <1>7, <1>10, <3>1
    <3> QED
      BY <1>7, <3>2
  <2>3. CASE ~Sent(h)
    <3>1. i \in Astray
      BY <1>2, <1>7, <2>1, <2>3
    <3>2. Astray' \subseteq Astray \ {i}
      <4>1. \A j \in Instances : InFlight(j) => cur[j] # <<h, 1>>
        BY <1>7, <2>3
      <4>2. \A j \in Astray' : InFlight(j) /\ j \in Instances
        BY <1>2 DEF Astray
      <4> QED
        BY <2>2, <4>1, <4>2
    <3>3. Lost' \subseteq Lost \cup {h}
      BY <1>3, <1>10 DEF Lost
    <3>4. /\ Cardinality(Lost') <= Cardinality(Lost) + 1 /\ Cardinality(Lost) \in Nat
          /\ Cardinality(Lost') \in Nat
      BY <1>8, <3>3, OneMore
    <3>5. /\ Cardinality(Astray') + 1 <= Cardinality(Astray) /\ Cardinality(Astray) \in Nat
          /\ Cardinality(Astray') \in Nat
      BY <1>8, <3>1, <3>2, OneLess
    <3> QED
      BY <1>5, <1>8, <3>4, <3>5 DEF Balance
  <2>4. CASE Sent(h)
    <3>1. Lost' \subseteq Lost
      BY <1>3, <1>10, <2>4 DEF Lost
    <3>2. /\ Cardinality(Lost') <= Cardinality(Lost) /\ Cardinality(Lost) \in Nat
          /\ Cardinality(Lost') \in Nat
      BY <1>8, <3>1, Smaller
    <3>3. /\ Cardinality(Astray') <= Cardinality(Astray) /\ Cardinality(Astray) \in Nat
          /\ Cardinality(Astray') \in Nat
      <4>1. \A j \in Astray' : j \in Instances /\ InFlight(j)
        BY <1>2 DEF Astray
      <4>2. \A j, l \in Instances :
              InFlight(j) /\ InFlight(l) /\ cur[j] = <<h, 1>> /\ cur[l] = <<h, 1>> => j = l
        BY DEF LossInv, FlightsDiffer
      <4>3. CASE \E j \in Instances \ {i} : InFlight(j) /\ cur[j] = <<h, 1>>
        <5>1. PICK j \in Instances \ {i} : InFlight(j) /\ cur[j] = <<h, 1>>
          BY <4>3
        <5>2. i \in Astray
          BY <1>2, <2>1, <4>2, <5>1
        <5>3. Astray' \subseteq (Astray \ {i}) \cup {j}
          BY <2>2, <4>1, <4>2, <5>1
        <5>4. /\ IsFiniteSet(Astray \ {i}) /\ Cardinality(Astray \ {i}) \in Nat
              /\ Cardinality(Astray \ {i}) + 1 <= Cardinality(Astray)
              /\ Cardinality(Astray) \in Nat
          BY <1>8, <5>2, OneLess
        <5>5. Cardinality(Astray') \in Nat /\ Cardinality(Astray') <= Cardinality(Astray \ {i}) + 1
          BY <5>3, <5>4, OneMore
        <5> QED
          BY <5>4, <5>5
      <4>4. CASE ~ \E j \in Instances \ {i} : InFlight(j) /\ cur[j] = <<h, 1>>
        <5>1. Astray' \subseteq Astray
          BY <2>2, <4>1, <4>4
        <5> QED
          BY <1>8, <5>1, Smaller
      <4> QED
        BY <4>3, <4>4
    <3> QED
      BY <1>5, <1>8, <3>2, <3>3 DEF Balance
  <2> QED
    BY <2>3, <2>4
<1>11. Balance'
  BY <1>9, <1>10, QueuedPop DEF OrderInv
<1> QED
  BY <1>4, <1>6, <1>11

\* Every step keeps the balance.
LEMMA LossStep == ASSUME TypeInv, OrderInv, LossInv, [Next]_vars PROVE LossInv'
<1>1. FlightSent'
  BY FlightStep DEF LossInv
<1>2. FlightsDiffer' /\ Countable' /\ Balance'
  BY LossQuiet, LossSend, LossPop
<1> QED
  BY <1>1, <1>2 DEF LossInv

\* However many instances there are, however their shards overlap and whatever fails, no
\* more messages are lost than Celery has got tasks for messages sent before: who sends
\* each message once loses none.
THEOREM LossesPaidFor == Spec => []LossNeedsDuplicate
<1>1. TypeInv /\ OrderInv /\ LossInv /\ [Next]_vars => (TypeInv /\ OrderInv /\ LossInv)'
  BY TypeStep, OrderStep, LossStep
<1>2. LossInv => LossNeedsDuplicate
  <2> SUFFICES ASSUME LossInv PROVE LossNeedsDuplicate
    OBVIOUS
  <2>1. /\ Cardinality(Lost) \in Nat /\ Cardinality(Astray) \in Nat
        /\ Cardinality(Duplicates) \in Nat
    BY Counted, FS_CardinalityType DEF LossInv
  <2>2. Cardinality(Lost) <= Cardinality(Duplicates)
    BY <2>1 DEF LossInv, Balance
  <2> QED
    BY <2>2 DEF LossNeedsDuplicate, Lost, Known, Duplicates
<1> QED
  BY <1>1, <1>2, TypeInit, OrderInit, LossInit, PTL DEF Spec

=============================================================================
