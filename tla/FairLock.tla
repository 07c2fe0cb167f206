------------------------------ MODULE FairLock ------------------------------
(***************************************************************************)
(* The fair lock of src/api/app/utils/redis_lock.py on one user's graph,    *)
(* memory_write:{user}, with the tasks of src/api/app/tasks.py that take    *)
(* it: the reflection tasks, dispatched by a scan as long as a reflection   *)
(* is due, and the deduplication tasks.  A client is one lock object, with  *)
(* an id of its own; its task creates it, uses it once and forgets it.      *)
(*                                                                          *)
(* One step is one Lua script or command of Redis, or one transaction on    *)
(* the user's row.  A tick is the unit in which timeouts and leases are     *)
(* measured; entries of the queue are ordered by the tick in which they     *)
(* were added and then by client id, as the sorted set does with seconds.   *)
(***************************************************************************)
EXTENDS Integers, FiniteSets

CONSTANTS
  Clients,     \* ids of lock objects; their order breaks ties of the sorted set
  Reflectors,  \* those of reflection tasks, the others deduplicate
  Timeout,     \* how long each client waits for the lock
  Buffer,      \* CLEANUP_BUFFER
  Expire,      \* the lease
  RenewEvery,  \* the pause between two renewals, a third of the lease
  MaxRetries,  \* MAX_RETRIES
  MaxAge,      \* bound: entries of this age or older are not told apart
  MaxDedups,   \* bound: deduplications dispatched (the code has one a day)
  Faults,      \* the kinds of fault that may happen, of FaultKinds
  MaxFaults,   \* bound: faults in a behaviour
  Free         \* owner of a lock that does not exist

FaultKinds == {"crash",  \* the worker of a task dies
               "lost",   \* a call of ACQUIRE_SCRIPT fails before it is executed
               "reply",  \* it is executed and its reply is lost
               "renew",  \* all attempts of a renewal fail
               "drop",   \* all attempts of another command fail
               "work"}   \* the task raises while it holds the lock

ASSUME ConstantAssumption ==
  /\ Clients \subseteq Nat /\ IsFiniteSet(Clients)
  /\ Reflectors \subseteq Clients
  /\ Timeout \in [Clients -> Nat]
  /\ Buffer \in Nat /\ Buffer > 1   \* longer than between two calls of acquire
  /\ MaxDedups \in Nat /\ MaxFaults \in Nat
  /\ RenewEvery \in Nat \ {0} /\ Expire \in Nat /\ RenewEvery < Expire
  /\ MaxRetries \in Nat \ {0}
  /\ MaxAge \in Nat /\ \A c \in Clients : Timeout[c] + Buffer <= MaxAge
  /\ Faults \subseteq FaultKinds
  /\ Free \notin Clients

VARIABLES
  queue,     \* {key}:zset: the age of each client's entry, or NotQueued
  owner,     \* the value of the lock key
  ttl,       \* what is left of its lease
  inflight,  \* the kinds of task whose {kind}:inflight:{user} exists
  due,       \* _should_reflect_now: the user's last reflection is long ago
  dedups,    \* how many deduplications have been dispatched
  pc,        \* where the task of each client is
  tries,     \* failed attempts of its call of ACQUIRE_SCRIPT
  waited,    \* how long it has been waiting
  renewal,   \* its renewal thread: "off", "on" or "ended"
  timer,     \* how long that sleeps before it renews
  lapsed,    \* history: a lease has run out under a task at work
  faults     \* how many faults have happened

redisVars == <<queue, owner, ttl>>
taskVars  == <<inflight, due, dedups>>
waitVars  == <<tries, waited>>
renewVars == <<renewal, timer>>
vars == <<redisVars, taskVars, pc, waitVars, renewVars, lapsed, faults>>

NotQueued == -1
Labels == {"idle", "sent", "start", "wait", "leave", "held", "work", "release", "end"}
KindOf(c) == IF c \in Reflectors THEN "reflection" ELSE "dedup"

\* The tasks that act on the graph, each convinced that it holds the lock.
Inside(c) == pc[c] \in {"held", "work"}
Waiting(c) == pc[c] \in {"start", "wait"}

TypeOK ==
  /\ queue \in [Clients -> NotQueued .. MaxAge]
  /\ owner \in Clients \cup {Free}
  /\ ttl \in 0 .. Expire
  /\ inflight \subseteq {"reflection", "dedup"}
  /\ due \in BOOLEAN /\ lapsed \in BOOLEAN
  /\ dedups \in 0 .. MaxDedups
  /\ pc \in [Clients -> Labels]
  /\ tries \in [Clients -> 0 .. MaxRetries - 1]
  /\ waited \in [Clients -> Nat]
  /\ renewal \in [Clients -> {"off", "on", "ended"}]
  /\ timer \in [Clients -> 0 .. RenewEvery]
  /\ faults \in 0 .. MaxFaults

Init ==
  /\ queue = [c \in Clients |-> NotQueued]
  /\ owner = Free /\ ttl = 0
  /\ inflight = {} /\ due = TRUE /\ dedups = 0
  /\ pc = [c \in Clients |-> "idle"]
  /\ tries = [c \in Clients |-> 0] /\ waited = [c \in Clients |-> 0]
  /\ renewal = [c \in Clients |-> "off"] /\ timer = [c \in Clients |-> 0]
  /\ lapsed = FALSE /\ faults = 0

Fault(kind) == kind \in Faults /\ faults < MaxFaults /\ faults' = faults + 1

\* All failed attempts of one call are one fault.
CallFault(c, kind) ==
  IF tries[c] = 0 THEN Fault(kind) ELSE kind \in Faults /\ UNCHANGED faults

Go(c, from, to) == pc[c] = from /\ pc' = [pc EXCEPT ![c] = to]

-----------------------------------------------------------------------------
(* The tasks around the lock. *)

\* A scan finds the user and dispatches a task for him, unless one is in flight.
\* The task's lock object has a new id, unknown to Redis.
Scan(c) ==
  /\ Go(c, "idle", "sent")
  /\ queue[c] = NotQueued /\ owner # c
  /\ KindOf(c) \notin inflight /\ inflight' = inflight \cup {KindOf(c)}
  /\ IF c \in Reflectors THEN due /\ UNCHANGED dedups
                         ELSE dedups < MaxDedups /\ dedups' = dedups + 1
  /\ UNCHANGED <<redisVars, due, waitVars, renewVars, lapsed, faults>>

\* A reflection that is no longer due ends before it asks for the lock.
Begin(c) ==
  /\ \/ Go(c, "sent", "start") /\ (c \in Reflectors => due)
     \/ Go(c, "sent", "end") /\ c \in Reflectors /\ ~due
  /\ UNCHANGED <<redisVars, taskVars, waitVars, renewVars, lapsed, faults>>

\* Mutant: the second look is left out.
RecheckNothing(c) ==
  /\ Go(c, "held", "work")
  /\ UNCHANGED <<redisVars, taskVars, waitVars, renewVars, lapsed, faults>>

\* With the lock, a reflection looks again whether it is due.
Recheck(c) ==
  /\ \/ Go(c, "held", "work") /\ (c \in Reflectors => due)
     \/ Go(c, "held", "release") /\ c \in Reflectors /\ ~due
  /\ UNCHANGED <<redisVars, taskVars, waitVars, renewVars, lapsed, faults>>

\* The work is done; a reflection sets the user's reflection_time.
Work(c) ==
  /\ Go(c, "work", "release")
  /\ due' = (due /\ c \notin Reflectors)
  /\ UNCHANGED <<redisVars, inflight, dedups, waitVars, renewVars, lapsed, faults>>

WorkFails(c) ==
  /\ Go(c, "work", "release") /\ Fault("work")
  /\ UNCHANGED <<redisVars, taskVars, waitVars, renewVars, lapsed>>

\* The task deletes the key of its kind, whoever has set it.
End(c) ==
  /\ Go(c, "end", "idle")
  /\ \/ inflight' = inflight \ {KindOf(c)} /\ UNCHANGED faults
     \/ Fault("drop") /\ UNCHANGED inflight
  /\ UNCHANGED <<redisVars, due, dedups, waitVars, renewVars, lapsed>>

\* A key in flight expires: a task may wait in the broker for longer than its 1500 s.
ExpireInflight ==
  /\ \E kind \in inflight : inflight' = inflight \ {kind}
  /\ UNCHANGED <<redisVars, due, dedups, pc, waitVars, renewVars, lapsed, faults>>

\* A period is hours long: the next one does not begin while a task is at work.
PeriodElapses ==
  /\ ~due /\ \A c \in Clients : ~Inside(c)
  /\ due' = TRUE
  /\ UNCHANGED <<redisVars, inflight, dedups, pc, waitVars, renewVars, lapsed, faults>>

-----------------------------------------------------------------------------
(* The lock. *)

\* Mutant: ZADD without looking whether the client is in the queue.
QueueRefreshed(c) ==
  LET joined == [queue EXCEPT ![c] = 0]
  IN  [d \in Clients |->
         IF joined[d] >= Timeout[c] + Buffer THEN NotQueued ELSE joined[d]]

\* Mutant: old entries are not removed.
QueueUnpurged(c) == [queue EXCEPT ![c] = IF @ = NotQueued THEN 0 ELSE @]

\* ACQUIRE_SCRIPT: the queue once c has joined it and the entries that are older than
\* c allows, of whoever and possibly its own, have been removed.
Queue(c) ==
  LET joined == [queue EXCEPT ![c] = IF @ = NotQueued THEN 0 ELSE @]
  IN  [d \in Clients |->
         IF joined[d] >= Timeout[c] + Buffer THEN NotQueued ELSE joined[d]]

\* The entry with the lowest score, which is the oldest.
IsFirst(c, q) ==
  /\ q[c] # NotQueued
  /\ \A d \in Clients : q[d] < q[c] \/ (q[d] = q[c] /\ c <= d)

Grants(c) == IsFirst(c, Queue(c)) /\ owner \in {Free, c}

\* What the script does.  A client that owns the lock already is not taken off the queue.
AcquireScript(c) ==
  /\ queue' = IF Grants(c) /\ owner = Free
              THEN [Queue(c) EXCEPT ![c] = NotQueued] ELSE Queue(c)
  /\ IF Grants(c) THEN owner' = c /\ ttl' = Expire ELSE UNCHANGED <<owner, ttl>>

\* acquire: one call of the script with its reply.
Acquire(c) ==
  /\ Waiting(c) /\ AcquireScript(c)
  /\ tries' = [tries EXCEPT ![c] = 0]
  /\ \/ /\ Grants(c)
        /\ pc' = [pc EXCEPT ![c] = "held"]
        /\ renewal' = [renewal EXCEPT ![c] = "on"]
        /\ timer' = [timer EXCEPT ![c] = RenewEvery]
     \/ /\ ~Grants(c)
        /\ pc' = [pc EXCEPT ![c] = IF waited[c] > Timeout[c] THEN "leave" ELSE "wait"]
        /\ UNCHANGED renewVars
  /\ UNCHANGED <<taskVars, waited, lapsed, faults>>

\* Mutant: one attempt too many.
CallFailsOnceMore(c) ==
  /\ Waiting(c)
  /\ \/ CallFault(c, "reply") /\ AcquireScript(c)
     \/ CallFault(c, "lost") /\ UNCHANGED redisVars
  /\ IF tries[c] < MaxRetries
     THEN /\ tries' = [tries EXCEPT ![c] = @ + 1]
          /\ UNCHANGED <<pc, waited>>
     ELSE /\ tries' = [tries EXCEPT ![c] = 0]
          /\ waited' = [waited EXCEPT ![c] = 0]
          /\ pc' = [pc EXCEPT ![c] = "end"]
  /\ UNCHANGED <<taskVars, renewVars, lapsed>>

\* A call without a reply is repeated; after the last attempt acquire raises, and the
\* task ends without touching the lock.
CallFails(c) ==
  /\ Waiting(c)
  /\ \/ CallFault(c, "reply") /\ AcquireScript(c)
     \/ CallFault(c, "lost") /\ UNCHANGED redisVars
  /\ IF tries[c] + 1 < MaxRetries
     THEN /\ tries' = [tries EXCEPT ![c] = @ + 1]
          /\ UNCHANGED <<pc, waited>>
     ELSE /\ tries' = [tries EXCEPT ![c] = 0]
          /\ waited' = [waited EXCEPT ![c] = 0]
          /\ pc' = [pc EXCEPT ![c] = "end"]
  /\ UNCHANGED <<taskVars, renewVars, lapsed>>

\* acquire has timed out: it takes its entry off the queue, and nothing else.
Leave(c) ==
  /\ Go(c, "leave", "end")
  /\ waited' = [waited EXCEPT ![c] = 0]
  /\ \/ queue' = [queue EXCEPT ![c] = NotQueued] /\ UNCHANGED faults
     \/ Fault("drop") /\ UNCHANGED queue
  /\ UNCHANGED <<owner, ttl, taskVars, tries, renewVars, lapsed>>

\* _renewal_loop: the script renews the lock of its owner; without success it ends, and
\* nobody is told.
Renew(c) ==
  /\ renewal[c] = "on" /\ timer[c] = 0
  /\ IF owner = c THEN ttl' = Expire ELSE UNCHANGED ttl
  /\ renewal' = [renewal EXCEPT ![c] = IF owner = c THEN "on" ELSE "ended"]
  /\ timer' = [timer EXCEPT ![c] = IF owner = c THEN RenewEvery ELSE 0]
  /\ UNCHANGED <<queue, owner, taskVars, pc, waitVars, lapsed, faults>>

RenewFails(c) ==
  /\ renewal[c] = "on" /\ timer[c] = 0 /\ Fault("renew")
  /\ renewal' = [renewal EXCEPT ![c] = "ended"]
  /\ UNCHANGED <<redisVars, taskVars, pc, waitVars, timer, lapsed>>

\* Mutant: DEL without comparing the value.
ReleaseAnyway(c) ==
  /\ Go(c, "release", "end")
  /\ renewal' = [renewal EXCEPT ![c] = "off"]
  /\ timer' = [timer EXCEPT ![c] = 0] /\ waited' = [waited EXCEPT ![c] = 0]
  /\ owner' = Free /\ ttl' = 0
  /\ UNCHANGED <<queue, taskVars, tries, lapsed, faults>>

\* Mutant: the renewal thread is not stopped.
ReleaseRenewing(c) ==
  /\ Go(c, "release", "end")
  /\ waited' = [waited EXCEPT ![c] = 0]
  /\ \/ /\ IF owner = c THEN owner' = Free /\ ttl' = 0 ELSE UNCHANGED <<owner, ttl>>
        /\ UNCHANGED faults
     \/ Fault("drop") /\ UNCHANGED <<owner, ttl>>
  /\ UNCHANGED <<queue, taskVars, tries, renewVars, lapsed>>

\* release: the renewal is stopped, then UNLOCK_SCRIPT deletes a lock that is still c's.
Release(c) ==
  /\ Go(c, "release", "end")
  /\ renewal' = [renewal EXCEPT ![c] = "off"]
  /\ timer' = [timer EXCEPT ![c] = 0] /\ waited' = [waited EXCEPT ![c] = 0]
  /\ \/ /\ IF owner = c THEN owner' = Free /\ ttl' = 0 ELSE UNCHANGED <<owner, ttl>>
        /\ UNCHANGED faults
     \/ Fault("drop") /\ UNCHANGED <<owner, ttl>>
  /\ UNCHANGED <<queue, taskVars, tries, lapsed>>

\* The worker of a task dies, its renewal thread with it; Redis keeps what it has.
Crash(c) ==
  /\ pc[c] \notin {"idle", "sent"} /\ Fault("crash")
  /\ pc' = [pc EXCEPT ![c] = "idle"]
  /\ tries' = [tries EXCEPT ![c] = 0] /\ waited' = [waited EXCEPT ![c] = 0]
  /\ renewal' = [renewal EXCEPT ![c] = "off"] /\ timer' = [timer EXCEPT ![c] = 0]
  /\ UNCHANGED <<redisVars, taskVars, lapsed>>

-----------------------------------------------------------------------------
(* Time. *)

\* What the code does within a tick: a renewal that is due, the call that finds the
\* timeout passed, and every step but waiting (for a worker, for the lock) and work.
Prompt ==
  \A c \in Clients :
    /\ renewal[c] = "on" => timer[c] > 0
    /\ pc[c] \in {"idle", "sent", "wait", "work"}
    /\ pc[c] = "wait" => waited[c] <= Timeout[c]

Tick ==
  /\ Prompt
  /\ queue' = [c \in Clients |-> IF queue[c] \in {NotQueued, MaxAge}
                                 THEN queue[c] ELSE queue[c] + 1]
  /\ waited' = [c \in Clients |-> IF pc[c] = "wait" THEN waited[c] + 1 ELSE waited[c]]
  /\ timer' = [c \in Clients |-> IF renewal[c] = "on" THEN timer[c] - 1 ELSE timer[c]]
  /\ ttl' = IF ttl > 0 THEN ttl - 1 ELSE 0
  /\ owner' = IF ttl <= 1 THEN Free ELSE owner
  /\ lapsed' = (lapsed \/ (ttl = 1 /\ \E c \in Clients : owner = c /\ Inside(c)))
  /\ UNCHANGED <<taskVars, pc, tries, renewal, faults>>

-----------------------------------------------------------------------------
\* What the thread of a running task does next; failures are alternatives to it.
Runs(c)  == \/ Begin(c) \/ Recheck(c) \/ Work(c) \/ End(c)
            \/ Acquire(c) \/ Leave(c) \/ Release(c)
Fails(c) == WorkFails(c) \/ CallFails(c) \/ RenewFails(c) \/ Crash(c)

Next ==
  \/ \E c \in Clients : Scan(c) \/ Runs(c) \/ Renew(c) \/ Fails(c)
  \/ ExpireInflight \/ PeriodElapses \/ Tick

Spec == Init /\ [][Next]_vars

\* Threads and workers go on, time passes, keys expire, and the scan, which runs every
\* ten minutes, dispatches what it may again and again.  No fault is fair.
Fairness ==
  /\ \A c \in Clients : WF_vars(Runs(c))
  /\ WF_vars(\E c \in Clients : Renew(c))
  /\ SF_vars(\E c \in Reflectors : Scan(c))
  /\ WF_vars(ExpireInflight) /\ WF_vars(Tick)

FairSpec == Spec /\ Fairness

-----------------------------------------------------------------------------
(* Properties. *)

\* Two tasks act on one graph only if the renewal thread of one of them has ended, which
\* its task is not told: neither retries of acquire whose replies were lost, nor the
\* purge of the queue, nor a late release lets a second one in.
MutualExclusion ==
  \A c, d \in Clients :
    c # d /\ Inside(c) /\ Inside(d) => renewal[c] = "ended" \/ renewal[d] = "ended"

\* A graph is reflected at most once a period, however many reflections are dispatched
\* and however long they queue: they look again with the lock.  Only a lease that ran
\* out under a task breaks this.
ReflectedWhenDue ==
  \A c \in Reflectors : pc[c] = "work" => due \/ lapsed

\* No client gets the lock before one that has been waiting for longer, until that one
\* is old enough to be purged by the most impatient of them.  (Then it loses its place:
\* a deduplication waits for longer than the reflections it shares the queue with.)
NoOvertaking ==
  [][\A c, d \in Clients :
       pc[c] # "held" /\ pc'[c] = "held" /\ pc[d] = "wait" /\ waited[d] > waited[c]
         => \E e \in Clients : waited[d] >= Timeout[e] + Buffer]_vars

\* A lock whose task is gone (dead, given up after a lost reply, or unable to release)
\* does not stay: nobody renews it.
Orphaned == \E c \in Clients : owner = c /\ pc[c] = "idle"
OrphanFreed == Orphaned ~> ~Orphaned

\* The lock does not starve the user: a reflection that is due gets done, whatever
\* entries, leases and keys in flight dead or failed tasks have left behind.
DueServed == due ~> ~due
=============================================================================
