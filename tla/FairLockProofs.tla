--------------------------- MODULE FairLockProofs ---------------------------
(***************************************************************************)
(* Theorems about FairLock, for any clients, timeouts, lease and faults:   *)
(* types, mutual exclusion as long as renewal threads live, at most one    *)
(* reflection a period, and first come first served where the queue does   *)
(* it.                                                                     *)
(***************************************************************************)
EXTENDS FairLock, TLAPS

-----------------------------------------------------------------------------
(* Types. *)

\* The script keeps the queue's ages within their bound and gives the lock to c or nobody.
LEMMA ScriptTypes ==
  ASSUME TypeOK, NEW c \in Clients, AcquireScript(c)
  PROVE  /\ queue' \in [Clients -> NotQueued .. MaxAge]
         /\ owner' \in Clients \cup {Free}
         /\ ttl' \in 0 .. Expire
  <1>1. Queue(c) \in [Clients -> NotQueued .. MaxAge]
    BY ConstantAssumption DEF Queue, TypeOK, NotQueued
  <1>2. queue' \in [Clients -> NotQueued .. MaxAge]
    BY <1>1, ConstantAssumption DEF AcquireScript, NotQueued
  <1>3. owner' \in Clients \cup {Free} /\ ttl' \in 0 .. Expire
    BY ConstantAssumption DEF AcquireScript, TypeOK
  <1> QED BY <1>2, <1>3

\* The budget of faults is never exceeded.
LEMMA FaultTypes ==
  ASSUME TypeOK, NEW kind, Fault(kind)
  PROVE  faults' \in 0 .. MaxFaults
  BY ConstantAssumption DEF Fault, TypeOK

\* The types hold at the start.
LEMMA TypeInit == Init => TypeOK
  <1> SUFFICES ASSUME Init PROVE TypeOK
    OBVIOUS
  <1>1. queue \in [Clients -> NotQueued .. MaxAge]
    BY ConstantAssumption DEF Init, NotQueued
  <1>2. /\ ttl \in 0 .. Expire /\ dedups \in 0 .. MaxDedups /\ faults \in 0 .. MaxFaults
        /\ tries \in [Clients -> 0 .. MaxRetries - 1] /\ waited \in [Clients -> Nat]
        /\ timer \in [Clients -> 0 .. RenewEvery]
    BY ConstantAssumption DEF Init
  <1> QED BY <1>1, <1>2 DEF Init, TypeOK, Labels

\* The steps of a task keep the types.
LEMMA TypeTasks ==
  ASSUME TypeOK, NEW c \in Clients,
         Scan(c) \/ Begin(c) \/ Recheck(c) \/ Work(c) \/ WorkFails(c) \/ End(c)
  PROVE  TypeOK'
  <1> USE DEF TypeOK, Go, Labels, redisVars, taskVars, waitVars, renewVars
  <1>1. CASE Scan(c)
    BY <1>1, ConstantAssumption DEF Scan, KindOf
  <1>2. CASE Begin(c)
    BY <1>2 DEF Begin
  <1>3. CASE Recheck(c)
    BY <1>3 DEF Recheck
  <1>4. CASE Work(c)
    BY <1>4 DEF Work
  <1>5. CASE WorkFails(c)
    BY <1>5, FaultTypes DEF WorkFails
  <1>6. CASE End(c)
    BY <1>6, FaultTypes DEF End, KindOf
  <1> QED BY <1>1, <1>2, <1>3, <1>4, <1>5, <1>6

\* The calls of a client keep the types.
LEMMA TypeLock ==
  ASSUME TypeOK, NEW c \in Clients,
         Acquire(c) \/ CallFails(c) \/ Leave(c) \/ Release(c)
  PROVE  TypeOK'
  <1>1. CASE Acquire(c)
    <2>1. /\ queue' \in [Clients -> NotQueued .. MaxAge]
          /\ owner' \in Clients \cup {Free} /\ ttl' \in 0 .. Expire
      BY <1>1, ScriptTypes DEF Acquire
    <2>2. tries' \in [Clients -> 0 .. MaxRetries - 1]
      BY <1>1, ConstantAssumption DEF Acquire, TypeOK
    <2>3. /\ pc' \in [Clients -> Labels]
          /\ renewal' \in [Clients -> {"off", "on", "ended"}]
          /\ timer' \in [Clients -> 0 .. RenewEvery]
      BY <1>1, ConstantAssumption DEF Acquire, TypeOK, Labels, renewVars
    <2> QED BY <1>1, <2>1, <2>2, <2>3 DEF Acquire, TypeOK, taskVars
  <1>2. CASE CallFails(c)
    <2>1. /\ queue' \in [Clients -> NotQueued .. MaxAge]
          /\ owner' \in Clients \cup {Free} /\ ttl' \in 0 .. Expire
      BY <1>2, ScriptTypes DEF CallFails, TypeOK, redisVars
    <2>2. tries' \in [Clients -> 0 .. MaxRetries - 1]
      BY <1>2, ConstantAssumption DEF CallFails, TypeOK
    <2>3. /\ pc' \in [Clients -> Labels]
          /\ waited' \in [Clients -> Nat]
      BY <1>2 DEF CallFails, TypeOK, Labels
    <2>4. faults' \in 0 .. MaxFaults
      BY <1>2, FaultTypes DEF CallFails, CallFault, TypeOK
    <2> QED
      BY <1>2, <2>1, <2>2, <2>3, <2>4 DEF CallFails, TypeOK, taskVars, renewVars
  <1>3. CASE Leave(c)
    BY <1>3, FaultTypes, ConstantAssumption
       DEF Leave, TypeOK, Go, Labels, taskVars, renewVars, NotQueued
  <1>4. CASE Release(c)
    <2>1. owner' \in Clients \cup {Free} /\ ttl' \in 0 .. Expire /\ faults' \in 0 .. MaxFaults
      BY <1>4, FaultTypes, ConstantAssumption DEF Release, TypeOK
    <2> QED
      BY <1>4, <2>1, ConstantAssumption DEF Release, TypeOK, Go, Labels, taskVars
  <1> QED BY <1>1, <1>2, <1>3, <1>4

\* Renewals and crashes keep the types.
LEMMA TypeLease ==
  ASSUME TypeOK, NEW c \in Clients, Renew(c) \/ RenewFails(c) \/ Crash(c)
  PROVE  TypeOK'
  <1> USE ConstantAssumption
      DEF TypeOK, Labels, redisVars, taskVars, waitVars
  <1>1. CASE Renew(c)
    BY <1>1 DEF Renew
  <1>2. CASE RenewFails(c)
    BY <1>2, FaultTypes DEF RenewFails
  <1>3. CASE Crash(c)
    BY <1>3, FaultTypes DEF Crash
  <1> QED BY <1>1, <1>2, <1>3

\* What time does keeps the types.
LEMMA TypeTime ==
  ASSUME TypeOK, ExpireInflight \/ PeriodElapses \/ Tick
  PROVE  TypeOK'
  <1>1. CASE ExpireInflight
    BY <1>1 DEF ExpireInflight, TypeOK, redisVars, waitVars, renewVars
  <1>2. CASE PeriodElapses
    BY <1>2 DEF PeriodElapses, TypeOK, redisVars, waitVars, renewVars
  <1>3. CASE Tick
    <2>1. queue' \in [Clients -> NotQueued .. MaxAge]
      BY <1>3, ConstantAssumption DEF Tick, TypeOK, NotQueued
    <2>2. waited' \in [Clients -> Nat]
      BY <1>3 DEF Tick, TypeOK
    <2>3. timer' \in [Clients -> 0 .. RenewEvery]
      BY <1>3, ConstantAssumption DEF Tick, Prompt, TypeOK
    <2>4. owner' \in Clients \cup {Free} /\ ttl' \in 0 .. Expire
      BY <1>3, ConstantAssumption DEF Tick, TypeOK
    <2>5. lapsed' \in BOOLEAN
      BY <1>3 DEF Tick, TypeOK
    <2> QED BY <1>3, <2>1, <2>2, <2>3, <2>4, <2>5 DEF Tick, TypeOK, taskVars
  <1> QED BY <1>1, <1>2, <1>3

\* Every variable keeps its type: among others, acquire counts no more attempts than
\* MAX_RETRIES, and a lease is never longer than it was granted for.
THEOREM LockTypeCorrect == Spec => []TypeOK
  <1>1. TypeOK /\ [Next]_vars => TypeOK'
    <2> SUFFICES ASSUME TypeOK, [Next]_vars PROVE TypeOK'
      OBVIOUS
    <2>1. CASE Next
      BY <2>1, TypeTasks, TypeLock, TypeLease, TypeTime DEF Next, Runs, Fails
    <2>2. CASE UNCHANGED vars
      BY <2>2 DEF vars, redisVars, taskVars, waitVars, renewVars, TypeOK
    <2> QED BY <2>1, <2>2
  <1> QED BY TypeInit, <1>1, PTL DEF Spec

-----------------------------------------------------------------------------
(* Mutual exclusion. *)

\* The renewal thread runs exactly while its task has the lock to release.
Renewing ==
  \A c \in Clients : renewal[c] # "off" <=> pc[c] \in {"held", "work", "release"}

\* As long as it has not ended, the lease reaches beyond its next renewal.
LeaseHeld ==
  \A c \in Clients : renewal[c] = "on" => owner = c /\ ttl > timer[c]

\* A task at work owns the lock unless a lease has run out.
WorkerOwns == \A c \in Clients : Inside(c) => owner = c \/ lapsed

\* A lock that exists has a lease.
Leased == owner # Free => ttl > 0

LockInv == TypeOK /\ Leased /\ Renewing /\ LeaseHeld /\ WorkerOwns

\* The script takes the lock from nobody who renews it or works with it.
LEMMA ScriptExcludes ==
  ASSUME LockInv, NEW c \in Clients, Waiting(c), AcquireScript(c)
  PROVE  \A d \in Clients : /\ renewal[d] = "on" => d # c /\ owner' = owner /\ ttl' = ttl
                            /\ Inside(d) => d # c /\ (owner' = owner \/ lapsed)
  <1> SUFFICES ASSUME NEW d \in Clients
               PROVE  /\ renewal[d] = "on" => d # c /\ owner' = owner /\ ttl' = ttl
                      /\ Inside(d) => d # c /\ (owner' = owner \/ lapsed)
    OBVIOUS
  <1>1. Inside(d) \/ renewal[d] = "on" => d # c
    BY DEF LockInv, Renewing, Inside, Waiting
  <1>2. ~Grants(c) => owner' = owner /\ ttl' = ttl
    BY DEF AcquireScript
  <1>3. Grants(c) => owner = Free \/ owner = c
    BY DEF Grants
  <1>4. renewal[d] = "on" => owner = d
    BY DEF LockInv, LeaseHeld
  <1>5. Inside(d) => owner = d \/ lapsed
    BY DEF LockInv, WorkerOwns
  <1>6. d # Free
    BY ConstantAssumption
  <1> QED BY <1>1, <1>2, <1>3, <1>4, <1>5, <1>6

\* At the start nobody has the lock.
LEMMA LockInvInit == Init => LockInv
  BY TypeInit DEF Init, LockInv, Leased, Renewing, LeaseHeld, WorkerOwns, Inside

\* A task works only between the grant and the release.
LEMMA LockInvTasks ==
  ASSUME LockInv, NEW c \in Clients,
         Scan(c) \/ Begin(c) \/ Recheck(c) \/ Work(c) \/ WorkFails(c) \/ End(c)
  PROVE  (Renewing /\ LeaseHeld /\ WorkerOwns)'
  <1>1. /\ UNCHANGED <<redisVars, renewVars, lapsed>>
        /\ \E from, to \in Labels :
             /\ Go(c, from, to)
             /\ from \in {"held", "work", "release"} <=> to \in {"held", "work", "release"}
             /\ to \in {"held", "work"} => from \in {"held", "work"}
    BY DEF Scan, Begin, Recheck, Work, WorkFails, End, Labels
  <1>2. PICK from, to \in Labels :
             /\ Go(c, from, to)
             /\ from \in {"held", "work", "release"} <=> to \in {"held", "work", "release"}
             /\ to \in {"held", "work"} => from \in {"held", "work"}
    BY <1>1
  <1>3. pc' = [pc EXCEPT ![c] = to] /\ pc[c] = from
    BY <1>2 DEF Go
  <1>4. Renewing'
    BY <1>1, <1>2, <1>3 DEF LockInv, Renewing, TypeOK, renewVars
  <1>5. LeaseHeld'
    BY <1>1 DEF LockInv, LeaseHeld, redisVars, renewVars
  <1>6. WorkerOwns'
    BY <1>1, <1>2, <1>3 DEF LockInv, WorkerOwns, Inside, TypeOK, redisVars
  <1> QED BY <1>4, <1>5, <1>6

\* A grant starts a lease and a renewal, a release ends both.
LEMMA LockInvLock ==
  ASSUME LockInv, NEW c \in Clients,
         Acquire(c) \/ CallFails(c) \/ Leave(c) \/ Release(c)
  PROVE  (Renewing /\ LeaseHeld /\ WorkerOwns)'
  <1> USE DEF LockInv
  <1>1. CASE Acquire(c)
    <2>1. AcquireScript(c) /\ Waiting(c)
      BY <1>1 DEF Acquire
    <2>2. CASE Grants(c)
      <3>1. /\ pc' = [pc EXCEPT ![c] = "held"] /\ renewal' = [renewal EXCEPT ![c] = "on"]
            /\ timer' = [timer EXCEPT ![c] = RenewEvery]
            /\ owner' = c /\ ttl' = Expire /\ lapsed' = lapsed
        BY <1>1, <2>2 DEF Acquire, AcquireScript
      <3>2. Renewing'
        BY <3>1 DEF Renewing, TypeOK
      <3>3. LeaseHeld'
        BY <2>1, <3>1, ScriptExcludes, ConstantAssumption DEF LeaseHeld, TypeOK
      <3>4. WorkerOwns'
        BY <2>1, <3>1, ScriptExcludes DEF WorkerOwns, Inside, TypeOK
      <3> QED BY <3>2, <3>3, <3>4
    <2>3. CASE ~Grants(c)
      <3>1. /\ pc' = [pc EXCEPT ![c] = IF waited[c] > Timeout[c] THEN "leave" ELSE "wait"]
            /\ UNCHANGED <<owner, ttl, renewal, timer, lapsed>>
        BY <1>1, <2>3 DEF Acquire, AcquireScript, renewVars
      <3>2. Renewing'
        BY <2>1, <3>1 DEF Renewing, TypeOK, Waiting
      <3>3. LeaseHeld' /\ WorkerOwns'
        BY <3>1 DEF LeaseHeld, WorkerOwns, Inside, TypeOK
      <3> QED BY <3>2, <3>3
    <2> QED BY <2>2, <2>3
  <1>2. CASE CallFails(c)
    <2>1. Waiting(c) /\ UNCHANGED <<renewal, timer, lapsed>>
      BY <1>2 DEF CallFails, renewVars
    <2>2. pc' = pc \/ pc' = [pc EXCEPT ![c] = "end"]
      BY <1>2 DEF CallFails
    <2>3. AcquireScript(c) \/ UNCHANGED <<owner, ttl>>
      BY <1>2 DEF CallFails, redisVars
    <2>4. \A d \in Clients : /\ renewal[d] = "on" => owner' = owner /\ ttl' = ttl
                             /\ Inside(d) => owner' = owner \/ lapsed
      BY <2>1, <2>3, ScriptExcludes
    <2>5. Renewing'
      BY <2>1, <2>2 DEF Renewing, TypeOK, Waiting
    <2>6. LeaseHeld'
      BY <2>1, <2>4 DEF LeaseHeld
    <2>7. WorkerOwns'
      BY <2>1, <2>2, <2>4 DEF WorkerOwns, Inside, TypeOK
    <2> QED BY <2>5, <2>6, <2>7
  <1>3. CASE Leave(c)
    <2>1. /\ pc[c] = "leave" /\ pc' = [pc EXCEPT ![c] = "end"]
          /\ UNCHANGED <<owner, ttl, renewal, timer, lapsed>>
      BY <1>3 DEF Leave, Go, renewVars
    <2> QED BY <2>1 DEF Renewing, LeaseHeld, WorkerOwns, Inside, TypeOK
  <1>4. CASE Release(c)
    <2>1. /\ pc[c] = "release" /\ pc' = [pc EXCEPT ![c] = "end"]
          /\ renewal' = [renewal EXCEPT ![c] = "off"] /\ timer' = [timer EXCEPT ![c] = 0]
          /\ lapsed' = lapsed
      BY <1>4 DEF Release, Go
    <2>2. owner # c => UNCHANGED <<owner, ttl>>
      BY <1>4 DEF Release
    <2>3. Renewing'
      BY <2>1 DEF Renewing, TypeOK
    <2>4. LeaseHeld'
      BY <2>1, <2>2 DEF LeaseHeld, TypeOK
    <2>5. WorkerOwns'
      BY <2>1, <2>2 DEF WorkerOwns, Inside, TypeOK
    <2> QED BY <2>3, <2>4, <2>5
  <1> QED BY <1>1, <1>2, <1>3, <1>4

\* A renewal starts the lease anew, and a thread that fails to has ended.
LEMMA LockInvLease ==
  ASSUME LockInv, NEW c \in Clients, Renew(c) \/ RenewFails(c) \/ Crash(c)
  PROVE  (Renewing /\ LeaseHeld /\ WorkerOwns)'
  <1> USE DEF LockInv
  <1>1. CASE Renew(c)
    <2>1. owner = c
      BY <1>1 DEF Renew, LeaseHeld
    <2>2. /\ ttl' = Expire /\ timer' = [timer EXCEPT ![c] = RenewEvery]
          /\ renewal' = [renewal EXCEPT ![c] = "on"] /\ renewal[c] = "on"
          /\ UNCHANGED <<owner, pc, lapsed>>
      BY <1>1, <2>1 DEF Renew
    <2>3. renewal' = renewal
      BY <2>2 DEF TypeOK
    <2>4. LeaseHeld'
      BY <2>1, <2>2, <2>3, ConstantAssumption DEF LeaseHeld, TypeOK
    <2> QED BY <2>2, <2>3, <2>4 DEF Renewing, WorkerOwns, Inside
  <1>2. CASE RenewFails(c)
    <2>1. /\ renewal[c] = "on" /\ renewal' = [renewal EXCEPT ![c] = "ended"]
          /\ UNCHANGED <<owner, ttl, pc, timer, lapsed>>
      BY <1>2 DEF RenewFails, redisVars
    <2> QED BY <2>1 DEF Renewing, LeaseHeld, WorkerOwns, Inside, TypeOK
  <1>3. CASE Crash(c)
    <2>1. /\ pc' = [pc EXCEPT ![c] = "idle"] /\ renewal' = [renewal EXCEPT ![c] = "off"]
          /\ timer' = [timer EXCEPT ![c] = 0] /\ UNCHANGED <<owner, ttl, lapsed>>
      BY <1>3 DEF Crash, redisVars
    <2>2. Renewing'
      BY <2>1 DEF Renewing, TypeOK
    <2>3. LeaseHeld'
      BY <2>1 DEF LeaseHeld, TypeOK
    <2>4. WorkerOwns'
      BY <2>1 DEF WorkerOwns, Inside, TypeOK
    <2> QED BY <2>2, <2>3, <2>4
  <1> QED BY <1>1, <1>2, <1>3

\* A lease runs down no faster than the timer of its renewal.
LEMMA LockInvTime ==
  ASSUME LockInv, ExpireInflight \/ PeriodElapses \/ Tick
  PROVE  (Renewing /\ LeaseHeld /\ WorkerOwns)'
  <1> USE DEF LockInv
  <1>1. CASE ExpireInflight \/ PeriodElapses
    <2>1. UNCHANGED <<owner, ttl, pc, renewal, timer, lapsed>>
      BY <1>1 DEF ExpireInflight, PeriodElapses, redisVars, renewVars
    <2> QED BY <2>1 DEF Renewing, LeaseHeld, WorkerOwns, Inside
  <1>2. CASE Tick
    <2>1. UNCHANGED <<pc, renewal>>
      BY <1>2 DEF Tick
    <2>2. LeaseHeld'
      <3> SUFFICES ASSUME NEW d \in Clients, renewal[d] = "on"
                   PROVE  owner' = d /\ ttl' > timer'[d]
        BY <2>1 DEF LeaseHeld
      <3>1. owner = d /\ ttl > timer[d] /\ timer[d] > 0
        BY <1>2 DEF LeaseHeld, Tick, Prompt
      <3>2. ttl \in Int /\ timer[d] \in Int /\ timer'[d] = timer[d] - 1
        BY <1>2, ConstantAssumption DEF TypeOK, Tick
      <3> QED BY <1>2, <3>1, <3>2 DEF Tick
    <2>3. WorkerOwns'
      <3> SUFFICES ASSUME NEW d \in Clients, Inside(d) PROVE owner' = d \/ lapsed'
        BY <2>1 DEF WorkerOwns, Inside
      <3>1. owner = d \/ lapsed
        BY DEF WorkerOwns
      <3>2. CASE lapsed
        BY <1>2, <3>2 DEF Tick
      <3>3. CASE owner = d /\ ttl > 1
        BY <1>2, <3>3 DEF Tick, TypeOK
      <3>4. CASE owner = d /\ ttl = 1
        BY <1>2, <3>4 DEF Tick
      <3>5. owner = d => ttl > 0 /\ ttl \in Int
        BY ConstantAssumption DEF Leased, TypeOK
      <3> QED BY <3>1, <3>2, <3>3, <3>4, <3>5
    <2> QED BY <2>1, <2>2, <2>3 DEF Renewing
  <1> QED BY <1>1, <1>2

\* A lock with an owner has a lease that is not over.
LEMMA LeasedNext == LockInv /\ [Next]_vars => Leased'
  <1> SUFFICES ASSUME LockInv, [Next]_vars PROVE Leased'
    OBVIOUS
  <1>1. Leased /\ ttl \in 0 .. Expire /\ Expire \in Nat \ {0}
    BY ConstantAssumption DEF LockInv, TypeOK
  <1>2. UNCHANGED <<owner, ttl>> => Leased'
    BY <1>1 DEF Leased
  <1>3. ASSUME NEW c \in Clients, AcquireScript(c) PROVE Leased'
    BY <1>1, <1>3 DEF AcquireScript, Leased
  <1>4. ASSUME NEW c \in Clients, Scan(c) \/ Runs(c) PROVE Leased'
    <2>1. CASE Scan(c) \/ Begin(c) \/ Recheck(c) \/ Work(c) \/ End(c)
      BY <1>2, <2>1 DEF Scan, Begin, Recheck, Work, End, redisVars
    <2>2. CASE Acquire(c)
      BY <1>3, <2>2 DEF Acquire
    <2>3. CASE Leave(c)
      BY <1>2, <2>3 DEF Leave
    <2>4. CASE Release(c)
      BY <1>1, <2>4 DEF Release, Leased
    <2> QED BY <1>4, <2>1, <2>2, <2>3, <2>4 DEF Runs
  <1>5. ASSUME NEW c \in Clients, Renew(c) \/ Fails(c) PROVE Leased'
    <2>1. CASE Renew(c)
      BY <1>1, <2>1 DEF Renew, Leased
    <2>2. CASE CallFails(c)
      BY <1>2, <1>3, <2>2 DEF CallFails, redisVars
    <2>3. CASE WorkFails(c) \/ RenewFails(c) \/ Crash(c)
      BY <1>2, <2>3 DEF WorkFails, RenewFails, Crash, redisVars
    <2> QED BY <1>5, <2>1, <2>2, <2>3 DEF Fails
  <1>6. CASE ExpireInflight \/ PeriodElapses
    BY <1>2, <1>6 DEF ExpireInflight, PeriodElapses, redisVars
  <1>7. CASE Tick
    BY <1>1, <1>7 DEF Tick, Leased
  <1>8. CASE UNCHANGED vars
    BY <1>2, <1>8 DEF vars, redisVars
  <1> QED BY <1>4, <1>5, <1>6, <1>7, <1>8 DEF Next

\* Every step keeps the lock's invariant.
LEMMA LockInvNext == LockInv /\ TypeOK' /\ [Next]_vars => LockInv'
  <1> SUFFICES ASSUME LockInv, [Next]_vars
               PROVE  (Renewing /\ LeaseHeld /\ WorkerOwns)'
    BY LeasedNext DEF LockInv
  <1>1. CASE Next
    BY <1>1, LockInvTasks, LockInvLock, LockInvLease, LockInvTime DEF Next, Runs, Fails
  <1>2. CASE UNCHANGED vars
    BY <1>2 DEF vars, redisVars, renewVars, LockInv, Renewing, LeaseHeld, WorkerOwns, Inside
  <1> QED BY <1>1, <1>2

\* The invariant of the lock always holds.
LEMMA LockInvariant == Spec => []LockInv
  BY LockInvInit, LockInvNext, LockTypeCorrect, PTL DEF Spec

\* Two tasks are inside at once only when the renewal thread of one has ended: whatever
\* replies were lost, entries purged, tasks killed and however late locks were released.
THEOREM LockExcludes == Spec => []MutualExclusion
  <1>1. LockInv => MutualExclusion
    BY DEF LockInv, Renewing, LeaseHeld, MutualExclusion, Inside, TypeOK
  <1> QED BY <1>1, LockInvariant, PTL

-----------------------------------------------------------------------------
(* At most one reflection a period. *)

\* Two tasks inside at once need a lease that has lapsed.
LEMMA OneInside ==
  ASSUME LockInv, NEW c \in Clients, NEW d \in Clients, Inside(c), Inside(d), c # d
  PROVE  lapsed
  BY DEF LockInv, WorkerOwns

\* A reflection that works has found its period elapsed.
LEMMA DueKept ==
  ASSUME LockInv, ReflectedWhenDue, Next
  PROVE  ReflectedWhenDue'
  <1> SUFFICES ASSUME NEW c \in Reflectors, pc'[c] = "work", ~lapsed' PROVE due'
    BY DEF ReflectedWhenDue
  <1>0. c \in Clients
    BY ConstantAssumption
  <1>1. ~lapsed
    BY DEF Next, Runs, Fails, Scan, Begin, Recheck, Work, End, Acquire, Leave, Release,
           Renew, WorkFails, CallFails, RenewFails, Crash, ExpireInflight, PeriodElapses, Tick
  <1>2. pc[c] = "work" => due
    BY <1>1 DEF ReflectedWhenDue
  <1>3. pc \in [Clients -> Labels]
    BY DEF LockInv, TypeOK
  <1>4. ASSUME NEW d \in Clients, Scan(d) \/ Begin(d) \/ End(d) \/ WorkFails(d)
        PROVE  due'
    BY <1>0, <1>2, <1>3, <1>4 DEF Scan, Begin, End, WorkFails, Go, taskVars
  <1>5. ASSUME NEW d \in Clients, Recheck(d) PROVE due'
    BY <1>0, <1>2, <1>3, <1>5 DEF Recheck, Go, taskVars
  <1>6. ASSUME NEW d \in Clients, Work(d) PROVE due'
    <2>1. pc[c] = "work" /\ c # d /\ pc[d] = "work"
      BY <1>0, <1>3, <1>6 DEF Work, Go
    <2> QED BY <1>0, <1>1, <2>1, OneInside DEF Inside
  <1>7. ASSUME NEW d \in Clients, Acquire(d) \/ CallFails(d) \/ Leave(d) \/ Release(d)
        PROVE  due'
    BY <1>0, <1>2, <1>3, <1>7 DEF Acquire, CallFails, Leave, Release, Go, taskVars
  <1>8. ASSUME NEW d \in Clients, Renew(d) \/ RenewFails(d) \/ Crash(d) PROVE due'
    BY <1>0, <1>2, <1>3, <1>8 DEF Renew, RenewFails, Crash, taskVars
  <1>9. CASE ExpireInflight \/ PeriodElapses \/ Tick
    BY <1>2, <1>9 DEF ExpireInflight, PeriodElapses, Tick, taskVars
  <1> QED BY <1>4, <1>5, <1>6, <1>7, <1>8, <1>9 DEF Next, Runs, Fails

\* A reflection works only when one is due, unless a lease has run out under a task:
\* the second look, taken with the lock, is what makes duplicate dispatches harmless.
THEOREM OneReflectionAPeriod == Spec => []ReflectedWhenDue
  <1>1. Init => ReflectedWhenDue
    BY ConstantAssumption DEF Init, ReflectedWhenDue
  <1>2. LockInv /\ ReflectedWhenDue /\ [Next]_vars => ReflectedWhenDue'
    <2>1. UNCHANGED vars /\ ReflectedWhenDue => ReflectedWhenDue'
      BY DEF vars, taskVars, ReflectedWhenDue
    <2> QED BY <2>1, DueKept
  <1> QED BY <1>1, <1>2, LockInvariant, PTL DEF Spec
-----------------------------------------------------------------------------
(* First come, first served. *)

\* A lease lasts longer than a task waits (600 s against 30 and 120 s), or no reply of
\* acquire is lost.  Otherwise a client that was granted the lock without being told can
\* lose it while it still waits, its place in the queue having gone with the grant.
GrantOutlivesWait == "reply" \in Faults => \A c \in Clients : Timeout[c] + 1 < Expire

\* Only a client that waits has waited; it leaves when its timeout has passed.
Resting == \A c \in Clients : pc[c] \in {"idle", "sent", "start", "end"} => waited[c] = 0
Patient == \A c \in Clients : pc[c] = "wait" => waited[c] <= Timeout[c] + 1

\* Redis does not know a client that has not asked for the lock.
Unknown == \A c \in Clients : pc[c] = "sent" => queue[c] = NotQueued /\ owner # c

\* No entry is older than the wait it stands for.
NoOlder == \A c \in Clients : Waiting(c) => queue[c] <= waited[c]

\* A waiting client has its place, unless it is old enough to be purged or has been
\* granted the lock in a call whose reply was lost.
Purgeable(d) == \E e \in Clients : waited[d] >= Timeout[e] + Buffer
HasPlace(d)  == queue[d] = waited[d]
Granted(d)   == owner = d /\ ttl + waited[d] >= Expire /\ Timeout[d] + 1 < Expire
PlaceKept == \A d \in Clients : pc[d] = "wait" => Purgeable(d) \/ HasPlace(d) \/ Granted(d)

QueueInv == Resting /\ Patient /\ Unknown /\ NoOlder /\ PlaceKept

\* What a call of the script by c does to c's entry, to the others and to the lock.
LEMMA ScriptEffect ==
  ASSUME TypeOK, NEW c \in Clients, AcquireScript(c)
  PROVE  /\ queue'[c] \in {NotQueued, queue[c]} \/ (queue[c] = NotQueued /\ queue'[c] = 0)
         /\ queue'[c] = NotQueued => \/ queue[c] >= Timeout[c] + Buffer
                                     \/ owner' = c /\ ttl' = Expire
         /\ \A d \in Clients \ {c} : \/ queue'[d] = queue[d]
                                     \/ queue[d] >= Timeout[c] + Buffer /\ queue'[d] = NotQueued
         /\ UNCHANGED <<owner, ttl>> \/ (owner \in {Free, c} /\ owner' = c /\ ttl' = Expire)
  <1> DEFINE q == Queue(c)
  <1>1. /\ queue \in [Clients -> NotQueued .. MaxAge] /\ NotQueued = -1
        /\ Timeout[c] \in Nat /\ Buffer \in Nat /\ Buffer > 1
    BY ConstantAssumption DEF TypeOK, NotQueued
  <1>2. /\ q \in [Clients -> NotQueued .. MaxAge]
        /\ q[c] = IF queue[c] = NotQueued THEN 0
                  ELSE IF queue[c] >= Timeout[c] + Buffer THEN NotQueued ELSE queue[c]
        /\ \A d \in Clients \ {c} :
             q[d] = IF queue[d] >= Timeout[c] + Buffer THEN NotQueued ELSE queue[d]
    BY <1>1, ConstantAssumption DEF Queue
  <1>3. CASE Grants(c) /\ owner = Free
    <2>1. queue' = [q EXCEPT ![c] = NotQueued] /\ owner' = c /\ ttl' = Expire
      BY <1>3 DEF AcquireScript
    <2>2. queue'[c] = NotQueued /\ \A d \in Clients \ {c} : queue'[d] = q[d]
      BY <1>2, <2>1
    <2> HIDE DEF q
    <2> QED BY <1>2, <1>3, <2>1, <2>2
  <1>4. CASE ~(Grants(c) /\ owner = Free)
    <2>1. queue' = q
      BY <1>4 DEF AcquireScript
    <2>2. UNCHANGED <<owner, ttl>> \/ (owner \in {Free, c} /\ owner' = c /\ ttl' = Expire)
      BY DEF AcquireScript, Grants
    <2> HIDE DEF q
    <2> QED BY <1>1, <1>2, <2>1, <2>2
  <1> QED BY <1>3, <1>4

\* A call keeps the place of every other client that waits.
LEMMA ScriptKeepsPlaces ==
  ASSUME TypeOK, QueueInv, NEW c \in Clients, AcquireScript(c),
         NEW d \in Clients, d # c, pc[d] = "wait", waited'[d] = waited[d]
  PROVE  queue'[d] <= waited[d] /\ (Purgeable(d)' \/ HasPlace(d)' \/ Granted(d)')
  <1>1. /\ queue[d] \in NotQueued .. MaxAge /\ waited[d] \in Nat
        /\ NotQueued = -1 /\ Timeout[c] + Buffer \in Nat
    BY ConstantAssumption DEF TypeOK, NotQueued
  <1>2. queue[d] <= waited[d]
    BY DEF QueueInv, NoOlder, Waiting
  <1>3. CASE queue'[d] = queue[d]
    <2>1. Purgeable(d) \/ HasPlace(d) => Purgeable(d)' \/ HasPlace(d)'
      BY <1>3 DEF Purgeable, HasPlace
    <2>2. Granted(d) => Granted(d)'
      BY ScriptEffect, ConstantAssumption DEF Granted
    <2> QED BY <1>2, <1>3, <2>1, <2>2 DEF QueueInv, PlaceKept
  <1>4. CASE queue[d] >= Timeout[c] + Buffer /\ queue'[d] = NotQueued
    BY <1>1, <1>2, <1>4 DEF Purgeable
  <1> QED BY <1>3, <1>4, ScriptEffect

\* At the start nobody waits.
LEMMA QueueInit == Init => QueueInv
  BY ConstantAssumption
     DEF Init, QueueInv, Resting, Patient, Unknown, NoOlder, PlaceKept, Waiting, NotQueued

\* The invariant is a statement about each client: one that an action leaves alone keeps it.
QueueInvOf(d) ==
  /\ pc[d] \in {"idle", "sent", "start", "end"} => waited[d] = 0
  /\ pc[d] = "wait" => waited[d] <= Timeout[d] + 1
  /\ pc[d] = "sent" => queue[d] = NotQueued /\ owner # d
  /\ Waiting(d) => queue[d] <= waited[d]
  /\ pc[d] = "wait" => Purgeable(d) \/ HasPlace(d) \/ Granted(d)

\* The invariant of the queue is one about each client,
LEMMA QueueInvOfEach == QueueInv <=> \A d \in Clients : QueueInvOf(d)
  BY DEF QueueInv, Resting, Patient, Unknown, NoOlder, PlaceKept, QueueInvOf

\* ... after a step, too.
LEMMA QueueInvOfEachNext == QueueInv' <=> \A d \in Clients : QueueInvOf(d)'
  BY DEF QueueInv, Resting, Patient, Unknown, NoOlder, PlaceKept, QueueInvOf

\* Steps of a task around the lock.
LEMMA QueueTasks ==
  ASSUME TypeOK, QueueInv, NEW c \in Clients,
         Scan(c) \/ Begin(c) \/ Recheck(c) \/ Work(c) \/ WorkFails(c) \/ End(c)
  PROVE  QueueInv'
  <1> SUFFICES ASSUME NEW d \in Clients PROVE QueueInvOf(d)'
    BY QueueInvOfEachNext
  <1>1. UNCHANGED <<queue, owner, ttl, waited>>
    BY DEF Scan, Begin, Recheck, Work, WorkFails, End, redisVars, waitVars
  <1>2. QueueInvOf(d) /\ NotQueued = -1
    BY QueueInvOfEach DEF NotQueued
  <1>3. CASE pc'[d] = pc[d]
    BY <1>1, <1>2, <1>3 DEF QueueInvOf, Waiting, Purgeable, HasPlace, Granted
  <1>4. CASE pc'[d] # pc[d]
    <2>1. \/ pc[d] = "idle" /\ pc'[d] = "sent" /\ queue[d] = NotQueued /\ owner # d
          \/ pc[d] = "sent" /\ pc'[d] \in {"start", "end"}
          \/ pc'[d] \in {"held", "work", "release"}
          \/ pc[d] = "end" /\ pc'[d] = "idle"
      BY <1>4 DEF Scan, Begin, Recheck, Work, WorkFails, End, Go, TypeOK
    <2> QED BY <1>1, <1>2, <2>1 DEF QueueInvOf, Waiting
  <1> QED BY <1>3, <1>4

\* The calls of acquire: c itself joins at age 0 and is purged by others only.
LEMMA QueueAcquire ==
  ASSUME TypeOK, QueueInv, NEW c \in Clients, Acquire(c)
  PROVE  QueueInv'
  <1> SUFFICES ASSUME NEW d \in Clients PROVE QueueInvOf(d)'
    BY QueueInvOfEachNext
  <1>1. /\ AcquireScript(c) /\ Waiting(c) /\ waited' = waited
        /\ \/ Grants(c) /\ pc' = [pc EXCEPT ![c] = "held"]
           \/ /\ ~Grants(c)
              /\ pc' = [pc EXCEPT ![c] = IF waited[c] > Timeout[c] THEN "leave" ELSE "wait"]
    BY DEF Acquire
  <1>2. QueueInvOf(d) /\ QueueInvOf(c) /\ NotQueued = -1
    BY QueueInvOfEach DEF NotQueued
  <1>3. /\ pc \in [Clients -> Labels] /\ waited \in [Clients -> Nat]
        /\ queue \in [Clients -> NotQueued .. MaxAge]
        /\ Timeout[c] \in Nat /\ Buffer \in Nat /\ Buffer > 1 /\ Free \notin Clients
    BY ConstantAssumption DEF TypeOK
  <1>4. CASE d # c
    <2>1. pc'[d] = pc[d]
      BY <1>1, <1>3, <1>4
    <2>2. pc[d] = "sent" => queue'[d] = NotQueued /\ owner' # d
      BY <1>1, <1>2, <1>3, <1>4, ScriptEffect DEF QueueInvOf
    <2>3. pc[d] = "start" => queue'[d] <= waited[d]
      BY <1>1, <1>2, <1>3, <1>4, ScriptEffect DEF QueueInvOf, Waiting
    <2>4. pc[d] = "wait" => queue'[d] <= waited[d] /\ (Purgeable(d)' \/ HasPlace(d)' \/ Granted(d)')
      BY <1>1, <1>4, ScriptKeepsPlaces
    <2>5. pc[d] = "wait" => waited[d] <= Timeout[d] + 1
      BY <1>2 DEF QueueInvOf
    <2>6. pc[d] \in {"idle", "sent", "start", "end"} => waited[d] = 0
      BY <1>2 DEF QueueInvOf
    <2> QED BY <1>1, <2>1, <2>2, <2>3, <2>4, <2>5, <2>6 DEF QueueInvOf, Waiting
  <1>5. CASE d = c /\ pc'[c] \in {"held", "leave"}
    BY <1>5 DEF QueueInvOf, Waiting
  <1>6. CASE d = c /\ pc'[c] = "wait"
    <2>1. ~Grants(c) /\ waited[c] <= Timeout[c] /\ queue' = Queue(c) /\ UNCHANGED <<owner, ttl>>
      BY <1>1, <1>3, <1>6 DEF AcquireScript
    <2>2. queue[c] <= waited[c]
      BY <1>1, <1>2 DEF QueueInvOf
    <2>3. queue'[c] = IF queue[c] = NotQueued THEN 0 ELSE queue[c]
      BY <1>3, <2>1, <2>2, ConstantAssumption DEF Queue, NotQueued
    <2>4. queue'[c] <= waited[c]
      BY <1>3, <2>2, <2>3
    <2>5. Purgeable(c)' \/ HasPlace(c)' \/ Granted(c)'
      <3>1. CASE pc[c] = "start"
        <4>1. waited[c] = 0
          BY <1>2, <3>1 DEF QueueInvOf
        <4> QED BY <1>1, <1>2, <1>3, <2>2, <2>3, <4>1 DEF HasPlace
      <3>2. CASE pc[c] = "wait"
        <4>1. Purgeable(c) \/ HasPlace(c) \/ Granted(c)
          BY <1>2, <3>2 DEF QueueInvOf
        <4>2. HasPlace(c) => HasPlace(c)'
          BY <1>1, <1>2, <1>3, <2>3 DEF HasPlace
        <4>3. (Purgeable(c) => Purgeable(c)') /\ (Granted(c) => Granted(c)')
          BY <1>1, <2>1 DEF Purgeable, Granted
        <4> QED BY <4>1, <4>2, <4>3
      <3> QED BY <1>1, <3>1, <3>2 DEF Waiting
    <2> QED BY <1>1, <1>3, <1>6, <2>1, <2>4, <2>5 DEF QueueInvOf, Waiting
  <1> QED BY <1>1, <1>3, <1>4, <1>5, <1>6

\* A call without a reply: c may have been granted the lock, which it does not know.
LEMMA QueueCallFails ==
  ASSUME GrantOutlivesWait, TypeOK, QueueInv, NEW c \in Clients, CallFails(c)
  PROVE  QueueInv'
  <1> SUFFICES ASSUME NEW d \in Clients PROVE QueueInvOf(d)'
    BY QueueInvOfEachNext
  <1>1. /\ Waiting(c)
        /\ (AcquireScript(c) /\ "reply" \in Faults) \/ UNCHANGED <<queue, owner, ttl>>
        /\ \/ pc' = pc /\ waited' = waited
           \/ pc' = [pc EXCEPT ![c] = "end"] /\ waited' = [waited EXCEPT ![c] = 0]
    BY DEF CallFails, CallFault, Fault, redisVars
  <1>2. QueueInvOf(d) /\ QueueInvOf(c) /\ NotQueued = -1
    BY QueueInvOfEach DEF NotQueued
  <1>3. /\ pc \in [Clients -> Labels] /\ waited \in [Clients -> Nat]
        /\ queue \in [Clients -> NotQueued .. MaxAge]
        /\ Timeout[c] \in Nat /\ Buffer \in Nat /\ Buffer > 1 /\ Free \notin Clients
        /\ Expire \in Nat
    BY ConstantAssumption DEF TypeOK
  <1>4. CASE d = c /\ pc' = [pc EXCEPT ![c] = "end"] /\ waited' = [waited EXCEPT ![c] = 0]
    BY <1>3, <1>4 DEF QueueInvOf, Waiting
  <1>5. CASE pc'[d] = pc[d] /\ waited'[d] = waited[d] /\ UNCHANGED <<queue, owner, ttl>>
    <2>1. Purgeable(d) \/ HasPlace(d) \/ Granted(d) => Purgeable(d)' \/ HasPlace(d)' \/ Granted(d)'
      BY <1>5 DEF Purgeable, HasPlace, Granted
    <2> QED BY <1>2, <1>5, <2>1 DEF QueueInvOf, Waiting
  <1>6. CASE d # c /\ AcquireScript(c)
    <2>1. pc'[d] = pc[d] /\ waited'[d] = waited[d]
      BY <1>1, <1>3, <1>6
    <2>2. pc[d] = "sent" => queue'[d] = NotQueued /\ owner' # d
      BY <1>2, <1>3, <1>6, ScriptEffect DEF QueueInvOf
    <2>3. pc[d] = "start" => queue'[d] <= waited[d]
      BY <1>2, <1>3, <1>6, ScriptEffect DEF QueueInvOf, Waiting
    <2>4. pc[d] = "wait" => queue'[d] <= waited[d] /\ (Purgeable(d)' \/ HasPlace(d)' \/ Granted(d)')
      BY <1>6, <2>1, ScriptKeepsPlaces
    <2>5. /\ pc[d] = "wait" => waited[d] <= Timeout[d] + 1
          /\ pc[d] \in {"idle", "sent", "start", "end"} => waited[d] = 0
      BY <1>2 DEF QueueInvOf
    <2> QED BY <2>1, <2>2, <2>3, <2>4, <2>5 DEF QueueInvOf, Waiting
  <1>7. CASE d = c /\ AcquireScript(c) /\ "reply" \in Faults /\ pc' = pc /\ waited' = waited
    <2>1. queue'[c] <= waited[c]
      BY <1>1, <1>2, <1>3, <1>7, ScriptEffect DEF QueueInvOf
    <2>2. CASE pc[c] = "start"
      BY <1>2, <1>7, <2>1, <2>2 DEF QueueInvOf, Waiting
    <2>3. CASE pc[c] = "wait"
      <3>1. Purgeable(c) \/ HasPlace(c) \/ Granted(c)
        BY <1>2, <2>3 DEF QueueInvOf
      <3>2. Timeout[c] + 1 < Expire /\ waited[c] <= Timeout[c] + 1
        BY <1>2, <1>7, <2>3 DEF GrantOutlivesWait, QueueInvOf
      <3>3. Purgeable(c)' \/ HasPlace(c)' \/ Granted(c)'
        <4>1. CASE owner' = c /\ ttl' = Expire
          BY <1>3, <1>7, <3>2, <4>1 DEF Granted
        <4>2. CASE UNCHANGED <<owner, ttl>> /\ ~(owner' = c /\ ttl' = Expire)
          <5>1. Purgeable(c) \/ Granted(c) => Purgeable(c)' \/ Granted(c)'
            BY <1>7, <4>2 DEF Purgeable, Granted
          <5>2. ASSUME HasPlace(c) PROVE HasPlace(c)'
            <6>1. queue[c] # NotQueued /\ ~(queue[c] >= Timeout[c] + Buffer)
              BY <1>2, <1>3, <3>2, <5>2 DEF HasPlace
            <6>2. queue'[c] = queue[c]
              BY <1>7, <4>2, <6>1, ScriptEffect
            <6> QED BY <1>7, <5>2, <6>2 DEF HasPlace
          <5> QED BY <3>1, <5>1, <5>2
        <4> QED BY <1>7, <4>1, <4>2, ScriptEffect
      <3> QED BY <1>7, <2>1, <2>3, <3>2, <3>3 DEF QueueInvOf, Waiting
    <2> QED BY <1>1, <2>2, <2>3 DEF Waiting
  <1> QED BY <1>1, <1>3, <1>4, <1>5, <1>6, <1>7

\* The other steps of a client: none of them takes a waiting client's place.
LEMMA QueueRest ==
  ASSUME TypeOK, QueueInv, NEW c \in Clients,
         Leave(c) \/ Release(c) \/ Renew(c) \/ RenewFails(c) \/ Crash(c)
  PROVE  QueueInv'
  <1> SUFFICES ASSUME NEW d \in Clients PROVE QueueInvOf(d)'
    BY QueueInvOfEachNext
  <1>1. QueueInvOf(d) /\ pc \in [Clients -> Labels] /\ waited \in [Clients -> Nat]
    BY QueueInvOfEach DEF TypeOK
  <1>2. /\ queue \in [Clients -> NotQueued .. MaxAge]
        /\ Free \notin Clients /\ Expire \in Nat /\ ttl \in 0 .. Expire
    BY ConstantAssumption DEF TypeOK
  <1>3. CASE Leave(c) \/ Release(c) \/ Crash(c)
    <2>1. /\ pc' = [pc EXCEPT ![c] = "end"] \/ pc' = [pc EXCEPT ![c] = "idle"]
          /\ waited' = [waited EXCEPT ![c] = 0]
          /\ queue' = [queue EXCEPT ![c] = NotQueued] \/ queue' = queue
          /\ UNCHANGED <<owner, ttl>> \/ (owner = c /\ owner' = Free)
      BY <1>3 DEF Leave, Release, Crash, Go, redisVars
    <2>2. CASE d = c
      BY <1>1, <2>1, <2>2 DEF QueueInvOf, Waiting
    <2>3. CASE d # c
      <3>1. pc'[d] = pc[d] /\ waited'[d] = waited[d] /\ queue'[d] = queue[d]
        BY <1>1, <1>2, <2>1, <2>3
      <3>2. Granted(d) => Granted(d)'
        BY <2>1, <2>3, <3>1 DEF Granted
      <3>3. Purgeable(d) \/ HasPlace(d) => Purgeable(d)' \/ HasPlace(d)'
        BY <3>1 DEF Purgeable, HasPlace
      <3>4. owner # d => owner' # d
        BY <1>2, <2>1
      <3> QED BY <1>1, <3>1, <3>2, <3>3, <3>4 DEF QueueInvOf, Waiting
    <2> QED BY <2>2, <2>3
  <1>4. CASE Renew(c) \/ RenewFails(c)
    <2>1. /\ UNCHANGED <<pc, waited, queue, owner>>
          /\ ttl' = ttl \/ ttl' = Expire
      BY <1>4 DEF Renew, RenewFails, redisVars, waitVars
    <2>2. Granted(d) => Granted(d)'
      BY <1>1, <1>2, <2>1 DEF Granted
    <2>3. Purgeable(d) \/ HasPlace(d) => Purgeable(d)' \/ HasPlace(d)'
      BY <2>1 DEF Purgeable, HasPlace
    <2> QED BY <1>1, <2>1, <2>2, <2>3 DEF QueueInvOf, Waiting
  <1> QED BY <1>3, <1>4

\* Time: entry and wait grow together, and a lease granted without a reply outlives the wait.
LEMMA QueueTime ==
  ASSUME TypeOK, QueueInv, ExpireInflight \/ PeriodElapses \/ Tick
  PROVE  QueueInv'
  <1> SUFFICES ASSUME NEW d \in Clients PROVE QueueInvOf(d)'
    BY QueueInvOfEachNext
  <1>1. QueueInvOf(d)
    BY QueueInvOfEach
  <1>2. CASE ExpireInflight \/ PeriodElapses
    <2>1. UNCHANGED <<pc, waited, queue, owner, ttl>>
      BY <1>2 DEF ExpireInflight, PeriodElapses, redisVars, waitVars
    <2> QED BY <1>1, <2>1 DEF QueueInvOf, Waiting, Purgeable, HasPlace, Granted
  <1>3. CASE Tick
    <2>1. /\ NotQueued = -1 /\ queue[d] \in NotQueued .. MaxAge /\ waited[d] \in Nat
          /\ Timeout \in [Clients -> Nat] /\ Buffer \in Nat /\ Buffer > 1
          /\ Timeout[d] + Buffer <= MaxAge /\ MaxAge \in Nat
          /\ Expire \in Nat /\ ttl \in 0 .. Expire /\ Free # d
      BY ConstantAssumption DEF TypeOK, NotQueued
    <2>2. /\ pc' = pc
          /\ queue'[d] = IF queue[d] \in {NotQueued, MaxAge} THEN queue[d] ELSE queue[d] + 1
          /\ waited'[d] = IF pc[d] = "wait" THEN waited[d] + 1 ELSE waited[d]
          /\ ttl' = (IF ttl > 0 THEN ttl - 1 ELSE 0)
          /\ owner' = (IF ttl <= 1 THEN Free ELSE owner)
          /\ pc[d] \in {"idle", "sent", "wait", "work"}
          /\ pc[d] = "wait" => waited[d] <= Timeout[d]
      BY <1>3 DEF Tick, Prompt
    <2>3. CASE pc[d] # "wait"
      BY <1>1, <2>1, <2>2, <2>3 DEF QueueInvOf, Waiting
    <2>4. CASE pc[d] = "wait"
      <3>1. waited'[d] = waited[d] + 1 /\ waited[d] <= Timeout[d] /\ queue[d] <= waited[d]
        BY <1>1, <2>2, <2>4 DEF QueueInvOf, Waiting
      <3>2. queue'[d] <= waited'[d]
        BY <2>1, <2>2, <3>1
      <3>3. Purgeable(d) => Purgeable(d)'
        BY <2>1, <3>1 DEF Purgeable
      <3>4. HasPlace(d) => HasPlace(d)'
        BY <2>1, <2>2, <3>1 DEF HasPlace
      <3>5. Granted(d) => Granted(d)'
        BY <2>1, <2>2, <3>1 DEF Granted
      <3>6. waited'[d] <= Timeout[d] + 1
        BY <2>1, <3>1
      <3> QED BY <1>1, <2>2, <2>4, <3>2, <3>3, <3>4, <3>5, <3>6 DEF QueueInvOf, Waiting
    <2> QED BY <2>3, <2>4
  <1> QED BY <1>2, <1>3

\* The invariant of the queue, as long as a grant outlives the wait for it.
LEMMA QueueInvariant == GrantOutlivesWait => (Spec => [](TypeOK /\ QueueInv))
  <1> SUFFICES ASSUME GrantOutlivesWait PROVE Spec => [](TypeOK /\ QueueInv)
    OBVIOUS
  <1>1. TypeOK /\ QueueInv /\ [Next]_vars => QueueInv'
    <2> SUFFICES ASSUME TypeOK, QueueInv, [Next]_vars PROVE QueueInv'
      OBVIOUS
    <2>1. CASE Next
      BY <2>1, QueueTasks, QueueAcquire, QueueCallFails, QueueRest, QueueTime
         DEF Next, Runs, Fails
    <2>2. CASE UNCHANGED vars
      BY <2>2 DEF vars, redisVars, waitVars, QueueInv, Resting, Patient, Unknown, NoOlder,
                  PlaceKept, Waiting, Purgeable, HasPlace, Granted
    <2> QED BY <2>1, <2>2
  <1> QED BY QueueInit, <1>1, LockTypeCorrect, PTL DEF Spec

\* Only a call of acquire that sees its reply lets a client in.
LEMMA OnlyAcquireGrants ==
  ASSUME TypeOK, [Next]_vars, NEW c \in Clients, pc[c] # "held", pc'[c] = "held"
  PROVE  Acquire(c) /\ Grants(c)
  <1> USE DEF TypeOK, Go
  <1>1. ASSUME NEW e \in Clients, Scan(e) \/ Begin(e) \/ Recheck(e) \/ Work(e) \/ End(e)
        PROVE  FALSE
    BY <1>1 DEF Scan, Begin, Recheck, Work, End
  <1>2. ASSUME NEW e \in Clients, Leave(e) \/ Release(e) \/ WorkFails(e) \/ Crash(e)
        PROVE  FALSE
    BY <1>2 DEF Leave, Release, WorkFails, Crash
  <1>3. ASSUME NEW e \in Clients, CallFails(e) \/ Renew(e) \/ RenewFails(e) PROVE FALSE
    BY <1>3 DEF CallFails, Renew, RenewFails
  <1>4. ~(ExpireInflight \/ PeriodElapses \/ Tick \/ UNCHANGED vars)
    BY DEF ExpireInflight, PeriodElapses, Tick, vars
  <1>5. PICK e \in Clients : Acquire(e)
    BY <1>1, <1>2, <1>3, <1>4 DEF Next, Runs, Fails
  <1>6. e = c /\ Grants(c)
    BY <1>5 DEF Acquire
  <1> QED BY <1>5, <1>6

\* No client gets the lock before one that has waited for longer, until that one is old
\* enough to be purged: lost calls, dead tasks, expired leases and the purge included.
THEOREM FirstComeFirstServed ==
  ASSUME GrantOutlivesWait PROVE Spec => NoOvertaking
  <1> DEFINE InOrder ==
        \A c, d \in Clients :
          pc[c] # "held" /\ pc'[c] = "held" /\ pc[d] = "wait" /\ waited[d] > waited[c]
            => Purgeable(d)
  <1>1. TypeOK /\ QueueInv /\ [Next]_vars => InOrder
    <2> SUFFICES ASSUME TypeOK, QueueInv, [Next]_vars, NEW c \in Clients, NEW d \in Clients,
                        pc[c] # "held", pc'[c] = "held", pc[d] = "wait",
                        waited[d] > waited[c], ~Purgeable(d)
                 PROVE  FALSE
      OBVIOUS
    <2>1. IsFirst(c, Queue(c)) /\ owner \in {Free, c} /\ Waiting(c) /\ c # d
      BY OnlyAcquireGrants DEF Acquire, Grants, TypeOK
    <2>2. /\ queue[c] <= waited[c] /\ (HasPlace(d) \/ Granted(d))
      BY <2>1 DEF QueueInv, NoOlder, PlaceKept
    <2>3. queue[d] = waited[d]
      BY <2>1, <2>2, ConstantAssumption DEF HasPlace, Granted
    <2>4. /\ queue \in [Clients -> NotQueued .. MaxAge] /\ NotQueued = -1
          /\ waited[c] \in Nat /\ waited[d] \in Nat /\ Timeout[c] + Buffer \in Nat
      BY ConstantAssumption DEF TypeOK, NotQueued
    <2>5. Queue(c)[d] = waited[d]
      BY <2>1, <2>3, <2>4 DEF Queue, Purgeable
    <2>6. Queue(c)[c] \in Int /\ Queue(c)[c] <= waited[c]
      BY <2>2, <2>4 DEF Queue
    <2> QED BY <2>1, <2>4, <2>5, <2>6 DEF IsFirst
  <1>2. InOrder => \A c, d \in Clients :
          pc[c] # "held" /\ pc'[c] = "held" /\ pc[d] = "wait" /\ waited[d] > waited[c]
            => \E e \in Clients : waited[d] >= Timeout[e] + Buffer
    BY DEF Purgeable
  <1> HIDE DEF InOrder
  <1> QED BY <1>1, <1>2, QueueInvariant, PTL DEF Spec, NoOvertaking

=============================================================================
