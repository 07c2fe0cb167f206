CONSTANTS
  u1 = u1
  u2 = u2
  m1 = m1
  m2 = m2
  m3 = m3
  Users = {u1}
  Msgs = {m1}
  UserOf <- MCUserOf
  Instances = {1, 2}
  Hash <- MCHash
  MaxSends = 3
  Faults = {"crash", "abort", "send", "commit", "push", "lapse", "result"}
  MaxFaults = 2
  Free = Free
  Dispatching = Dispatching
SPECIFICATION Spec
INVARIANTS
  TypeOK
  OneTaskPerUser
  NamedLockIsWatched
