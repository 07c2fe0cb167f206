CONSTANTS
  u1 = u1
  u2 = u2
  m1 = m1
  m2 = m2
  m3 = m3
  Users = {u1, u2}
  Msgs = {m1, m2, m3}
  UserOf <- MCUserOf
  Instances = {1}
  Hash <- MCHash
  MaxSends = 1
  Faults = {}
  MaxFaults = 0
  Free = Free
  Dispatching = Dispatching
SPECIFICATION FairSpec
INVARIANTS
  NoMissedWakeup
PROPERTIES
  EveryMessageWritten
  ImplementsSerialQueue
