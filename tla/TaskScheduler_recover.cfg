CONSTANTS
  u1 = u1
  u2 = u2
  m1 = m1
  m2 = m2
  m3 = m3
  Users = {u1}
  Msgs = {m1, m2}
  UserOf <- MCUserOf
  Instances = {1}
  Hash <- MCHash
  MaxSends = 3
  Faults = {"crash", "abort", "send", "commit", "reply", "push", "age", "result", "ttl", "day"}
  MaxFaults = 2
  Free = Free
  Dispatching = Dispatching
SPECIFICATION ScanSpec
INVARIANTS
  NoMessageLost
  SentInOrder
PROPERTIES
  ActiveUserServed
  StatusNeverGoesBack
