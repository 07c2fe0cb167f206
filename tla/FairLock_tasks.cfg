CONSTANTS
  Clients = {1, 2, 3}
  Reflectors = {1, 3}
  Timeout <- MCTimeout
  Buffer = 2
  Expire = 4
  RenewEvery = 1
  MaxRetries = 2
  MaxAge = 4
  MaxDedups = 1
  Faults = {"crash", "lost", "reply", "renew", "drop", "work"}
  MaxFaults = 1
  Free = Free
SPECIFICATION FairSpec
INVARIANTS
  TypeOK
  MutualExclusion
  ReflectedWhenDue
PROPERTIES
  NoOvertaking
  OrphanFreed
  DueServed
