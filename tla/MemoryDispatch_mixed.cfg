CONSTANTS
  r1 = r1
  r2 = r2
  r3 = r3
  app1 = app1
  app2 = app2
  service = service
  api = api
  Convs = {app1, service}
  Requests = {r1, r2, r3}
  Flushers = {f1}
  ConvOf <- MixedConvOf
  LoopOf <- MCLoopOf
  KindOf <- MixedKindOf
  Batch <- MixedBatch
  Flushable = {app1}
  WindowSize = 1
  Faults = {"crash", "error", "redis", "stall"}
  MaxFaults = 1
SPECIFICATION FairSpec
INVARIANTS
  LossNeedsFailure
PROPERTIES
  EveryMessageConsumed
