CONSTANTS
  r1 = r1
  r2 = r2
  r3 = r3
  app1 = app1
  app2 = app2
  service = service
  api = api
  Convs = {app1}
  Requests = {r1, r2}
  Flushers = {f1, f2}
  ConvOf <- ChatConvOf
  LoopOf <- MCLoopOf
  KindOf <- ChatKindOf
  Batch <- ChatBatch
  Flushable = {app1}
  WindowSize = 1
  Faults = {"crash", "error", "redis", "stall"}
  MaxFaults = 1
SPECIFICATION Spec
INVARIANTS
  TypeOK
  SeqsDistinct
  PushedAtMostOnce
  LossNeedsFailure
