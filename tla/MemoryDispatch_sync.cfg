CONSTANTS
  r1 = r1
  r2 = r2
  r3 = r3
  app1 = app1
  app2 = app2
  service = service
  api = api
  Convs = {service}
  Requests = {r1, r2}
  Flushers = {}
  ConvOf <- SyncConvOf
  LoopOf <- MCLoopOf
  KindOf <- SyncKindOf
  Batch <- OneMessage
  Flushable = {}
  WindowSize = 3
  Faults = {}
  MaxFaults = 0
SPECIFICATION Spec
INVARIANTS
  CursorIsLastProcessed
