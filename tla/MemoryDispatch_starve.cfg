CONSTANTS
  r1 = r1
  r2 = r2
  r3 = r3
  app1 = app1
  app2 = app2
  service = service
  api = api
  Convs = {app1, app2}
  Requests = {r1, r2, r3}
  Flushers = {f1}
  ConvOf <- TwoConvOf
  LoopOf <- MCLoopOf
  KindOf <- ChatKindOf
  Batch <- OneMessage
  Flushable = {app1, app2}
  WindowSize = 3
  Faults = {}
  MaxFaults = 0
SPECIFICATION FairSpec
PROPERTIES
  EveryMessageConsumed
