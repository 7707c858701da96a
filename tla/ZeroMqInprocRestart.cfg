SPECIFICATION FairSpec
CONSTANTS
  c1 = c1
  c2 = c2
  t1 = t1
  t2 = t2
  None = None
  Clients = {c1}
  Callers <- OneCaller
  MaxRequests <- OneMaxRequests
  MaxReopens <- OneMaxReopens
  HighWater = 4
  Reconnects = FALSE
  MaxRestarts = 1
PROPERTIES
  RequestReturns
CHECK_DEADLOCK FALSE
