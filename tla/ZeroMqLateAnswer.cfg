SPECIFICATION Spec
CONSTANTS
  c1 = c1
  c2 = c2
  t1 = t1
  t2 = t2
  None = None
  Clients = {c1}
  Callers <- OneCaller
  MaxRequests <- OneMaxRequests
  MaxReopens <- OneMaxReopens
  HighWater = 2
  Reconnects = TRUE
  MaxRestarts = 0
INVARIANTS
  RepliesMatch
CHECK_DEADLOCK FALSE
