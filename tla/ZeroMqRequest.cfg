SPECIFICATION FairSpec
CONSTANTS
  c1 = c1
  c2 = c2
  t1 = t1
  t2 = t2
  None = None
  Clients = {c1, c2}
  Callers <- MCCallers
  MaxRequests <- MCMaxRequests
  MaxReopens <- MCMaxReopens
  HighWater = 1
  Reconnects = TRUE
  MaxRestarts = 1
INVARIANTS
  AnswersStayWithConnection
  LagBoundedByTimeouts
  IInv
PROPERTIES
  AnswersInOrder
  KeepsPromise
  RequestReturnsOrSendBlocks
CHECK_DEADLOCK FALSE
