SPECIFICATION FairSpec
CONSTANTS
  Queries = {q1}
  MaxSessions = 1
  None = None
PROPERTIES
  StopReturns
CHECK_DEADLOCK FALSE
