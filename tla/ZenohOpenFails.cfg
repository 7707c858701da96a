SPECIFICATION Spec
CONSTANTS
  Queries = {q1}
  MaxSessions = 2
  None = None
INVARIANTS
  StoppedReleasesCallbacks
CHECK_DEADLOCK FALSE
