SPECIFICATION FairSpec
CONSTANTS
  Queries = {q1, q2}
  MaxSessions = 3
  None = None
INVARIANTS
  PendingTracksCallbacks
  AnswersMatchQueries
  StoppedReleasesOthers
  Accounting
PROPERTIES
  ServesQueries
  StopReturnsOrCycle
  CallbackReturnsOrCycle
CHECK_DEADLOCK FALSE
