SPECIFICATION Spec
CONSTANTS
  Client = c
  Threads = {t1, t2}
  MaxCalls = 3
PROPERTIES
  KeepsPromise
  AnswerInTimeIsReturned
CHECK_DEADLOCK FALSE
