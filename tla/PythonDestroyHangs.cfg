SPECIFICATION Spec
CONSTANTS
  Threads = {t1, t2}
  Owner = t1
  Callbacks = {f1, f2, f3}
  Worker = Worker
  None = None
PROPERTIES
  DeleteReturns
CHECK_DEADLOCK FALSE
