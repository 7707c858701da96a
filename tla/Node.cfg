SPECIFICATION FairSpec
CONSTANTS
  o1 = o1
  o2 = o2
  Owners = {o1, o2}
  Applications <- MCApplications
  NoThread = NoThread
INVARIANTS
  RunningIsServed
  StoppedIsClosed
  NoBusySpin
  NeverTerminates
  NoThreadIsLost
  PromiseWillBeKept
  IInv
PROPERTIES
  StartReturns
  StopReturns
  KeepsLifecycle
CHECK_DEADLOCK FALSE
