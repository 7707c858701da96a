SPECIFICATION Spec
CONSTANTS
  Publishers = {p1, p2}
  MaxMessages = 3
  MaxSessions = 2
PROPERTIES
  KeepsDelivery
  ZeroMqSessionsAreFresh
  NothingIsDropped
  WaitingIsHandled
CHECK_DEADLOCK FALSE
