SPECIFICATION Spec
CONSTANTS
  Broadcasts <- MCBroadcasts
  Requests <- MCRequests
  Builds <- MCBuilds
  Numerals <- MCNumerals
  ValueOf <- MCValueOf
  Signed = {"-0", "-1"}
  Words = {"word", "tcp", "inproc", "inprocess", "4294967297"}
  DigitWords = {"4294967297"}
  InprocWords = {"inproc", "inprocess"}
INVARIANTS
  SpeaksDocumentedProtocol
  RefusedForAReason
  EndpointsNameAddresses
CHECK_DEADLOCK FALSE
