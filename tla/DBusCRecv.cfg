SPECIFICATION Spec
CONSTANTS
  FifoDepth = 2
  Requests <- MCRequests
  MaxRequests = 2
  MaxCancels = 0
  MaxStrays = 0
  RecvAfterSend = TRUE
INVARIANT ReceiveIsStarted
CHECK_DEADLOCK FALSE
