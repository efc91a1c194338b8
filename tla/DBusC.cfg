SPECIFICATION FairSpec
CONSTANTS
  FifoDepth = 2
  Requests <- MCRequests
  MaxRequests = 3
  MaxCancels = 1
  MaxStrays = 1
  RecvAfterSend = FALSE
INVARIANTS
  TypeOK
  NeverStarved
  ReceiverArmed
  ReportedOnce
PROPERTIES
  NothingAfterCancel
  RequestsServed
  ImplementsXfer
CHECK_DEADLOCK FALSE
