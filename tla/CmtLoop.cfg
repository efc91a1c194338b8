CONSTANTS
  QueueSize <- MCQueueSize
  HousekeepTicks <- MCHousekeepTicks
SPECIFICATION FairSpec
INVARIANTS
  TypeOK
  OneHousekeeping
  PendingIsOnItsWay
  RunonHandshake
  CoreOneStartsOnce
PROPERTIES
  RunonReturns
  HousekeepingGoesOnUnlessDebug
  StartupCompletes
CHECK_DEADLOCK FALSE
