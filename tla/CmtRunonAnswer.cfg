CONSTANTS
  QueueSize <- MCQueueSize
  HousekeepTicks <- MCHousekeepTicks
SPECIFICATION Spec
INVARIANTS
  RunonGivesAnswer
CHECK_DEADLOCK FALSE
