CONSTANTS
  e1 = e1
  e2 = e2
  e3 = e3
  mA = mA
  Entries <- MCEntries
  Messages <- MCMessages
  Delays <- MCDelays
  NoMessage = NoMessage
SPECIFICATION FairSpec
INVARIANTS
  TypeOK
  PoolConserved
  DeltasKeepDeadlines
  PostedOnItsTick
PROPERTIES
  EventuallyLeaves
  ImplementsDeadline
CHECK_DEADLOCK FALSE
