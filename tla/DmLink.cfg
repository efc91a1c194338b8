CONSTANTS
  MaxRequests = 3
  MaxMishaps = 1
  InTime = TRUE
SPECIFICATION FairSpec
INVARIANTS
  TypeOK
  TakenOnce
  CompletedMeansExecuted
  QuietMeansServed
PROPERTIES
  FallsQuiet
