CONSTANTS
  MaxRequests = 2
  MaxMishaps = 1
  InTime = TRUE
SPECIFICATION FairSpec
INVARIANT SpecialResetFindsInit
