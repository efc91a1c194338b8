SPECIFICATION FairSpec
CONSTANTS
  MemSize <- MCMemSize
  Page <- MCPage
  Starts <- MCStarts
  Offers <- MCOffers
  Garbage <- MCGarbage
  Bits <- MCBits
INVARIANT TypeOK
PROPERTIES ImplementsDebugger PromptReturns NothingOverwritten
CHECK_DEADLOCK FALSE
