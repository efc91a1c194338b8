CONSTANTS
  e1 = e1
  e2 = e2
  e3 = e3
  m1 = m1
  m2 = m2
  h1 = h1
  h2 = h2
  Entries <- MCEntries
  FirstFree <- MCFirstFree
  Ids <- MCIds
  Handlers <- MCHandlers
  Askable <- MCOneCore
  FirstOnly = TRUE
  Null = Null
SPECIFICATION RegistrySpec
INVARIANTS
  RegistryTypeOK
  RegistryIntact
  HandlersCalledOnce
CHECK_DEADLOCK FALSE
