CONSTANTS
  e1 = e1
  e2 = e2
  e3 = e3
  mA = mA
  Entries <- MCEntries
  FirstFree <- MCFirstFree
  Messages <- MCMessages
  Delays <- MCDelays
  NoMessage = NoMessage
  Callers <- MCBothCores
  Cancellers <- MCNobody
  Null = Null
SPECIFICATION Spec
INVARIANTS
  ListIntact
CHECK_DEADLOCK FALSE
