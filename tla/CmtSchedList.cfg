CONSTANTS
  e1 = e1
  e2 = e2
  e3 = e3
  mA = mA
  Entries <- MCEntries
  FirstFree <- MCFirstFree
  Messages <- MCMessages
  Delays <- MCDelays
  NoMessage = NoMessage
  Callers <- MCCore0
  Cancellers <- MCCore0
  Null = Null
SPECIFICATION Spec
INVARIANTS
  TypeOK
  ListIntact
PROPERTIES
  ImplementsDeadline
CHECK_DEADLOCK FALSE
