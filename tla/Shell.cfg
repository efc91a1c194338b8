SPECIFICATION FairSpec
CONSTANTS
  Keys <- MCKeys
  Text <- MCText
  RingSize = 4
  MaxLen = 3
  HistLines = 2
  MaxKeys = 6
  MaxPosted = 2
INVARIANTS
  TypeOK
  BufferTerminated
PROPERTIES
  ImplementsLineEdit
  InputServed
CHECK_DEADLOCK FALSE
