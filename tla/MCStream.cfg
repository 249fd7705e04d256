SPECIFICATION FairSpec
CONSTANTS
  w1 = w1
  w2 = w2
  Writers <- MCWriters
  Chunks = 1
  ReadsCap = 1
  WritesCap = 1
  SendBufCap = 1
  TokenCap = 1
  MaxPackets = 2
INVARIANTS
  EofIsComplete
  AnsweredOnce
PROPERTIES
  CloseReturns
  CallsReturn
CHECK_DEADLOCK FALSE
