SPECIFICATION FairSpec
CONSTANTS
  syn = syn
  p1 = p1
  Keys <- MCKeys
  SYN <- syn
  Timeouts <- MCTimeouts
  SlotNum = 4
  Interval = 2
  MaxConnAttempts = 2
  Cap = 2
  MaxResent = 1
  MaxAcks = 2
PROPERTIES
  ImplementsTimers
  WheelCallsReturn
  CancelEndsAll
