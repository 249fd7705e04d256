SPECIFICATION Spec
CONSTANTS
  syn = syn
  p1 = p1
  Keys <- MCKeys
  SYN <- syn
  Timeouts <- MCNoTimeouts
  SlotNum = 8
  Interval = 1
  MaxConnAttempts = 6
  Cap = 2
  MaxResent = 0
  MaxAcks = 0
INVARIANT
  BackoffGrows
