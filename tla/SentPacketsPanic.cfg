\* A FIN sent when a timeout has just narrowed the window.
CONSTANTS
  SeqSpace = 8
  MaxPacketSizeBytes = 1
  MaxWindowSizeIncBytes = 2
  TargetDelayMicros = 1
  InitialTimeout = 1
  MinTimeout = 1
  MaxTimeout = 1
  Uint32Space = 100
  LossThreshold = 2
  Nil = Nil
  InitSeqNum = 6
  MaxPackets = 5
  MaxAcks = 2
  DataLens = {1}
  Adjustments = {0, 2}
  Estimates = {1}
SPECIFICATION Spec
INVARIANT TransmitNeverPanics
CHECK_DEADLOCK FALSE
